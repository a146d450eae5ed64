------------------------------ MODULE MCStartup ------------------------------
(***************************************************************************)
(* Small instances of Boot: files put together from blocks, and files that *)
(* say what a member of Configs says, with which instances then come up.   *)
(***************************************************************************)
EXTENDS Boot

Section(s) == [is |-> "section", name |-> s]
Entry(k, v) == [is |-> "entry", key |-> k, val |-> v]

MCCidrs == [s \in {"0", "1", "1/24", "2", "3"} |->
              CASE s = "0" -> 0 [] s \in {"1", "1/24"} -> 1 [] s = "2" -> 2 [] s = "3" -> 3]

\* What files are put together from.
Blocks ==
    {<<Section("me"), Entry("vip", <<"1/24">>)>>,
     <<Section("me"), Entry("vip", <<"2">>), Entry("tun_mtu", <<"9000">>)>>,
     <<Section("me"), Entry("vip", <<"0">>)>>,
     <<Section("me"), Entry("vip", <<"word">>)>>,
     <<Section("me"), Entry("user", <<"nobody">>), [is |-> "skip"]>>,
     <<Section("peers"), Entry("1", <<"a", "b">>), Entry("2", <<"c">>)>>,
     <<Section("peers"), Entry("1/24", <<"a">>)>>,
     <<Section("peers"), Entry("3", <<"">>)>>,
     <<Section("peers"), Entry("2", <<"c", "">>), Entry("1", <<"b">>)>>,
     <<Section("peers"), Entry("2", <<"word">>)>>,
     <<Section("peers"), Entry("word", <<"a">>)>>,
     <<Section("peers")>>,
     <<Section("probe"), Entry("interval_ms", <<"50">>), Entry("timeout_ms", <<"300">>)>>,
     <<Section("udp"), Entry("recv_buf", <<"4096">>), Entry("interval_ms", <<"7">>)>>,
     <<Entry("user", <<"root">>)>>,
     <<[is |-> "badsection"]>>,
     <<[is |-> "noeq"]>>}

MCFiles == {a \o b \o c : a \in Blocks, b \in Blocks, c \in Blocks}

-----------------------------------------------------------------------------

\* Configurations that are right, with and without a user, and some that each
\* lack one thing.
Good == [me |-> TRUE, vip |-> 1, peers |-> [v \in {1, 2} |-> v + 1], user |-> "known"]

MCConfigs ==
    {Good, [Good EXCEPT !.user = ""], [Good EXCEPT !.user = "unknown"],
     [Good EXCEPT !.me = FALSE], [Good EXCEPT !.vip = 0], [Good EXCEPT !.vip = 3],
     [Good EXCEPT !.peers[1] = 0],
     \* Of blocks, in several ways.
     [Good EXCEPT !.peers[2] = 1, !.user = ""]}

Vip(v) == CASE v = 0 -> "0" [] v = 1 -> "1/24" [] v = 3 -> "3"

\* A file that says what c says.
Told(c) ==
    (IF c.me THEN <<Section("me"), Entry("vip", <<Vip(c.vip)>>)>> ELSE <<>>)
      \o (IF c.me /\ c.user # "" THEN <<Entry("user", <<c.user>>)>> ELSE <<>>)
      \o <<Section("peers"), Entry("1", SubSeq(<<"a", "b">>, 1, c.peers[1])),
           Entry("2", <<"a", "b", "c">>)>>

MCAllFiles == MCFiles \cup {Told(c) : c \in MCConfigs}

\* Each file with the configuration it says, or else with any one.
MCInit == BootInit /\ (Says(cfg) \/ (cfg = Good /\ \A c \in Configs : ~Says(c)))

MCSpec == MCInit /\ [][BootNext]_<<vars, configVars>>

=============================================================================
