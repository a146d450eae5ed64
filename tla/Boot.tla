-------------------------------- MODULE Boot --------------------------------
(***************************************************************************)
(* run in main.cpp as a whole: loadConfig reads the file (Config), and     *)
(* when it returns, instances come up with what the file says (Startup).   *)
(***************************************************************************)
EXTENDS Startup, Config

\* The file says configuration c, when it is read as a whole: all of it can be
\* read, [me] has c's vip (0: none) and user, and [peers] gives each of c's VIPs
\* as many endpoints as c does.
Says(c) ==
    LET entries == Entries(Len(file), "peers")
    IN  /\ \A x \in DOMAIN file : ~Bad(x)
        /\ c.me <=> \E x \in DOMAIN file : file[x].is = "section" /\ file[x].name = "me"
        /\ c.me =>
             /\ Written("me", "vip") = {} => c.vip = 0
             /\ \A val \in Written("me", "vip") : IsCidr(val) /\ Cidrs[val[1]] = c.vip
             /\ Written("me", "user") = IF c.user = NoUser THEN {} ELSE {<<c.user>>}
        /\ \A x \in entries : file[x].key \in DOMAIN Cidrs /\ ~BadDsts(file[x].val)
        /\ DOMAIN c.peers = {Cidrs[file[x].key] : x \in entries}
        /\ \A x \in entries : c.peers[Cidrs[file[x].key]] = Len(Items(file[x].val))

\* What loadConfig makes of a file.
Loaded ==
    [me |-> TRUE, vip |-> vip,
     peers |-> [v \in DOMAIN byVip |-> Len(peers[byVip[v]].dsts)],
     user |-> IF options["user"] = Default THEN NoUser ELSE options["user"][1]]

BootInit == Init /\ ConfigInit

\* loadConfig comes before everything else.
BootNext ==
    \/ ConfigNext /\ UNCHANGED vars
    \/ load \in {"done", "raised"} /\ Says(cfg) /\ Next /\ UNCHANGED configVars

BootSpec == BootInit /\ [][BootNext]_<<vars, configVars>>

-----------------------------------------------------------------------------
(* Properties.                                                             *)

\* loadConfig makes of a file what it says.  And Startup takes a configuration by
\* what it says (ConfigOk): the steps of loadConfig accept a file exactly when it
\* says one that is ok (config.cpp:113-163).
LoadAgrees ==
    /\ AcceptedAsWritten
    /\ load \in {"done", "raised"} =>
         \A c \in Configs : Says(c) =>
             IF load = "done" THEN ConfigOk(c) /\ Loaded = c ELSE ~ConfigOk(c)

\* A thread runs only on a device that is set up (ServesConfigured), once its file is
\* taken, with a socket and a queue for each endpoint that the file gives the node's own
\* entry, and not as root when the file names a user, whatever other instances do
\* (main.cpp:72-147).
ServesAsWritten ==
    /\ ServesConfigured
    /\ \A p \in Procs : threads[p] > 0 =>
         /\ load = "done"
         /\ socks[p] = Len(peers[self].dsts) /\ queues[p] = Len(peers[self].dsts)
         /\ options["user"] # Default => cred[p] = User

=============================================================================
