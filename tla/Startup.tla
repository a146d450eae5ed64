------------------------------- MODULE Startup -------------------------------
(***************************************************************************)
(* main.cpp: how an instance of gofra comes up, step by step, until its    *)
(* threads run.  Several instances with one configuration file may be      *)
(* started on the same host (a restart, a start by mistake); they share    *)
(* the TUN device, which the kernel keeps while one of its queues is open. *)
(* Every system call may fail, and an instance may die at any moment.      *)
(***************************************************************************)
EXTENDS Integers, FiniteSets

CONSTANTS
    Procs,      \* the instances
    Configs     \* configuration files: [me, vip, peers, user]

NoUser == ""

\* A file has an [me] section or not, a vip (0: none), the [peers] section as
\* the number of destinations of each vip, and the user to become: a name the
\* host knows, one it does not, or NoUser.
ASSUME ConfigsAssumption ==
    \A c \in Configs :
        /\ c = [me |-> c.me, vip |-> c.vip, peers |-> c.peers, user |-> c.user]
        /\ c.me \in BOOLEAN /\ c.vip \in Nat /\ c.user \in {NoUser, "known", "unknown"}
        /\ DOMAIN c.peers \subseteq Nat /\ c.peers \in [DOMAIN c.peers -> Nat]

VARIABLES
    cfg,        \* the configuration file
    pc,         \* the next step of an instance
    socks,      \* UDP sockets it has open
    queues,     \* TUN queues it has open
    cred,       \* its supplementary groups, gid and uid
    threads,    \* threads it has started
    dev         \* what is set on the TUN device: [mtu, addr, up]

vars == <<cfg, pc, socks, queues, cred, threads, dev>>

Root == [groups |-> "root", gid |-> "root", uid |-> "root"]
User == [groups |-> "none", gid |-> "user", uid |-> "user"]
NewDevice == [mtu |-> FALSE, addr |-> FALSE, up |-> FALSE]

Init ==
    /\ cfg \in Configs
    /\ pc = [p \in Procs |-> "off"]
    /\ socks = [p \in Procs |-> 0]
    /\ queues = [p \in Procs |-> 0]
    /\ cred = [p \in Procs |-> Root]
    /\ threads = [p \in Procs |-> 0]
    /\ dev = NewDevice

-----------------------------------------------------------------------------

\* PeerTable: there are peers, and each has a destination.
PeersOk(c) == DOMAIN c.peers # {} /\ \A v \in DOMAIN c.peers : c.peers[v] > 0

\* loadConfig accepts the file: it says who I am, and I am one of the peers.
ConfigOk(c) == c.me /\ c.vip # 0 /\ PeersOk(c) /\ c.vip \in DOMAIN c.peers

\* srcCount: one socket and one queue for each of my own destinations.
SrcCount == cfg.peers[cfg.vip]

\* Fault: the uid goes before the gid.
NextStepUidFirst(s) ==
    CASE s = "mtu" -> "addr" [] s = "addr" -> "up"
      [] s = "up" -> IF cfg.user = NoUser THEN "spawn" ELSE "groups"
      [] s = "groups" -> "uid" [] s = "uid" -> "gid" [] s = "gid" -> "spawn"

\* The order of the steps of configureTun and dropPrivs.
NextStep(s) ==
    CASE s = "mtu" -> "addr" [] s = "addr" -> "up"
      [] s = "up" -> IF cfg.user = NoUser THEN "spawn" ELSE "groups"
      [] s = "groups" -> "gid" [] s = "gid" -> "uid" [] s = "uid" -> "spawn"

\* An exception leaves run, or the process dies: all it has is closed, and the
\* device goes with its last queue.
Gone(p) ==
    /\ pc' = [pc EXCEPT ![p] = "off"]
    /\ socks' = [socks EXCEPT ![p] = 0]
    /\ queues' = [queues EXCEPT ![p] = 0]
    /\ cred' = [cred EXCEPT ![p] = Root]
    /\ threads' = [threads EXCEPT ![p] = 0]
    /\ dev' = IF \A q \in Procs \ {p} : queues[q] = 0 THEN NewDevice ELSE dev
    /\ UNCHANGED cfg

\* A system call that only root may make.
AsRoot(p) == cred[p].uid = "root"

-----------------------------------------------------------------------------

\* The instance is started, by root.
Start(p) ==
    /\ pc[p] = "off"
    /\ pc' = [pc EXCEPT ![p] = "config"]
    /\ UNCHANGED <<cfg, socks, queues, cred, threads, dev>>

LoadConfig(p) ==
    /\ pc[p] = "config" /\ ConfigOk(cfg)
    /\ pc' = [pc EXCEPT ![p] = "sock"]
    /\ UNCHANGED <<cfg, socks, queues, cred, threads, dev>>

\* SO_REUSEADDR lets another instance bind the same address.
OpenUdpSocket(p) ==
    /\ pc[p] = "sock" /\ AsRoot(p)
    /\ socks' = [socks EXCEPT ![p] = @ + 1]
    /\ pc' = [pc EXCEPT ![p] = IF socks'[p] = SrcCount THEN "tun" ELSE "sock"]
    /\ UNCHANGED <<cfg, queues, cred, threads, dev>>

\* Fault: one queue fewer than sockets.
AllQueuesButOne(n) == n + 1 >= SrcCount

AllQueues(n) == n = SrcCount

\* IFF_MULTI_QUEUE: another instance's device gets one more queue.
OpenTun(p) ==
    /\ pc[p] = "tun" /\ AsRoot(p)
    /\ queues' = [queues EXCEPT ![p] = @ + 1]
    /\ pc' = [pc EXCEPT ![p] = IF AllQueues(queues'[p]) THEN "mtu" ELSE "tun"]
    /\ UNCHANGED <<cfg, socks, cred, threads, dev>>

SetMtu(p) ==
    /\ pc[p] = "mtu" /\ AsRoot(p)
    /\ dev' = [dev EXCEPT !.mtu = TRUE]
    /\ pc' = [pc EXCEPT ![p] = NextStep("mtu")]
    /\ UNCHANGED <<cfg, socks, queues, cred, threads>>

\* Fault: RTM_NEWADDR without NLM_F_EXCL.
AddrAnyway == TRUE

\* addAddr asks with NLM_F_EXCL: the kernel refuses an address the device has.
AddrNew == ~dev.addr

AddAddr(p) ==
    /\ pc[p] = "addr" /\ AsRoot(p) /\ AddrNew
    /\ dev' = [dev EXCEPT !.addr = TRUE]
    /\ pc' = [pc EXCEPT ![p] = NextStep("addr")]
    /\ UNCHANGED <<cfg, socks, queues, cred, threads>>

LinkUp(p) ==
    /\ pc[p] = "up" /\ AsRoot(p)
    /\ dev' = [dev EXCEPT !.up = TRUE]
    /\ pc' = [pc EXCEPT ![p] = NextStep("up")]
    /\ UNCHANGED <<cfg, socks, queues, cred, threads>>

\* getpwnam finds the user, then setgroups.
SetGroups(p) ==
    /\ pc[p] = "groups" /\ AsRoot(p) /\ cfg.user = "known"
    /\ cred' = [cred EXCEPT ![p].groups = "none"]
    /\ pc' = [pc EXCEPT ![p] = NextStep("groups")]
    /\ UNCHANGED <<cfg, socks, queues, threads, dev>>

SetGid(p) ==
    /\ pc[p] = "gid" /\ AsRoot(p)
    /\ cred' = [cred EXCEPT ![p].gid = "user"]
    /\ pc' = [pc EXCEPT ![p] = NextStep("gid")]
    /\ UNCHANGED <<cfg, socks, queues, threads, dev>>

\* Fault: the result of setresuid is not looked at.
UidDroppedOrNot(p) ==
    \E u \in {"root", "user"} : cred' = [cred EXCEPT ![p].uid = u]

UidDropped(p) == cred' = [cred EXCEPT ![p].uid = "user"]

SetUid(p) ==
    /\ pc[p] = "uid" /\ AsRoot(p)
    /\ UidDropped(p)
    /\ pc' = [pc EXCEPT ![p] = NextStep("uid")]
    /\ UNCHANGED <<cfg, socks, queues, threads, dev>>

\* A TUN and a UDP reader for each queue, then the prober and the statistics.
Spawn(p) ==
    /\ pc[p] = "spawn"
    /\ threads' = [threads EXCEPT ![p] = @ + 1]
    /\ pc' = [pc EXCEPT ![p] = IF threads'[p] = 2 * SrcCount + 2 THEN "join" ELSE "spawn"]
    /\ UNCHANGED <<cfg, socks, queues, cred, dev>>

\* A step raises, or the instance is killed.
Die(p) == pc[p] # "off" /\ Gone(p)

Step(p) ==
    \/ Start(p) \/ LoadConfig(p) \/ OpenUdpSocket(p) \/ OpenTun(p)
    \/ SetMtu(p) \/ AddAddr(p) \/ LinkUp(p)
    \/ SetGroups(p) \/ SetGid(p) \/ SetUid(p) \/ Spawn(p) \/ Die(p)

Next == \E p \in Procs : Step(p)

Spec == Init /\ [][Next]_vars

-----------------------------------------------------------------------------
(* Properties.                                                             *)

RootSteps == {"sock", "tun", "mtu", "addr", "up", "groups", "gid", "uid"}

\* At most one instance serves the overlay of a host: NLM_F_EXCL of addAddr
\* (tun.cpp:158) stops every other one that has joined the device and bound the
\* same UDP addresses, in whatever order their steps and deaths interleave.
OneInstance ==
    \A p, q \in Procs : threads[p] > 0 /\ threads[q] > 0 => p = q

\* A thread runs only on a device that is configured and up, with a queue and a
\* socket for each of the node's own addresses (main.cpp:108-126), whatever other
\* instances have done to the device since.
ServesConfigured ==
    \A p \in Procs : threads[p] > 0 =>
        /\ ConfigOk(cfg)
        /\ queues[p] = SrcCount /\ socks[p] = SrcCount
        /\ dev = [mtu |-> TRUE, addr |-> TRUE, up |-> TRUE]

\* No thread runs with what is left of root's credentials when the
\* configuration names a user (dropPrivs, main.cpp:32).
PrivsDropped ==
    \A p \in Procs : threads[p] > 0 /\ cfg.user # NoUser => cred[p] = User

\* No step that takes root comes after the uid is given up, so a start does not
\* fail by its own order of steps (main.cpp:83-90).
RootWhileNeeded == \A p \in Procs : pc[p] \in RootSteps => AsRoot(p)

=============================================================================
