------------------------------- MODULE Config -------------------------------
(***************************************************************************)
(* ini.cpp, addr.cpp, config.cpp and the constructor of PeerTableImpl: how *)
(* a configuration file becomes the options and the table of peers that a  *)
(* node runs with.  A step takes a line of the file, an entry of [peers],  *)
(* or one of the other sections.                                           *)
(*                                                                         *)
(* A line is what parseConfig tells apart, with spaces stripped:           *)
(* [is |-> "skip"] for an empty line or a comment, [is |-> "section",      *)
(* name], [is |-> "badsection"], [is |-> "entry", key, val], or            *)
(* [is |-> "noeq"].  A val is the sequence of its items, what stands       *)
(* between its commas.                                                     *)
(***************************************************************************)
EXTENDS PeerSection, FiniteSets

CONSTANTS
    Files,      \* the files to consider, sequences of lines
    Cidrs,      \* texts that parseCIDR takes -> the address
    Endpoints   \* texts that parseSockAddr takes

\* The empty text: an item with nothing in it, and the name of the section before
\* the first header.
Empty == ""

Lines ==
    [is : {"skip", "badsection", "noeq"}] \cup [is : {"section"}, name : STRING]
    \cup [is : {"entry"}, key : STRING, val : Seq(STRING)]

ASSUME ConfigAssumption == Cidrs \in [DOMAIN Cidrs -> Nat] /\ Files \subseteq Seq(Lines)

VARIABLES
    file,       \* the file
    line,       \* the next line of it
    section,    \* sec: the section that lines go to
    keys,       \* Section::keys of every section
    map,        \* Section::map of every section
    load,       \* the next step of loadConfig, or "done" or "raised"
    options,    \* the options of Config
    vip,        \* Config::tunVip
    peers,      \* PeerTableImpl::peers_, [vip, dsts]
    byVip,      \* PeerTableImpl::byVip_: vip -> position in peers
    self        \* Config::self, a position in peers

iniVars == <<line, section, keys, map>>
tableVars == <<peers, byVip>>
configVars == <<file, iniVars, load, options, vip, tableVars, self>>

MeOptions == {"tun_dev", "tun_mtu", "user"}
UdpOptions == {"recv_buf", "send_buf"}
ProbeOptions == {"interval_ms", "timeout_ms", "stats_interval_s"}
Options == MeOptions \cup UdpOptions \cup ProbeOptions
Default == <<"default">>

ConfigInit ==
    /\ file \in Files
    /\ line = 1
    /\ section = Empty
    /\ keys = [s \in {Empty} |-> <<>>]
    /\ map = [s \in {Empty} |-> <<>>]
    /\ load = "parse"
    /\ options = [o \in Options |-> Default]
    /\ vip = 0
    /\ peers = <<>> /\ byVip = <<>> /\ self = 0

\* IntMap::insert and SymbolMap::insert.  Whether a key that is there keeps its
\* value or takes the new one is the library's business: both.
Inserts(f, key, v) ==
    LET added == [x \in DOMAIN f \cup {key} |-> IF x = key THEN v ELSE f[x]]
    IN  IF key \in DOMAIN f THEN {f, added} ELSE {added}

Raise == load' = "raised" /\ UNCHANGED <<file, iniVars, options, vip, tableVars, self>>

-----------------------------------------------------------------------------
(* parseConfig.                                                            *)

Reading(is) == load = "parse" /\ line <= Len(file) /\ file[line].is = is
L == file[line]

SkipLine ==
    /\ Reading("skip")
    /\ line' = line + 1
    /\ UNCHANGED <<file, section, keys, map, load, options, vip, tableVars, self>>

\* Fault: a section that comes again starts anew.
KeptSectionsNone == {}

\* A section that comes again is the one there is.
KeptSections == DOMAIN keys

OpenSection ==
    /\ Reading("section")
    /\ line' = line + 1
    /\ section' = L.name
    /\ keys' = [s \in DOMAIN keys \cup {L.name} |->
                  IF s = L.name /\ s \notin KeptSections THEN <<>> ELSE keys[s]]
    /\ map' = [s \in DOMAIN map \cup {L.name} |->
                 IF s = L.name /\ s \notin KeptSections THEN <<>> ELSE map[s]]
    /\ UNCHANGED <<file, load, options, vip, tableVars, self>>

SetKey ==
    /\ Reading("entry")
    /\ line' = line + 1
    /\ keys' = [keys EXCEPT ![section] =
                  IF L.key \in DOMAIN map[section] THEN @ ELSE Append(@, L.key)]
    /\ \E m \in Inserts(map[section], L.key, L.val) : map' = [map EXCEPT ![section] = m]
    /\ UNCHANGED <<file, section, load, options, vip, tableVars, self>>

BadLine == (Reading("badsection") \/ Reading("noeq")) /\ Raise

EndOfFile ==
    /\ load = "parse" /\ line > Len(file)
    /\ load' = "me"
    /\ UNCHANGED <<file, iniVars, options, vip, tableVars, self>>

-----------------------------------------------------------------------------
(* loadConfig.                                                             *)

\* Fault: an option the section does not have is cleared.
WithSectionCleared(s, opts) ==
    [o \in Options |-> IF s \in DOMAIN map /\ o \in opts
                       THEN IF o \in DOMAIN map[s] THEN map[s][o] ELSE <<>>
                       ELSE options[o]]

\* The options of a section, where it has them.
WithSection(s, opts) ==
    [o \in Options |-> IF s \in DOMAIN map /\ o \in opts /\ o \in DOMAIN map[s]
                       THEN map[s][o] ELSE options[o]]

IsCidr(val) == Len(val) = 1 /\ val[1] \in DOMAIN Cidrs

MeOk ==
    /\ "me" \in DOMAIN map /\ "vip" \in DOMAIN map["me"] /\ IsCidr(map["me"]["vip"])
    /\ Cidrs[map["me"]["vip"][1]] # 0

\* loadMe.
LoadMe ==
    /\ load = "me" /\ MeOk
    /\ vip' = Cidrs[map["me"]["vip"][1]]
    /\ options' = WithSection("me", MeOptions)
    /\ load' = "peers"
    /\ UNCHANGED <<file, iniVars, tableVars, self>>

\* No [me], no vip in it, one that parseCIDR refuses, or 0.
LoadMeRaises == load = "me" /\ ~MeOk /\ Raise

PeerKeys == IF "peers" \in DOMAIN keys THEN keys["peers"] ELSE <<>>
NextKey == PeerKeys[Len(peers) + 1]

\* Fault: an empty item is an item.
ItemsWithEmpty(val) == val

\* forEachItem skips what is empty between commas.
Items(val) ==
    LET taken[n \in 0 .. Len(val)] ==
          IF n = 0 THEN <<>>
          ELSE IF val[n] = Empty THEN taken[n - 1] ELSE Append(taken[n - 1], val[n])
    IN  taken[Len(val)]

\* Fault: an entry without an endpoint is taken.
HasDstsAlways(dsts) == TRUE

HasDsts(dsts) == dsts # <<>>

DstsOk(dsts) == (\A x \in DOMAIN dsts : dsts[x] \in Endpoints) /\ HasDsts(dsts)

\* An entry of [peers], in the order of its keys.
LoadPeer ==
    /\ load = "peers" /\ Len(peers) < Len(PeerKeys)
    /\ NextKey \in DOMAIN Cidrs
    /\ LET dsts == Items(map["peers"][NextKey])
       IN  /\ DstsOk(dsts)
           /\ peers' = Append(peers, [vip |-> Cidrs[NextKey], dsts |-> dsts])
    /\ byVip' \in Inserts(byVip, Cidrs[NextKey], Len(peers'))
    /\ UNCHANGED <<file, iniVars, load, options, vip, self>>

\* A VIP or an endpoint that cannot be parsed, or an entry without endpoints.
LoadPeerRaises ==
    /\ load = "peers" /\ Len(peers) < Len(PeerKeys)
    /\ NextKey \in DOMAIN Cidrs => ~DstsOk(Items(map["peers"][NextKey]))
    /\ Raise

NoPeersRaises == load = "peers" /\ PeerKeys = <<>> /\ Raise

\* PeerTable::lookup of the node's own VIP.
FindSelf ==
    /\ load = "peers" /\ PeerKeys # <<>> /\ Len(peers) = Len(PeerKeys)
    /\ vip \in DOMAIN byVip
    /\ self' = byVip[vip]
    /\ load' = "rest"
    /\ UNCHANGED <<file, iniVars, options, vip, tableVars>>

NoSelfRaises ==
    /\ load = "peers" /\ PeerKeys # <<>> /\ Len(peers) = Len(PeerKeys)
    /\ vip \notin DOMAIN byVip
    /\ Raise

\* loadUdp.
LoadUdp ==
    /\ load = "rest"
    /\ options' = WithSection("udp", UdpOptions)
    /\ load' = "probe"
    /\ UNCHANGED <<file, iniVars, vip, tableVars, self>>

\* loadProbe.
LoadProbe ==
    /\ load = "probe"
    /\ options' = WithSection("probe", ProbeOptions)
    /\ load' = "done"
    /\ UNCHANGED <<file, iniVars, vip, tableVars, self>>

ConfigNext ==
    \/ SkipLine \/ OpenSection \/ SetKey \/ BadLine \/ EndOfFile
    \/ LoadMe \/ LoadMeRaises
    \/ LoadPeer \/ LoadPeerRaises \/ NoPeersRaises \/ FindSelf \/ NoSelfRaises
    \/ LoadUdp \/ LoadProbe

ConfigSpec == ConfigInit /\ [][ConfigNext]_configVars

-----------------------------------------------------------------------------
(* What a file says, read as a whole.                                      *)

\* The last of a set of lines, and the p-th.
Last(S) == CHOOSE y \in S : \A z \in S : z <= y
Nth(S, p) == CHOOSE x \in S : Cardinality({y \in S : y <= x}) = p

\* The section that line x belongs to: the last one opened before it.
SectionAt(x) ==
    LET opened == {y \in 1 .. x - 1 : file[y].is = "section"}
    IN  IF opened = {} THEN Empty ELSE file[Last(opened)].name

Entries(n, s) == {x \in 1 .. n : file[x].is = "entry" /\ SectionAt(x) = s}
Given(n, s, key) == {file[x].val : x \in {y \in Entries(n, s) : file[y].key = key}}

\* The lines that name a key of s first, and these keys in their order.
FirstLines(n, s) ==
    {x \in Entries(n, s) : \A y \in Entries(x - 1, s) : file[y].key # file[x].key}
KeysGiven(n, s) ==
    LET first == FirstLines(n, s)
    IN  [p \in 1 .. Cardinality(first) |-> file[Nth(first, p)].key]

Written(s, key) == Given(Len(file), s, key)

-----------------------------------------------------------------------------
(* Properties.                                                             *)

\* At every line, the sections hold what the lines so far say, however often a
\* section is opened or a key is repeated: each key once, in the order of first
\* mention, with a value that a line gives it in that section (ini.cpp:53-102).
Merged ==
    /\ DOMAIN keys = {Empty} \cup {file[x].name : x \in {y \in 1 .. line - 1 : file[y].is = "section"}}
    /\ \A s \in DOMAIN keys :
         /\ keys[s] = KeysGiven(line - 1, s)
         /\ DOMAIN map[s] = {keys[s][x] : x \in DOMAIN keys[s]}
         /\ \A key \in DOMAIN map[s] : map[s][key] \in Given(line - 1, s, key)

\* Every VIP has one spelling in [peers].
OneSpelling ==
    \A x, y \in DOMAIN PeerKeys :
        PeerKeys[x] \in DOMAIN Cidrs /\ PeerKeys[y] \in DOMAIN Cidrs
          /\ Cidrs[PeerKeys[x]] = Cidrs[PeerKeys[y]] => x = y

\* What the ConnTable is built from is there: an entry of our own with our VIP and
\* an endpoint to bind, a peer for each key of [peers], in that order and with
\* endpoints, and one peer for a VIP when each VIP has one spelling
\* (config.cpp:141-152, peer.cpp:92-126).
TableReady ==
    /\ vip # 0 /\ self \in DOMAIN peers /\ peers[self].vip = vip
    /\ Len(peers) = Len(PeerKeys)
    /\ \A x \in DOMAIN peers :
         /\ peers[x].vip = Cidrs[PeerKeys[x]]
         /\ \E val \in Written("peers", PeerKeys[x]) : peers[x].dsts = Items(val)
    /\ AllHaveDsts(peers)
    /\ OneSpelling => SectionOk(peers, vip) /\ \A x \in DOMAIN peers : byVip[peers[x].vip] = x

Bad(x) == file[x].is \in {"badsection", "noeq"}
BadVip(val) == ~IsCidr(val) \/ Cidrs[val[1]] = 0
BadDsts(val) == \E x \in DOMAIN val : val[x] # Empty /\ val[x] \notin Endpoints
BadPeer(key) ==
    \/ key \notin DOMAIN Cidrs
    \/ \E val \in Written("peers", key) : BadDsts(val) \/ \A x \in DOMAIN val : val[x] = Empty

\* A file is refused only for a fault it has: empty items, repeated keys,
\* reopened sections and unknown ones are none (config.cpp:113-163).
RaisedForCause ==
    load = "raised" =>
        \/ \E x \in DOMAIN file : Bad(x)
        \/ Written("me", "vip") = {} \/ \E val \in Written("me", "vip") : BadVip(val)
        \/ KeysGiven(Len(file), "peers") = <<>>
        \/ \E x \in Entries(Len(file), "peers") : BadPeer(file[x].key)
        \/ \E val \in Written("me", "vip") : \A x \in Entries(Len(file), "peers") :
             Cidrs[file[x].key] # Cidrs[val[1]]

SectionOf(o) ==
    CASE o \in MeOptions -> "me" [] o \in UdpOptions -> "udp" [] OTHER -> "probe"

\* An option is one that the file gives in its section, or the default when the
\* file does not give it there, whatever other sections say (config.cpp:58-99).
OptionsAsWritten ==
    \A o \in Options :
        LET given == Written(SectionOf(o), o)
        IN  options[o] \in IF given = {} THEN {Default} ELSE given

\* A file that is accepted gives a table and options that say what it says.
AcceptedAsWritten == load = "done" => TableReady /\ OptionsAsWritten

=============================================================================
