------------------------------- MODULE FakeMac -------------------------------
(***************************************************************************)
(* Which MAC addresses a faked answer carries: from the options --mac and  *)
(* --llmac (src/src/arguments.c) and the words of the ipfile over the      *)
(* start of the daemon (main) to BlackList_getMac, Util_setRandomMac and   *)
(* Worker_fillPacket.                                                      *)
(*                                                                         *)
(* The names LOCAL, RANDOM and SAME are kept as types until the interface  *)
(* is known.  The answer is put together by two processes: the main one    *)
(* chooses the faked MAC, the worker the one of the link level header,     *)
(* maybe later.                                                            *)
(***************************************************************************)
EXTENDS Integers, Sequences, FiniteSets

CONSTANTS
  MacTexts,     \* the texts that ether_aton_r takes for a MAC
  OtherTexts,   \* texts that it refuses
  IfaceMac,     \* the MAC of the interface
  CommandLines, \* sequences of options, [name, text]
  RandCount,    \* BLACKLIST_RAND_COUNT: 32
  Period,       \* BLACKLIST_RAND_PERIOD: 30000
  Octets,       \* values of an octet: 256
  RandMax,      \* of rand()
  MaxTime       \* bound of the clock

Zero == <<"00:00:00:00:00:00">>    \* a global variable before it is set
Garbage == <<"uninitialized">>     \* options is on the stack of main()

Standard == [w \in {"802.1d", "802.3x"} |->
               IF w = "802.1d" THEN <<"01:80:C2:00:00:00">> ELSE <<"01:80:C2:00:00:01">>]
Words == {"LOCAL", "RANDOM", "SAME"} \cup DOMAIN Standard \cup MacTexts \cup OtherTexts

RandomMac(o) == <<"de:ad:be:ef:00", o>>
RandomMacs == {RandomMac(o) : o \in 0 .. Octets - 1}
Fixed == {Zero, Garbage, IfaceMac} \cup {Standard[w] : w \in DOMAIN Standard}
         \cup {<<w>> : w \in MacTexts}

ASSUME FakeMacAssumption ==
  /\ RandCount \in 1 .. Octets - 1 /\ Octets \in Nat /\ Period \in Nat \ {0}
  /\ RandMax \in Nat /\ RandMax + 1 >= RandCount /\ MaxTime \in Nat
  /\ (MacTexts \cup OtherTexts) \cap
       ({"LOCAL", "RANDOM", "SAME", "none"} \cup DOMAIN Standard) = {}
  /\ MacTexts \cap OtherTexts = {}
  /\ CommandLines \subseteq Seq([name : {"mac", "llmac", "other"}, text : Words])

VARIABLES
  argv,    \* the options
  optind,  \* how many of them have been read
  mac,     \* options->mac ...
  llmac,   \* ... and options->llmac: [type, addr]
  local,   \* local_mac_address
  pc,      \* where main() is; aborted: in an assertion, of the worker too
  worker,  \* worker->llmac, in the other process
  entry,   \* the list entry of the address in question: [status, mac, word]
  job,     \* the job in the pipe (one at a time): a set of [type, mac, word]
  reply,   \* the answer just sent, as a set
  now,     \* time(0)
  last     \* when a random MAC was taken, per last octet; -1: not in this Period

vars == <<argv, optind, mac, llmac, local, pc, worker, entry, job, reply, now, last>>

-----------------------------------------------------------------------------
(* The address a text stands for; none if it is refused. *)
xether_aton_r(w) ==
  IF w = "LOCAL" THEN {local}
  ELSE IF w \in DOMAIN Standard THEN {Standard[w]}
  ELSE {<<m>> : m \in {w} \cap MacTexts}

(* A plausible mistake: LOCAL is looked up at once. *)
FaultParseMac(w, m, allow_same) ==
  IF w = "RANDOM" \/ (allow_same /\ w = "SAME") THEN {[m EXCEPT !.type = w]}
  ELSE {[type |-> "FIXED", addr |-> a] : a \in xether_aton_r(w)}

(* The address of a MAC that is not fixed keeps its value. *)
Arguments_parseMac(w, m, allow_same) ==
  IF w \in {"RANDOM", "LOCAL"} \/ (allow_same /\ w = "SAME")
  THEN {[m EXCEPT !.type = w]}
  ELSE {[type |-> "FIXED", addr |-> a] : a \in xether_aton_r(w)}

NoEntry == [status |-> "NONE", mac |-> Zero, word |-> "none"]

Init ==
  /\ argv \in CommandLines /\ optind = 0
  /\ mac = [type |-> "FIXED", addr |-> Standard["802.3x"]]
  /\ llmac = [type |-> "LOCAL", addr |-> Garbage]
  /\ local = Zero /\ worker = llmac
  /\ pc = "options"
  /\ entry = NoEntry /\ job = {} /\ reply = {}
  /\ now = 0 /\ last = [o \in 0 .. Octets - 1 |-> -1]

Running == <<worker, entry, job, reply, now, last>>

Option == argv[optind + 1]

MacOption ==
  /\ pc = "options" /\ optind < Len(argv)
  /\ \/ /\ Option.name = "mac" /\ UNCHANGED llmac
        /\ mac' \in Arguments_parseMac(Option.text, mac, FALSE)
     \/ /\ Option.name = "llmac" /\ UNCHANGED mac
        /\ llmac' \in Arguments_parseMac(Option.text, llmac, TRUE)
  /\ optind' = optind + 1
  /\ UNCHANGED <<argv, local, pc, Running>>

(* --help, --version, an unknown option or a text that is no MAC. *)
OptionExits ==
  /\ pc = "options" /\ optind < Len(argv)
  /\ \/ Option.name = "other"
     \/ Option.name = "mac" /\ Arguments_parseMac(Option.text, mac, FALSE) = {}
     \/ Option.name = "llmac" /\ Arguments_parseMac(Option.text, llmac, TRUE) = {}
  /\ pc' = "exit"
  /\ UNCHANGED <<argv, optind, mac, llmac, local, Running>>

(* What is left has to be exactly one interface. *)
OptionsEnd ==
  /\ pc = "options" /\ optind = Len(argv)
  /\ pc' \in {"iface", "exit"}
  /\ UNCHANGED <<argv, optind, mac, llmac, local, Running>>

(* generateSocket calls initIfaceInformation, which may exit. *)
initIfaceInformation ==
  /\ pc = "iface"
  /\ \/ pc' = "fixup" /\ local' = IfaceMac
     \/ pc' = "exit" /\ UNCHANGED local
  /\ UNCHANGED <<argv, optind, mac, llmac, Running>>

fixupMac(m) ==
  IF m.type = "LOCAL"
  THEN [type |-> "FIXED", addr |-> CHOOSE a \in xether_aton_r("LOCAL") : TRUE]
  ELSE m

(* A plausible mistake: the MAC of the link level is forgotten. *)
FaultFixupOptions ==
  /\ pc = "fixup" /\ pc' = "worker"
  /\ mac' = fixupMac(mac)
  /\ UNCHANGED <<argv, optind, llmac, local, Running>>

Arguments_fixupOptions ==
  /\ pc = "fixup" /\ pc' = "worker"
  /\ mac' = fixupMac(mac) /\ llmac' = fixupMac(llmac)
  /\ UNCHANGED <<argv, optind, local, Running>>

Options == <<argv, optind, mac, llmac, local>>

Worker_init ==
  /\ pc = "worker" /\ pc' = "run"
  /\ worker' = llmac
  /\ UNCHANGED <<Options, entry, job, reply, now, last>>

-----------------------------------------------------------------------------
(* BlackList_setDefaultMac, and parseLine with a word for the MAC.  An      *)
(* invalid one leaves no entry.                                             *)
EntryFor(w) ==
  IF w = "none"
  THEN [status |-> IF mac.type = "RANDOM" THEN "RAND" ELSE "SET",
        mac |-> IF mac.type = "FIXED" THEN mac.addr ELSE Garbage, word |-> w]
  ELSE IF w = "RANDOM" THEN [status |-> "RAND", mac |-> Garbage, word |-> w]
  ELSE IF xether_aton_r(w) = {} THEN NoEntry
  ELSE [status |-> "SET", mac |-> CHOOSE a \in xether_aton_r(w) : TRUE, word |-> w]

(* The ipfile is read (again); w is the word behind the address, if any.    *)
(* setDefaultMac has an assertion about the type of --mac.                  *)
Unresolved(w) == w = "none" /\ mac.type \notin {"RANDOM", "FIXED"}

ReadLine(w) ==
  /\ pc = "run"
  /\ pc' = IF Unresolved(w) THEN "aborted" ELSE pc
  /\ entry' = IF Unresolved(w) THEN entry ELSE EntryFor(w)
  /\ reply' = {}
  /\ UNCHANGED <<Options, worker, job, now, last>>

(* Plausible mistakes: the number is not reduced to the window, and the sum *)
(* is not reduced to an octet.                                              *)
FaultSpread(r) == (r + (now \div Period)) % Octets
FaultOctet(r) == (r % RandCount) + ((now \div Period) % Octets)

(* Util_setRandomMac when rand() returns r. *)
Octet(r) == ((r % RandCount) + (now \div Period)) % Octets

setRandomMac(o) == last' = [last EXCEPT ![o] = now]

(* A request about the address: BlackList_getMac, and the job is written. *)
Request(type) ==
  /\ pc = "run" /\ job = {}
  /\ \/ /\ entry.status = "SET" /\ UNCHANGED last
        /\ job' = {[type |-> type, mac |-> entry.mac, word |-> entry.word]}
     \/ /\ entry.status = "RAND"
        /\ \E r \in 0 .. RandMax :
             /\ setRandomMac(Octet(r))
             /\ job' = {[type |-> type, mac |-> RandomMac(Octet(r)), word |-> entry.word]}
  /\ reply' = {}
  /\ UNCHANGED <<Options, pc, worker, entry, now>>

(* The worker fills the packet: the link level MAC of a job about a request *)
(* from the intruder (SRC) is that of --llmac.                              *)
Answer(j, shost) == {[type |-> j.type, word |-> j.word, sha |-> j.mac, shost |-> shost]}

Worker_fillPacket(j) ==
  \/ /\ j.type = "SRC" /\ worker.type = "RANDOM"
     /\ \E r \in 0 .. RandMax :
          reply' = Answer(j, RandomMac(Octet(r))) /\ setRandomMac(Octet(r))
     /\ UNCHANGED pc
  \/ /\ j.type = "DST" \/ worker.type # "RANDOM"
     /\ reply' = Answer(j, IF j.type = "SRC" /\ worker.type = "FIXED"
                          THEN worker.addr ELSE j.mac)
     /\ pc' = IF j.type = "SRC" /\ worker.type = "LOCAL" THEN "aborted" ELSE pc
     /\ UNCHANGED last

WorkerStep ==
  /\ pc = "run"
  /\ \E j \in job : Worker_fillPacket(j)
  /\ job' = {}
  /\ UNCHANGED <<Options, worker, entry, now>>

Tick ==
  /\ pc = "run" /\ now < MaxTime
  /\ now' = now + 1
  /\ last' = [o \in DOMAIN last |-> IF last[o] > now' - Period THEN last[o] ELSE -1]
  /\ reply' = {}
  /\ UNCHANGED <<Options, pc, worker, entry, job>>

Next ==
  \/ MacOption \/ OptionExits \/ OptionsEnd
  \/ initIfaceInformation \/ Arguments_fixupOptions \/ Worker_init
  \/ \E w \in Words \cup {"none"} : ReadLine(w)
  \/ \E type \in {"DST", "SRC"} : Request(type)
  \/ WorkerStep \/ Tick

Spec == Init /\ [][Next]_vars

-----------------------------------------------------------------------------
(* The shape of the state; there is at most one job at a time. *)
TaggedMac == [type : {"RANDOM", "FIXED", "LOCAL", "SAME"}, addr : Fixed]
Entry == [status : {"NONE", "SET", "RAND"}, mac : Fixed, word : Words \cup {"none"}]
Job == [type : {"DST", "SRC"}, mac : Fixed \cup RandomMacs, word : Words \cup {"none"}]

OptionsOK ==
  /\ argv \in CommandLines /\ optind \in 0 .. Len(argv) /\ local \in Fixed
  /\ mac \in TaggedMac /\ mac.type # "SAME" /\ llmac \in TaggedMac
  /\ pc \in {"options", "iface", "fixup", "worker", "run", "exit", "aborted"}

RunningOK ==
  /\ worker \in TaggedMac /\ entry \in Entry
  /\ job \subseteq Job /\ \A i, j \in job : i = j
  /\ now \in 0 .. MaxTime /\ last \in [0 .. Octets - 1 -> -1 .. MaxTime]

TypeOK == OptionsOK /\ RunningOK

(* The assertions of setDefaultMac and fillPacket about the types of MACs   *)
(* are never reached, whatever the options and their order.                 *)
AssertsHold == pc # "aborted"

(* What a word means, SAME apart. *)
Meaning(w) ==
  IF w = "RANDOM" THEN RandomMacs
  ELSE IF w = "LOCAL" THEN {IfaceMac}
  ELSE IF w \in DOMAIN Standard THEN {Standard[w]} ELSE {<<w>>}

(* The last option of a name decides, or else its default does. *)
Latest(S) == CHOOSE i \in S : \A k \in S : k <= i

Told(name, default) ==
  LET given == {i \in DOMAIN argv : argv[i].name = name}
  IN  IF given = {} THEN default
      ELSE argv[Latest(given)].text

(* What stands for a MAC that the ipfile leaves out: --mac, or its default. *)
(* The usage text and the code have 802.3x for that, the manual page and    *)
(* the README a random one; either will do here.                            *)
Default ==
  Meaning(Told("mac", "802.3x"))
  \cup (IF \E i \in DOMAIN argv : argv[i].name = "mac" THEN {} ELSE Meaning("RANDOM"))

(* An answer carries the MACs that the administrator has asked for: in the  *)
(* ARP part that of the ipfile, or else of --mac; in the link level header  *)
(* the same one, or for requests of the intruder the one of --llmac.  No    *)
(* address leaves the host that was never set.                              *)
MacsAsTold ==
  \A a \in reply :
    LET ll == Told("llmac", "LOCAL")
    IN  /\ a.sha \in (IF a.word = "none" THEN Default ELSE Meaning(a.word))
        /\ IF a.type = "DST" \/ ll = "SAME" THEN a.shost = a.sha
           ELSE a.shost \in Meaning(ll)

(* parameters.h, "only a limited amount of random MACs will be used at a    *)
(* certain time": in any Period seconds one more than the window has, since *)
(* one turn of the window may fall into them.                               *)
FewRandomMacs ==
  Cardinality({o \in DOMAIN last : last[o] >= 0}) <= RandCount + 1

(* parameters.h: after BLACKLIST_RAND_PERIOD "a new random MAC will be      *)
(* added to this window and an old one be removed", and not before; this    *)
(* goes on at the end of the octet's range.                                 *)
Window == {Octet(r) : r \in 0 .. RandMax}
WindowSlides ==
  [][LET turn == IF now' \div Period = now \div Period THEN 0 ELSE 1
     IN  /\ Cardinality(Window' \ Window) = turn
         /\ Cardinality(Window \ Window') = turn]_now
=============================================================================
