---------------------------- MODULE FakeMacProofs ----------------------------
(***************************************************************************)
(* Every answer carries the MACs the administrator has asked for, and the  *)
(* assertions about their types hold: for all command lines, all words of  *)
(* the ipfile, all sizes and periods of the window of random MACs.         *)
(***************************************************************************)
EXTENDS FakeMac, TLAPS, FiniteSetTheorems, FunctionTheorems

(* The word that the first n options, or else the default, give for a name. *)
Given(name, n) == {i \in 1 .. n : argv[i].name = name}

ToldBy(name, n, default) ==
  IF Given(name, n) = {} THEN default
  ELSE argv[Latest(Given(name, n))].text

MacWord == ToldBy("mac", optind, "802.3x")
LLWord == ToldBy("llmac", optind, "LOCAL")

MacTypes == {"RANDOM", "LOCAL", "SAME"}

(* What parsing has made of a word ... *)
Parsed(m, w) ==
  /\ w \in MacTypes => m.type = w
  /\ w \in DOMAIN Standard => m.type = "FIXED" /\ m.addr = Standard[w]
  /\ w \in MacTexts => m.type = "FIXED" /\ m.addr = <<w>>
  /\ w \in MacTypes \cup DOMAIN Standard \cup MacTexts

(* ... and what is left of LOCAL when the interface is known. *)
Resolved(m, w) ==
  IF w = "LOCAL" THEN m.type = "FIXED" /\ m.addr = IfaceMac ELSE Parsed(m, w)

Early == {"options", "iface", "fixup"}
Late == {"worker", "run", "aborted"}

(* The options are what has been told so far; later, all of it. *)
ParsedInv ==
  pc \in Early => Parsed(mac, MacWord) /\ Parsed(llmac, LLWord) /\ MacWord # "SAME"

ResolvedInv ==
  /\ pc \in Late =>
       Resolved(mac, MacWord) /\ Resolved(llmac, LLWord) /\ MacWord # "SAME"
  /\ pc \notin {"options", "exit"} => optind = Len(argv)
  /\ pc \in Late \cup {"fixup"} => local = IfaceMac
  /\ pc \in {"run", "aborted"} => worker = llmac

(* What is in the list, in the pipe and on the wire means what was told. *)
Asked(w) == Meaning(IF w = "none" THEN MacWord ELSE w)

AskedInv ==
  /\ pc \notin {"run", "aborted"} => entry = NoEntry /\ job = {} /\ reply = {}
  /\ entry.status = "SET" => entry.mac \in Asked(entry.word)
  /\ entry.status = "RAND" => Asked(entry.word) = RandomMacs
  /\ \A j \in job : j.mac \in Asked(j.word)

ReplyInv ==
  \A a \in reply :
    /\ a.sha \in Asked(a.word)
    /\ IF a.type = "DST" \/ LLWord = "SAME" THEN a.shost = a.sha
       ELSE a.shost \in Meaning(LLWord)

IInv == OptionsOK /\ RunningOK /\ AssertsHold /\ ParsedInv /\ ResolvedInv
        /\ AskedInv /\ ReplyInv

-----------------------------------------------------------------------------
(* The last option of a name decides. *)
LEMMA ToldNext ==
  ASSUME NEW name, NEW default, NEW n \in Nat
  PROVE  ToldBy(name, n + 1, default) =
           IF argv[n + 1].name = name THEN argv[n + 1].text
           ELSE ToldBy(name, n, default)
<1>1. CASE argv[n + 1].name = name
  <2>1. n + 1 \in Given(name, n + 1) /\ \A k \in Given(name, n + 1) : k <= n + 1
    BY <1>1 DEF Given
  <2>2. \A i \in Given(name, n + 1) :
          (\A k \in Given(name, n + 1) : k <= i) => i = n + 1
    BY <2>1 DEF Given
  <2>3. Latest(Given(name, n + 1)) = n + 1
    BY <2>1, <2>2 DEF Latest
  <2> QED BY <1>1, <2>1, <2>3 DEF ToldBy
<1>2. CASE argv[n + 1].name # name
  <2>1. Given(name, n + 1) = Given(name, n)
    BY <1>2 DEF Given
  <2> QED BY <1>2, <2>1 DEF ToldBy
<1> QED BY <1>1, <1>2

(* No option, no word. *)
LEMMA ToldFirst == ASSUME NEW name, NEW default PROVE ToldBy(name, 0, default) = default
<1>1. Given(name, 0) = {}
  BY DEF Given
<1> QED BY <1>1 DEF ToldBy

(* What is told in the end is what MacsAsTold speaks of. *)
LEMMA ToldAll ==
  ASSUME OptionsOK, NEW name, NEW default
  PROVE  Told(name, default) = ToldBy(name, Len(argv), default)
<1>1. DOMAIN argv = 1 .. Len(argv)
  BY FakeMacAssumption DEF OptionsOK
<1>2. {i \in DOMAIN argv : argv[i].name = name} = Given(name, Len(argv))
  BY <1>1 DEF Given
<1> QED BY <1>2 DEF Told, ToldBy

(* The names of standards are not texts of MACs, nor those of types. *)
LEMMA WordsApart ==
  /\ DOMAIN Standard = {"802.1d", "802.3x"}
  /\ \A w \in MacTexts : w \notin MacTypes \cup DOMAIN Standard \cup {"none"}
BY FakeMacAssumption DEF Standard, MacTypes

(* A random MAC is one of the 256, whatever rand() and the clock say. *)
LEMMA OctetInRange ==
  ASSUME RunningOK, NEW r \in 0 .. RandMax
  PROVE  Octet(r) \in 0 .. Octets - 1 /\ RandomMac(Octet(r)) \in RandomMacs
<1>1. Octets \in Nat \ {0} /\ Period \in Nat \ {0} /\ RandCount \in Nat \ {0} /\ now \in Nat
  BY FakeMacAssumption DEF RunningOK
<1>2. r % RandCount \in Nat
  BY <1>1
<1>3. now \div Period \in Nat
  BY <1>1
<1>4. (r % RandCount) + (now \div Period) \in Nat
  BY <1>2, <1>3
<1>5. Octet(r) \in 0 .. Octets - 1
  BY <1>1, <1>4 DEF Octet
<1> QED BY <1>5 DEF RandomMacs

(* Parsing a word yields a MAC that means it. *)
LEMMA ParseMeans ==
  ASSUME NEW w \in Words, NEW m \in TaggedMac, NEW s \in BOOLEAN,
         NEW p \in Arguments_parseMac(w, m, s)
  PROVE  /\ p \in TaggedMac
         /\ Parsed(p, w)
         /\ s \/ w # "SAME"
         /\ p.type = "SAME" => w = "SAME"
<1> USE WordsApart
<1>1. CASE w \in {"RANDOM", "LOCAL"} \/ (s /\ w = "SAME")
  <2>1. p = [m EXCEPT !.type = w]
    BY <1>1 DEF Arguments_parseMac
  <2>2. p = [type |-> w, addr |-> m.addr] /\ m.addr \in Fixed
    BY <2>1 DEF TaggedMac
  <2> QED BY <1>1, <2>2 DEF TaggedMac, Parsed, MacTypes
<1>2. CASE ~(w \in {"RANDOM", "LOCAL"} \/ (s /\ w = "SAME"))
  <2>1. PICK a \in xether_aton_r(w) : p = [type |-> "FIXED", addr |-> a]
    BY <1>2 DEF Arguments_parseMac
  <2>2. CASE w \in DOMAIN Standard
    <3>1. a = Standard[w] /\ a \in Fixed
      BY <1>2, <2>1, <2>2 DEF xether_aton_r, Fixed
    <3> QED BY <1>2, <2>1, <2>2, <3>1 DEF TaggedMac, Parsed, MacTypes
  <2>3. CASE w \notin DOMAIN Standard
    <3>1. w \in MacTexts /\ a = <<w>>
      BY <1>2, <2>1, <2>3 DEF xether_aton_r
    <3>2. a \in Fixed
      BY <3>1 DEF Fixed
    <3> QED BY <1>2, <2>1, <2>3, <3>1, <3>2 DEF TaggedMac, Parsed, MacTypes
  <2> QED BY <2>2, <2>3
<1> QED BY <1>1, <1>2

(* While the options stay, so does what they say. *)
LEMMA WordsStay ==
  ASSUME UNCHANGED <<argv, optind>>
  PROVE  MacWord' = MacWord /\ LLWord' = LLWord /\ \A w : Asked(w)' = Asked(w)
<1>1. \A name, n : Given(name, n)' = Given(name, n)
  BY DEF Given
<1>2. MacWord' = MacWord /\ LLWord' = LLWord
  BY <1>1 DEF MacWord, LLWord, ToldBy
<1> QED BY <1>2 DEF Asked

-----------------------------------------------------------------------------
(* Before the first option the defaults hold. *)
LEMMA InitIInv == Init => IInv
<1> SUFFICES ASSUME Init PROVE IInv
  OBVIOUS
<1>1. /\ mac = [type |-> "FIXED", addr |-> Standard["802.3x"]]
      /\ llmac = [type |-> "LOCAL", addr |-> Garbage]
      /\ pc = "options" /\ optind = 0 /\ argv \in CommandLines /\ local = Zero
  BY DEF Init
<1>2. MacWord = "802.3x" /\ LLWord = "LOCAL"
  BY <1>1, ToldFirst DEF MacWord, LLWord
<1>3. Parsed(mac, MacWord) /\ Parsed(llmac, LLWord)
  BY <1>1, <1>2, WordsApart DEF Parsed, MacTypes
<1>4. Standard["802.3x"] \in Fixed /\ Garbage \in Fixed /\ Zero \in Fixed
  BY WordsApart DEF Fixed
<1>5. OptionsOK
  <2>1. Len(argv) \in Nat
    BY <1>1, FakeMacAssumption
  <2> QED BY <1>1, <1>4, <2>1 DEF OptionsOK, TaggedMac
<1>6. RunningOK
  <2>1. worker \in TaggedMac /\ entry \in Entry
    BY <1>1, <1>4 DEF Init, TaggedMac, Entry, NoEntry
  <2>2. last \in [0 .. Octets - 1 -> -1 .. MaxTime]
    BY FakeMacAssumption DEF Init
  <2> QED BY <2>1, <2>2, FakeMacAssumption DEF Init, RunningOK
<1>7. AskedInv /\ ReplyInv
  BY DEF Init, AskedInv, ReplyInv, NoEntry
<1> QED BY <1>1, <1>2, <1>3, <1>5, <1>6, <1>7
  DEF IInv, AssertsHold, ParsedInv, ResolvedInv, Early, Late

(* Steps that leave what the daemon does alone. *)
LEMMA RunningStays ==
  ASSUME RunningOK, UNCHANGED Running PROVE RunningOK'
BY DEF RunningOK, Running

(* An option replaces one of the two MACs and its word. *)
LEMMA MacOptionIInv == ASSUME IInv, MacOption PROVE IInv'
<1> USE DEF IInv
<1>1. /\ pc = "options" /\ pc' = pc /\ optind < Len(argv) /\ optind' = optind + 1
      /\ optind \in Nat /\ Len(argv) \in Nat
      /\ UNCHANGED <<argv, local>> /\ UNCHANGED Running
  BY FakeMacAssumption DEF MacOption, OptionsOK
<1>2. Option.text \in Words /\ Option = argv[optind + 1]
  <2> DEFINE Opt == [name : {"mac", "llmac", "other"}, text : Words]
  <2>1. argv \in Seq(Opt)
    BY FakeMacAssumption DEF OptionsOK
  <2> HIDE DEF Opt
  <2>2. argv[optind + 1] \in Opt
    BY <1>1, <2>1
  <2> QED BY <2>2 DEF Opt, Option
<1>3. \A name, n : Given(name, n)' = Given(name, n)
  BY <1>1 DEF Given
<1>4. /\ MacWord' = IF Option.name = "mac" THEN Option.text ELSE MacWord
      /\ LLWord' = IF Option.name = "llmac" THEN Option.text ELSE LLWord
  <2>1. /\ MacWord' = ToldBy("mac", optind + 1, "802.3x")
        /\ LLWord' = ToldBy("llmac", optind + 1, "LOCAL")
    BY <1>1, <1>3 DEF MacWord, LLWord, ToldBy
  <2> QED BY <1>1, <1>2, <2>1, ToldNext DEF MacWord, LLWord
<1>5. mac \in TaggedMac /\ llmac \in TaggedMac /\ mac.type # "SAME"
  BY DEF OptionsOK
<1>6. Parsed(mac, MacWord) /\ Parsed(llmac, LLWord) /\ MacWord # "SAME"
  BY <1>1 DEF ParsedInv, Early
<1>7. /\ mac' \in TaggedMac /\ llmac' \in TaggedMac /\ mac'.type # "SAME"
      /\ Parsed(mac', MacWord') /\ Parsed(llmac', LLWord') /\ MacWord' # "SAME"
  <2>1. CASE Option.name = "mac" /\ mac' \in Arguments_parseMac(Option.text, mac, FALSE)
             /\ UNCHANGED llmac
    BY <1>2, <1>4, <1>5, <1>6, <2>1, ParseMeans
  <2>2. CASE Option.name = "llmac" /\ llmac' \in Arguments_parseMac(Option.text, llmac, TRUE)
             /\ UNCHANGED mac
    BY <1>2, <1>4, <1>5, <1>6, <2>2, ParseMeans
  <2> QED BY <2>1, <2>2 DEF MacOption
<1>8. OptionsOK'
  BY <1>1, <1>7 DEF OptionsOK
<1>9. AskedInv' /\ ReplyInv'
  <2>1. entry = NoEntry /\ job = {} /\ reply = {}
    BY <1>1 DEF AskedInv
  <2> QED BY <1>1, <2>1 DEF AskedInv, ReplyInv, Running, NoEntry
<1> QED BY <1>1, <1>7, <1>8, <1>9, RunningStays
  DEF AssertsHold, ParsedInv, ResolvedInv, Early, Late

(* The options end, in an exit or with an interface. *)
LEMMA StartIInv ==
  ASSUME IInv, OptionExits \/ OptionsEnd \/ initIfaceInformation PROVE IInv'
<1> USE DEF IInv
<1>1. /\ UNCHANGED <<argv, optind, mac, llmac>> /\ UNCHANGED Running
      /\ pc \in {"options", "iface"} /\ pc' \in {"exit", "iface", "fixup"}
      /\ pc' = "fixup" => pc = "iface" /\ local' = IfaceMac
      /\ pc' = "iface" => optind = Len(argv)
      /\ local' \in {local, IfaceMac}
  BY DEF OptionExits, OptionsEnd, initIfaceInformation
<1>2. MacWord' = MacWord /\ LLWord' = LLWord
  BY <1>1, WordsStay
<1>3. OptionsOK'
  BY <1>1 DEF OptionsOK, Fixed
<1>4. ParsedInv' /\ ResolvedInv' /\ AssertsHold'
  BY <1>1, <1>2 DEF ParsedInv, ResolvedInv, AssertsHold, Early, Late
<1>5. AskedInv' /\ ReplyInv'
  <2>1. entry = NoEntry /\ job = {} /\ reply = {}
    BY <1>1 DEF AskedInv
  <2> QED BY <1>1, <2>1 DEF AskedInv, ReplyInv, Running, NoEntry
<1> QED BY <1>1, <1>3, <1>4, <1>5, RunningStays

(* fixupMac resolves LOCAL and leaves the rest. *)
LEMMA FixupResolves ==
  ASSUME NEW m \in TaggedMac, NEW w, Parsed(m, w), local = IfaceMac
  PROVE  /\ fixupMac(m) \in TaggedMac /\ Resolved(fixupMac(m), w)
         /\ fixupMac(m).type = "SAME" => m.type = "SAME"
<1> USE WordsApart
<1>1. (CHOOSE a \in xether_aton_r("LOCAL") : TRUE) = IfaceMac
  BY DEF xether_aton_r
<1>2. IfaceMac \in Fixed
  BY DEF Fixed
<1>3. CASE m.type = "LOCAL"
  <2>1. fixupMac(m) = [type |-> "FIXED", addr |-> IfaceMac]
    BY <1>1, <1>3 DEF fixupMac
  <2>2. w = "LOCAL"
    BY <1>3 DEF Parsed, MacTypes
  <2> QED BY <1>2, <2>1, <2>2 DEF Resolved, TaggedMac
<1>4. CASE m.type # "LOCAL"
  <2>1. fixupMac(m) = m /\ w # "LOCAL"
    BY <1>4 DEF fixupMac, Parsed, MacTypes
  <2> QED BY <2>1 DEF Resolved
<1> QED BY <1>3, <1>4

(* The names are resolved ... *)
LEMMA FixupIInv == ASSUME IInv, Arguments_fixupOptions PROVE IInv'
<1> USE DEF IInv
<1>1. /\ UNCHANGED <<argv, optind, local>> /\ UNCHANGED Running
      /\ pc = "fixup" /\ pc' = "worker" /\ local = IfaceMac /\ optind = Len(argv)
      /\ mac' = fixupMac(mac) /\ llmac' = fixupMac(llmac)
  BY DEF Arguments_fixupOptions, ResolvedInv
<1>2. MacWord' = MacWord /\ LLWord' = LLWord
  BY <1>1, WordsStay
<1>3. /\ mac' \in TaggedMac /\ llmac' \in TaggedMac /\ mac'.type # "SAME"
      /\ Resolved(mac', MacWord) /\ Resolved(llmac', LLWord) /\ MacWord # "SAME"
  BY <1>1, FixupResolves DEF ParsedInv, Early, OptionsOK
<1>4. OptionsOK'
  BY <1>1, <1>3 DEF OptionsOK
<1>5. ParsedInv' /\ ResolvedInv' /\ AssertsHold'
  BY <1>1, <1>2, <1>3 DEF ParsedInv, ResolvedInv, AssertsHold, Early, Late
<1>6. AskedInv' /\ ReplyInv'
  <2>1. entry = NoEntry /\ job = {} /\ reply = {}
    BY <1>1 DEF AskedInv
  <2> QED BY <1>1, <2>1 DEF AskedInv, ReplyInv, Running, NoEntry
<1> QED BY <1>1, <1>4, <1>5, <1>6, RunningStays

(* ... before the worker takes its copy. *)
LEMMA WorkerInitIInv == ASSUME IInv, Worker_init PROVE IInv'
<1> USE DEF IInv
<1>1. /\ UNCHANGED Options /\ UNCHANGED <<entry, job, reply, now, last>>
      /\ pc = "worker" /\ pc' = "run" /\ worker' = llmac
  BY DEF Worker_init
<1>2. MacWord' = MacWord /\ LLWord' = LLWord
  BY <1>1, WordsStay DEF Options
<1>3. OptionsOK' /\ RunningOK'
  BY <1>1 DEF OptionsOK, RunningOK, Options
<1>4. ParsedInv' /\ ResolvedInv' /\ AssertsHold'
  BY <1>1, <1>2 DEF ParsedInv, ResolvedInv, AssertsHold, Early, Late, Options
<1>5. AskedInv' /\ ReplyInv'
  <2>1. entry = NoEntry /\ job = {} /\ reply = {}
    BY <1>1 DEF AskedInv
  <2> QED BY <1>1, <2>1 DEF AskedInv, ReplyInv, NoEntry
<1> QED BY <1>3, <1>4, <1>5

-----------------------------------------------------------------------------
(* A resolved MAC is of a type that the assertions allow, and means its     *)
(* word.                                                                    *)
LEMMA ResolvedMeans ==
  ASSUME NEW m \in TaggedMac, NEW w, Resolved(m, w)
  PROVE  /\ m.type \in {"RANDOM", "FIXED", "SAME"}
         /\ m.type = "SAME" <=> w = "SAME"
         /\ m.type = "RANDOM" => Meaning(w) = RandomMacs
         /\ m.type = "FIXED" => m.addr \in Meaning(w)
<1> USE WordsApart
<1>1. CASE w \in MacTypes
  BY <1>1 DEF Resolved, Parsed, MacTypes, Meaning
<1>2. CASE w \in DOMAIN Standard
  BY <1>2 DEF Resolved, Parsed, MacTypes, Meaning
<1>3. CASE w \in MacTexts
  BY <1>3 DEF Resolved, Parsed, MacTypes, Meaning
<1>4. w \in MacTypes \cup DOMAIN Standard \cup MacTexts
  BY DEF Resolved, Parsed, MacTypes
<1> QED BY <1>1, <1>2, <1>3, <1>4

(* What the two processes hold while the daemon runs. *)
LEMMA RunFacts ==
  ASSUME IInv, pc = "run"
  PROVE  /\ mac.type \in {"RANDOM", "FIXED"}
         /\ mac.type = "RANDOM" => Meaning(MacWord) = RandomMacs
         /\ mac.type = "FIXED" => mac.addr \in Meaning(MacWord)
         /\ worker.type \in {"RANDOM", "FIXED", "SAME"}
         /\ worker.type = "SAME" <=> LLWord = "SAME"
         /\ worker.type = "RANDOM" => Meaning(LLWord) = RandomMacs
         /\ worker.type = "FIXED" => worker.addr \in Meaning(LLWord)
         /\ mac \in TaggedMac /\ local = IfaceMac
<1>1. /\ Resolved(mac, MacWord) /\ Resolved(llmac, LLWord) /\ MacWord # "SAME"
      /\ worker = llmac /\ local = IfaceMac
  BY DEF IInv, ResolvedInv, Late
<1>2. mac \in TaggedMac /\ llmac \in TaggedMac
  BY DEF IInv, OptionsOK
<1> QED BY <1>1, <1>2, ResolvedMeans

(* An entry means the word of its line, or of --mac if there is none. *)
LEMMA EntryMeans ==
  ASSUME IInv, pc = "run", NEW w \in Words \cup {"none"}, ~Unresolved(w)
  PROVE  /\ EntryFor(w) \in Entry
         /\ EntryFor(w).status = "SET" => EntryFor(w).mac \in Asked(EntryFor(w).word)
         /\ EntryFor(w).status = "RAND" => Asked(EntryFor(w).word) = RandomMacs
<1> USE WordsApart
<1>1. Garbage \in Fixed /\ Zero \in Fixed
  BY DEF Fixed
<1>2. CASE w = "none"
  <2>1. EntryFor(w) = [status |-> IF mac.type = "RANDOM" THEN "RAND" ELSE "SET",
                       mac |-> IF mac.type = "FIXED" THEN mac.addr ELSE Garbage,
                       word |-> "none"]
    BY <1>2 DEF EntryFor
  <2>2. mac.addr \in Fixed
    BY RunFacts DEF TaggedMac
  <2> QED BY <1>1, <2>1, <2>2, RunFacts DEF Entry, Asked
<1>3. CASE w = "RANDOM"
  <2>1. EntryFor(w) = [status |-> "RAND", mac |-> Garbage, word |-> "RANDOM"]
    BY <1>3 DEF EntryFor
  <2> QED BY <1>1, <1>3, <2>1 DEF Entry, Asked, Meaning
<1>4. CASE w \notin {"none", "RANDOM"}
  <2>1. CASE xether_aton_r(w) = {}
    BY <1>1, <1>4, <2>1 DEF EntryFor, NoEntry, Entry
  <2>2. CASE xether_aton_r(w) # {}
    <3> DEFINE a == CHOOSE x \in xether_aton_r(w) : TRUE
    <3>1. a \in xether_aton_r(w)
      BY <2>2
    <3>2. EntryFor(w) = [status |-> "SET", mac |-> a, word |-> w]
      BY <1>4, <2>2 DEF EntryFor
    <3> HIDE DEF a
    <3>3. a \in Fixed
      BY <1>4, <3>1, RunFacts DEF xether_aton_r, Fixed
    <3>4. a \in Meaning(w)
      BY <1>4, <3>1, RunFacts DEF xether_aton_r, Meaning, MacTypes
    <3>5. w \in Words \cup {"none"}
      OBVIOUS
    <3> QED BY <1>4, <3>2, <3>3, <3>4, <3>5 DEF Entry, Asked
  <2> QED BY <2>1, <2>2
<1> QED BY <1>2, <1>3, <1>4

(* The ipfile is read again. *)
LEMMA ReadLineIInv ==
  ASSUME IInv, NEW w \in Words \cup {"none"}, ReadLine(w) PROVE IInv'
<1> USE DEF IInv
<1>1. ~Unresolved(w)
  BY RunFacts DEF ReadLine, Unresolved
<1>2. /\ UNCHANGED Options /\ UNCHANGED <<worker, job, now, last>>
      /\ pc = "run" /\ pc' = "run" /\ entry' = EntryFor(w) /\ reply' = {}
  BY <1>1 DEF ReadLine
<1>3. MacWord' = MacWord /\ LLWord' = LLWord /\ \A x : Asked(x)' = Asked(x)
  BY <1>2, WordsStay DEF Options
<1>4. OptionsOK' /\ RunningOK'
  BY <1>1, <1>2, EntryMeans DEF OptionsOK, RunningOK, Options
<1>5. ParsedInv' /\ ResolvedInv' /\ AssertsHold'
  BY <1>2, <1>3 DEF ParsedInv, ResolvedInv, AssertsHold, Early, Late, Options
<1>6. AskedInv' /\ ReplyInv'
  BY <1>1, <1>2, <1>3, EntryMeans DEF AskedInv, ReplyInv
<1> QED BY <1>4, <1>5, <1>6

(* A random MAC is noted with a time that the clock has shown. *)
LEMMA LastStays ==
  ASSUME RunningOK, NEW o \in 0 .. Octets - 1, setRandomMac(o)
  PROVE  last' \in [0 .. Octets - 1 -> -1 .. MaxTime]
<1>1. now \in -1 .. MaxTime
  BY FakeMacAssumption DEF RunningOK
<1> QED BY <1>1 DEF RunningOK, setRandomMac

(* The main process writes a job. *)
LEMMA RequestIInv ==
  ASSUME IInv, NEW type \in {"DST", "SRC"}, Request(type) PROVE IInv'
<1> USE DEF IInv
<1>1. /\ UNCHANGED Options /\ UNCHANGED <<pc, worker, entry, now>>
      /\ pc = "run" /\ job = {} /\ reply' = {}
  BY DEF Request
<1>2. MacWord' = MacWord /\ LLWord' = LLWord /\ \A x : Asked(x)' = Asked(x)
  BY <1>1, WordsStay DEF Options
<1> DEFINE Written(m) ==
             /\ job' = {[type |-> type, mac |-> m, word |-> entry.word]}
             /\ m \in Asked(entry.word)
             /\ last' \in [0 .. Octets - 1 -> -1 .. MaxTime]
<1>3. PICK m \in Fixed \cup RandomMacs : Written(m)
  <2>1. CASE entry.status = "SET" /\ UNCHANGED last
             /\ job' = {[type |-> type, mac |-> entry.mac, word |-> entry.word]}
    BY <2>1 DEF AskedInv, RunningOK, Entry
  <2>2. ASSUME entry.status = "RAND", NEW r \in 0 .. RandMax, setRandomMac(Octet(r)),
               job' = {[type |-> type, mac |-> RandomMac(Octet(r)), word |-> entry.word]}
        PROVE  \E m \in Fixed \cup RandomMacs : Written(m)
    <3>1. Octet(r) \in 0 .. Octets - 1 /\ RandomMac(Octet(r)) \in RandomMacs
      BY OctetInRange
    <3>2. RandomMac(Octet(r)) \in Asked(entry.word)
      BY <2>2, <3>1 DEF AskedInv
    <3> QED BY <2>2, <3>1, <3>2, LastStays
  <2> QED BY <2>1, <2>2 DEF Request
<1>4. OptionsOK' /\ RunningOK'
  <2>1. [type |-> type, mac |-> m, word |-> entry.word] \in Job
    BY DEF Job, RunningOK, Entry
  <2> QED BY <1>1, <1>3, <2>1 DEF OptionsOK, RunningOK, Options
<1>5. ParsedInv' /\ ResolvedInv' /\ AssertsHold'
  BY <1>1, <1>2 DEF ParsedInv, ResolvedInv, AssertsHold, Early, Late, Options
<1>6. AskedInv' /\ ReplyInv'
  BY <1>1, <1>2, <1>3 DEF AskedInv, ReplyInv
<1> QED BY <1>4, <1>5, <1>6

(* The worker fills the packet. *)
LEMMA WorkerIInv == ASSUME IInv, WorkerStep PROVE IInv'
<1> USE DEF IInv
<1>1. PICK j \in job : Worker_fillPacket(j)
  BY DEF WorkerStep
<1>2. /\ UNCHANGED Options /\ UNCHANGED <<worker, entry, now>>
      /\ pc = "run" /\ job' = {}
  BY DEF WorkerStep
<1>3. MacWord' = MacWord /\ LLWord' = LLWord /\ \A x : Asked(x)' = Asked(x)
  BY <1>2, WordsStay DEF Options
<1>4. j \in Job /\ j.mac \in Asked(j.word)
  BY DEF AskedInv, RunningOK
<1> DEFINE Sent(shost) ==
             /\ reply' = {[type |-> j.type, word |-> j.word, sha |-> j.mac, shost |-> shost]}
             /\ IF j.type = "DST" \/ LLWord = "SAME" THEN shost = j.mac
                ELSE shost \in Meaning(LLWord)
             /\ pc' = "run"
             /\ last' \in [0 .. Octets - 1 -> -1 .. MaxTime]
<1>5. PICK shost : Sent(shost)
  <2>1. ASSUME j.type = "SRC", worker.type = "RANDOM", NEW r \in 0 .. RandMax,
               reply' = Answer(j, RandomMac(Octet(r))), setRandomMac(Octet(r)), UNCHANGED pc
        PROVE  \E shost : Sent(shost)
    <3>1. Octet(r) \in 0 .. Octets - 1 /\ RandomMac(Octet(r)) \in RandomMacs
      BY OctetInRange
    <3>2. RandomMac(Octet(r)) \in Meaning(LLWord) /\ LLWord # "SAME"
      BY <1>2, <2>1, <3>1, RunFacts
    <3> QED BY <1>2, <2>1, <3>1, <3>2, LastStays DEF Answer
  <2>2. ASSUME j.type = "DST" \/ worker.type # "RANDOM",
               reply' = Answer(j, IF j.type = "SRC" /\ worker.type = "FIXED"
                                  THEN worker.addr ELSE j.mac),
               pc' = IF j.type = "SRC" /\ worker.type = "LOCAL" THEN "aborted" ELSE pc,
               UNCHANGED last
        PROVE  \E shost : Sent(shost)
    <3>1. pc' = "run"
      BY <1>2, <2>2, RunFacts
    <3>2. last' \in [0 .. Octets - 1 -> -1 .. MaxTime]
      BY <2>2 DEF RunningOK
    <3>3. CASE j.type = "SRC" /\ worker.type = "FIXED"
      BY <1>2, <2>2, <3>1, <3>2, <3>3, RunFacts DEF Answer
    <3>4. CASE ~(j.type = "SRC" /\ worker.type = "FIXED")
      <4>1. j.type = "DST" \/ LLWord = "SAME"
        BY <1>2, <1>4, <2>2, <3>4, RunFacts DEF Job
      <4> QED BY <2>2, <3>1, <3>2, <3>4, <4>1 DEF Answer
    <3> QED BY <3>3, <3>4
  <2> QED BY <1>1, <2>1, <2>2 DEF Worker_fillPacket
<1>6. OptionsOK' /\ RunningOK'
  BY <1>2, <1>5 DEF OptionsOK, RunningOK, Options
<1>7. ParsedInv' /\ ResolvedInv' /\ AssertsHold'
  BY <1>2, <1>3, <1>5 DEF ParsedInv, ResolvedInv, AssertsHold, Early, Late, Options
<1>8. AskedInv' /\ ReplyInv'
  BY <1>2, <1>3, <1>4, <1>5 DEF AskedInv, ReplyInv
<1> QED BY <1>6, <1>7, <1>8

(* Time passes. *)
LEMMA TickIInv == ASSUME IInv, Tick PROVE IInv'
<1> USE DEF IInv
<1>1. /\ UNCHANGED Options /\ UNCHANGED <<pc, worker, entry, job>>
      /\ pc = "run" /\ reply' = {}
  BY DEF Tick
<1>2. MacWord' = MacWord /\ LLWord' = LLWord /\ \A x : Asked(x)' = Asked(x)
  BY <1>1, WordsStay DEF Options
<1>3. now' \in 0 .. MaxTime
  BY FakeMacAssumption DEF Tick, RunningOK
<1>4. last' \in [0 .. Octets - 1 -> -1 .. MaxTime]
  BY FakeMacAssumption DEF Tick, RunningOK
<1>5. OptionsOK' /\ RunningOK'
  BY <1>1, <1>3, <1>4 DEF OptionsOK, RunningOK, Options
<1>6. ParsedInv' /\ ResolvedInv' /\ AssertsHold'
  BY <1>1, <1>2 DEF ParsedInv, ResolvedInv, AssertsHold, Early, Late, Options
<1>7. AskedInv' /\ ReplyInv'
  BY <1>1, <1>2 DEF AskedInv, ReplyInv
<1> QED BY <1>5, <1>6, <1>7

(* The invariant is inductive. *)
LEMMA NextIInv == IInv /\ [Next]_vars => IInv'
<1> SUFFICES ASSUME IInv, [Next]_vars PROVE IInv'
  OBVIOUS
<1>1. CASE UNCHANGED vars
  <2>1. MacWord' = MacWord /\ LLWord' = LLWord /\ \A x : Asked(x)' = Asked(x)
    BY <1>1, WordsStay DEF vars
  <2>2. OptionsOK' /\ RunningOK'
    BY <1>1 DEF IInv, OptionsOK, RunningOK, vars
  <2>3. ParsedInv' /\ ResolvedInv' /\ AssertsHold'
    BY <1>1, <2>1 DEF IInv, ParsedInv, ResolvedInv, AssertsHold, vars
  <2>4. AskedInv' /\ ReplyInv'
    BY <1>1, <2>1 DEF IInv, AskedInv, ReplyInv, vars
  <2> QED BY <2>2, <2>3, <2>4 DEF IInv
<1> QED BY <1>1, MacOptionIInv, StartIInv, FixupIInv, WorkerInitIInv, ReadLineIInv,
           RequestIInv, WorkerIInv, TickIInv DEF Next

(* The invariant holds in every behaviour. *)
LEMMA InvHolds == Spec => []IInv
BY InitIInv, NextIInv, PTL DEF Spec

-----------------------------------------------------------------------------
(* The state keeps its shape: random MACs end with an octet, the types of   *)
(* MACs are those of arguments.h.                                           *)
THEOREM FakeMacTypeCorrect == Spec => []TypeOK
<1>1. IInv => TypeOK
  BY DEF IInv, TypeOK
<1> QED BY <1>1, InvHolds, PTL

(* No order of options leads into the assertions of BlackList_setDefaultMac *)
(* and Worker_fillPacket.                                                   *)
THEOREM AssertionsHold == Spec => []AssertsHold
<1>1. IInv => AssertsHold
  BY DEF IInv
<1> QED BY <1>1, InvHolds, PTL

(* Answers carry the MACs of the ipfile, of --mac and of --llmac, as the    *)
(* last option of each name says, and none that was never set.              *)
THEOREM AnswersAsTold == Spec => []MacsAsTold
<1>1. ASSUME IInv PROVE MacsAsTold
  <2>1. CASE reply = {}
    BY <2>1 DEF MacsAsTold
  <2>2. CASE reply # {}
    <3>1. optind = Len(argv)
      BY <1>1, <2>2 DEF IInv, AskedInv, ResolvedInv
    <3>2. Told("mac", "802.3x") = MacWord /\ Told("llmac", "LOCAL") = LLWord
      BY <1>1, <3>1, ToldAll DEF IInv, MacWord, LLWord
    <3> QED BY <1>1, <3>2 DEF IInv, ReplyInv, Asked, Default, MacsAsTold
  <2> QED BY <2>1, <2>2
<1> QED BY <1>1, InvHolds, PTL

-----------------------------------------------------------------------------
(***************************************************************************)
(* The window of random MACs.  Its w-th position is fixed by the number of *)
(* whole periods; what was taken in the last Period seconds comes from at  *)
(* most two successive positions.                                          *)
(***************************************************************************)
WindowAt(w) == {(x + w) % Octets : x \in 0 .. RandCount - 1}

Recent ==
  \A o \in 0 .. Octets - 1 : last[o] >= 0 =>
    /\ now - Period < last[o] /\ last[o] <= now
    /\ o \in WindowAt(last[o] \div Period)

(* Division is what it is. *)
LEMMA Quotient ==
  ASSUME NEW a \in Nat, NEW p \in Nat \ {0}
  PROVE  /\ a \div p \in Nat /\ p * (a \div p) <= a /\ a < p * (a \div p) + p
         /\ a % p \in Nat /\ a = p * (a \div p) + (a % p)
OBVIOUS

(* A multiple of p that is less than p above another one is not above it.   *)
LEMMA Multiples ==
  ASSUME NEW p \in Nat \ {0}, NEW i \in Int, NEW j \in Int, p * i < p * j + p
  PROVE  i <= j
<1> SUFFICES ASSUME i >= j + 1 PROVE FALSE
  OBVIOUS
<1>1. i - j - 1 \in Nat
  OBVIOUS
<1>2. PICK d \in Nat : i = j + 1 + d
  BY <1>1
<1>3. p * i = p * j + p + p * d
  BY <1>2
<1>4. p * d >= 0
  OBVIOUS
<1>5. p * j \in Int /\ p * d \in Int
  OBVIOUS
<1> QED BY <1>3, <1>4, <1>5

(* At most a period apart, at most one period boundary in between. *)
LEMMA OneBoundary ==
  ASSUME NEW a \in Nat, NEW b \in Nat, NEW p \in Nat \ {0}, a <= b, b <= a + p
  PROVE  b \div p = a \div p \/ b \div p = (a \div p) + 1
<1> DEFINE qa == a \div p
           qb == b \div p
<1>1. /\ qa \in Nat /\ p * qa <= a /\ a < p * qa + p
      /\ qb \in Nat /\ p * qb <= b /\ b < p * qb + p
  BY Quotient
<1> HIDE DEF qa, qb
<1>2. p * qa \in Int /\ p * qb \in Int
  BY <1>1
<1>3. qa <= qb
  <2>1. p * qa < p * qb + p
    BY <1>1, <1>2
  <2> QED BY <1>1, <2>1, Multiples
<1>4. qb <= qa + 1
  <2>1. p * (qa + 1) = p * qa + p
    BY <1>1
  <2>2. p * qb < p * (qa + 1) + p
    BY <1>1, <1>2, <2>1
  <2>3. qa + 1 \in Int
    BY <1>1
  <2> QED BY <1>1, <2>2, <2>3, Multiples
<1>5. qb = qa \/ qb = qa + 1
  BY <1>1, <1>3, <1>4
<1> QED BY <1>5 DEF qa, qb

(* Numbers less than p apart have different remainders. *)
LEMMA RemaindersApart ==
  ASSUME NEW a \in Nat, NEW b \in Nat, NEW p \in Nat \ {0}, a < b, b < a + p
  PROVE  a % p # b % p
<1> DEFINE qa == a \div p
           qb == b \div p
<1>1. /\ qa \in Nat /\ a = p * qa + (a % p) /\ a % p \in Nat
      /\ qb \in Nat /\ b = p * qb + (b % p) /\ b % p \in Nat
  BY Quotient
<1>2. SUFFICES ASSUME a % p = b % p PROVE FALSE
  OBVIOUS
<1> HIDE DEF qa, qb
<1>3. p * qa \in Int /\ p * qb \in Int
  BY <1>1
<1>4. p * qb < p * qa + p
  BY <1>1, <1>2, <1>3
<1>5. qb <= qa
  BY <1>1, <1>4, Multiples
<1>6. p * qa < p * qb + p /\ p * qa < p * qb
  BY <1>1, <1>2, <1>3
<1>7. qa <= qb
  BY <1>1, <1>6, Multiples
<1> QED BY <1>1, <1>3, <1>5, <1>6, <1>7

(* What rand() may give is the window of this moment, all of it. *)
LEMMA WindowNow ==
  ASSUME NEW t \in Nat
  PROVE  {((r % RandCount) + (t \div Period)) % Octets : r \in 0 .. RandMax}
           = WindowAt(t \div Period)
<1> DEFINE w == t \div Period
<1>1. RandCount \in Nat \ {0} /\ RandMax \in Nat /\ RandMax + 1 >= RandCount
  BY FakeMacAssumption
<1>2. \A r \in 0 .. RandMax : r % RandCount \in 0 .. RandCount - 1
  BY <1>1
<1>3. \A x \in 0 .. RandCount - 1 : x \in 0 .. RandMax /\ x % RandCount = x
  BY <1>1
<1> HIDE DEF w
<1>4. {((r % RandCount) + w) % Octets : r \in 0 .. RandMax} = WindowAt(w)
  BY <1>2, <1>3 DEF WindowAt
<1> QED BY <1>4 DEF w

(* A MAC that is taken now is in the window of now. *)
LEMMA TakenRecent ==
  ASSUME RunningOK, Recent, NEW r \in 0 .. RandMax, setRandomMac(Octet(r)), now' = now
  PROVE  Recent'
<1> DEFINE o == Octet(r)
<1>1. Period \in Nat \ {0} /\ now \in Nat /\ last \in [0 .. Octets - 1 -> -1 .. MaxTime]
  BY FakeMacAssumption DEF RunningOK
<1>2. o \in 0 .. Octets - 1
  BY OctetInRange
<1>3. o \in WindowAt(now \div Period)
  BY <1>1, WindowNow DEF Octet
<1> HIDE DEF o
<1>4. last' = [last EXCEPT ![o] = now]
  BY DEF setRandomMac, o
<1>5. ASSUME NEW p \in 0 .. Octets - 1, last'[p] >= 0
      PROVE  /\ now - Period < last'[p] /\ last'[p] <= now
             /\ p \in WindowAt(last'[p] \div Period)
  <2>1. CASE p = o
    <3>1. last'[p] = now
      BY <1>1, <1>2, <1>4, <2>1
    <3> QED BY <1>1, <1>3, <2>1, <3>1
  <2>2. CASE p # o
    <3>1. last'[p] = last[p]
      BY <1>1, <1>4, <2>2
    <3> QED BY <1>5, <3>1 DEF Recent
  <2> QED BY <2>1, <2>2
<1> QED BY <1>5 DEF Recent, WindowAt

(* Time forgets what was taken a period ago. *)
LEMMA TickRecent ==
  ASSUME RunningOK, Recent, Tick PROVE Recent'
<1>1. Period \in Nat \ {0} /\ now \in Nat /\ last \in [0 .. Octets - 1 -> -1 .. MaxTime]
  BY FakeMacAssumption DEF RunningOK
<1>2. /\ now' = now + 1
      /\ last' = [o \in 0 .. Octets - 1 |-> IF last[o] > now' - Period THEN last[o] ELSE -1]
  BY <1>1 DEF Tick
<1>3. ASSUME NEW o \in 0 .. Octets - 1, last'[o] >= 0
      PROVE  /\ now' - Period < last'[o] /\ last'[o] <= now'
             /\ o \in WindowAt(last'[o] \div Period)
  <2>1. last'[o] = last[o] /\ last[o] > now' - Period /\ last[o] >= 0
    BY <1>2, <1>3
  <2>2. last[o] <= now /\ o \in WindowAt(last[o] \div Period) /\ last[o] \in Int
    BY <1>1, <2>1 DEF Recent
  <2> QED BY <1>1, <1>2, <2>1, <2>2
<1> QED BY <1>3 DEF Recent, WindowAt

(* What is remembered was taken within a period, from the window of then. *)
LEMMA RecentHolds == Spec => []Recent
<1>1. Init => Recent
  <2> SUFFICES ASSUME Init PROVE Recent
    OBVIOUS
  <2>1. \A o \in 0 .. Octets - 1 : last[o] = -1
    BY DEF Init
  <2> QED BY <2>1 DEF Recent
<1>2. ASSUME IInv, Recent, [Next]_vars PROVE Recent'
  <2>1. RunningOK
    BY <1>2 DEF IInv
  <2>2. CASE UNCHANGED <<now, last>>
    BY <1>2, <2>2 DEF Recent, WindowAt
  <2>3. CASE Tick
    BY <1>2, <2>1, <2>3, TickRecent
  <2>4. ASSUME NEW type, Request(type) PROVE Recent'
    <3>1. now' = now
      BY <2>4 DEF Request
    <3>2. UNCHANGED last \/ \E r \in 0 .. RandMax : setRandomMac(Octet(r))
      BY <2>4 DEF Request
    <3> QED BY <1>2, <2>1, <2>2, <3>1, <3>2, TakenRecent
  <2>5. CASE WorkerStep
    <3>1. now' = now
      BY <2>5 DEF WorkerStep
    <3>2. UNCHANGED last \/ \E r \in 0 .. RandMax : setRandomMac(Octet(r))
      BY <2>5 DEF WorkerStep, Worker_fillPacket
    <3> QED BY <1>2, <2>1, <2>2, <3>1, <3>2, TakenRecent
  <2>6. CASE \/ MacOption \/ OptionExits \/ OptionsEnd \/ initIfaceInformation
             \/ Arguments_fixupOptions
    <3>1. UNCHANGED Running
      BY <2>6 DEF MacOption, OptionExits, OptionsEnd, initIfaceInformation,
                  Arguments_fixupOptions
    <3> QED BY <2>2, <3>1 DEF Running
  <2>7. CASE Worker_init \/ \E w \in Words \cup {"none"} : ReadLine(w)
    BY <2>2, <2>7 DEF Worker_init, ReadLine
  <2>8. CASE UNCHANGED vars
    BY <2>2, <2>8 DEF vars
  <2> QED BY <1>2, <2>3, <2>4, <2>5, <2>6, <2>7, <2>8 DEF Next
<1> QED BY InvHolds, <1>1, <1>2, PTL DEF Spec

(* In any Period seconds at most one random MAC more is used than the       *)
(* window of BLACKLIST_RAND_COUNT holds, also when the octet wraps around.  *)
THEOREM RandomMacsFew == Spec => []FewRandomMacs
<1>1. ASSUME IInv, Recent PROVE FewRandomMacs
  <2> DEFINE w == now \div Period
             w0 == IF w = 0 THEN 0 ELSE w - 1
             used == {o \in DOMAIN last : last[o] >= 0}
             N == 0 .. RandCount
             U == {(y + w0) % Octets : y \in N}
  <2>1. /\ Period \in Nat \ {0} /\ now \in Nat /\ RandCount \in Nat \ {0}
        /\ last \in [0 .. Octets - 1 -> -1 .. MaxTime]
    BY <1>1, FakeMacAssumption DEF IInv, RunningOK
  <2>2. w \in Nat
    BY <2>1, Quotient
  <2>3. ASSUME NEW o \in used PROVE o \in U
    <3>1. o \in 0 .. Octets - 1 /\ last[o] >= 0 /\ last[o] \in Nat
      BY <2>1
    <3>2. /\ now - Period < last[o] /\ last[o] <= now
          /\ o \in WindowAt(last[o] \div Period)
      BY <1>1, <3>1 DEF Recent
    <3> DEFINE v == last[o] \div Period
    <3>3. v \in Nat
      BY <2>1, <3>1, Quotient
    <3>4. w = v \/ w = v + 1
      <4>1. now <= last[o] + Period
        BY <2>1, <3>1, <3>2
      <4> QED BY <2>1, <3>1, <3>2, <4>1, OneBoundary
    <3>5. PICK x \in 0 .. RandCount - 1 : o = (x + v) % Octets
      BY <3>2 DEF WindowAt
    <3> HIDE DEF w, v
    <3>6. v = w0 \/ v = w0 + 1
      BY <2>2, <3>3, <3>4
    <3> HIDE DEF w0
    <3>7. w0 \in Int
      BY <3>3, <3>6, <2>2 DEF w0
    <3>8. CASE v = w0
      <4>1. x \in N
        BY <2>1
      <4> QED BY <3>5, <3>8, <4>1
    <3>9. CASE v = w0 + 1
      <4>1. x + 1 \in N /\ x + v = (x + 1) + w0
        BY <2>1, <3>7, <3>9
      <4> QED BY <3>5, <4>1
    <3> QED BY <3>6, <3>8, <3>9
  <2>4. IsFiniteSet(N) /\ Cardinality(N) = RandCount + 1
    BY <2>1, FS_Interval
  <2> HIDE DEF N, w0
  <2>5. IsFiniteSet(U) /\ Cardinality(U) <= Cardinality(N)
    <3> DEFINE f == [y \in N |-> (y + w0) % Octets]
    <3>1. f \in Surjection(N, U)
      BY DEF Surjection
    <3> HIDE DEF f, U
    <3> QED BY <2>4, <3>1, FS_Surjection
  <2> HIDE DEF U, used
  <2>6. used \subseteq U
    BY <2>3
  <2>7. Cardinality(used) <= Cardinality(U) /\ Cardinality(used) \in Nat
    BY <2>5, <2>6, FS_Subset, FS_CardinalityType
  <2>8. Cardinality(U) \in Nat
    BY <2>5, FS_CardinalityType
  <2>9. Cardinality(used) <= RandCount + 1
    BY <2>1, <2>4, <2>5, <2>7, <2>8
  <2> QED BY <2>9 DEF FewRandomMacs, used
<1> QED BY <1>1, InvHolds, RecentHolds, PTL

(* The next position of the window has one MAC that this one has not, and   *)
(* the other way round.                                                     *)
LEMMA WindowMoves ==
  ASSUME NEW w \in Nat
  PROVE  /\ Cardinality(WindowAt(w + 1) \ WindowAt(w)) = 1
         /\ Cardinality(WindowAt(w) \ WindowAt(w + 1)) = 1
<1> DEFINE v(x) == (x + w) % Octets
           R == RandCount
<1>1. R \in Nat \ {0} /\ Octets \in Nat \ {0} /\ R < Octets
  BY FakeMacAssumption
<1>2. ASSUME NEW x \in 0 .. R, NEW y \in 0 .. R, x < y PROVE v(x) # v(y)
  <2>1. /\ x + w \in Nat /\ y + w \in Nat /\ x + w < y + w /\ y + w < (x + w) + Octets
    BY <1>1, <1>2
  <2> QED BY <1>1, <2>1, RemaindersApart
<1>3. WindowAt(w) = {v(x) : x \in 0 .. R - 1}
  BY DEF WindowAt
<1>4. WindowAt(w + 1) = {v(x) : x \in 1 .. R}
  <2>1. WindowAt(w + 1) = {(x + (w + 1)) % Octets : x \in 0 .. R - 1}
    BY DEF WindowAt
  <2>2. \A x \in 0 .. R - 1 : x + 1 \in 1 .. R /\ x + (w + 1) = (x + 1) + w
    BY <1>1
  <2>3. \A x \in 1 .. R : x - 1 \in 0 .. R - 1 /\ (x - 1) + (w + 1) = x + w
    BY <1>1
  <2>4. ASSUME NEW e \in WindowAt(w + 1) PROVE e \in {v(x) : x \in 1 .. R}
    <3>1. PICK x \in 0 .. R - 1 : e = (x + (w + 1)) % Octets
      BY <2>1
    <3>2. x + 1 \in 1 .. R /\ e = v(x + 1)
      BY <2>2, <3>1
    <3> HIDE DEF v
    <3> QED BY <3>2
  <2>5. ASSUME NEW e \in {v(x) : x \in 1 .. R} PROVE e \in WindowAt(w + 1)
    <3>1. PICK x \in 1 .. R : e = (x + w) % Octets
      OBVIOUS
    <3>2. x - 1 \in 0 .. R - 1 /\ e = ((x - 1) + (w + 1)) % Octets
      BY <2>3, <3>1
    <3> QED BY <2>1, <3>2
  <2> QED BY <2>4, <2>5
<1> HIDE DEF v
<1>5. 0 .. R = (0 .. R - 1) \cup {R} /\ 0 .. R = {0} \cup (1 .. R) /\ R \notin 0 .. R - 1
      /\ 0 \notin 1 .. R /\ 0 \in 0 .. R - 1 /\ R \in 1 .. R
  BY <1>1
<1>6. \A x, y \in 0 .. R : v(x) = v(y) => x = y
  <2> SUFFICES ASSUME NEW x \in 0 .. R, NEW y \in 0 .. R, x # y PROVE v(x) # v(y)
    OBVIOUS
  <2>1. x < y \/ y < x
    OBVIOUS
  <2> QED BY <1>2, <2>1
<1> HIDE DEF R
<1>7. WindowAt(w + 1) \ WindowAt(w) = {v(R)}
  BY <1>3, <1>4, <1>5, <1>6
<1>8. WindowAt(w) \ WindowAt(w + 1) = {v(0)}
  BY <1>3, <1>4, <1>5, <1>6
<1> QED BY <1>7, <1>8, FS_Singleton

(* The window stays where it is within a period and moves by one MAC at the *)
(* end of it, over the end of the octet's range as well.                    *)
THEOREM WindowMovesByOne == Spec => WindowSlides
<1> DEFINE Slide == LET turn == IF now' \div Period = now \div Period THEN 0 ELSE 1
                    IN  /\ Cardinality(Window' \ Window) = turn
                        /\ Cardinality(Window \ Window') = turn
<1>1. ASSUME IInv, [Next]_vars PROVE [Slide]_now
  <2> SUFFICES ASSUME now' # now PROVE Slide
    OBVIOUS
  <2>1. Tick
    BY <1>1 DEF Next, vars, MacOption, OptionExits, OptionsEnd, initIfaceInformation,
       Arguments_fixupOptions, Worker_init, ReadLine, Request, WorkerStep, Running
  <2>2. now \in Nat /\ now' = now + 1 /\ now' \in Nat /\ Period \in Nat \ {0}
    BY <1>1, <2>1, FakeMacAssumption DEF IInv, RunningOK, Tick
  <2> DEFINE w == now \div Period
             x == now' \div Period
  <2>3. Window = WindowAt(w) /\ Window' = WindowAt(x)
    BY <2>2, WindowNow DEF Window, Octet
  <2>4. w \in Nat /\ x \in Nat
    BY <2>2, Quotient
  <2>5. x = w \/ x = w + 1
    <3>1. now <= now' /\ now' <= now + Period
      BY <2>2
    <3> QED BY <2>2, <3>1, OneBoundary
  <2> HIDE DEF w, x
  <2>6. CASE x = w
    <3>1. Window' \ Window = {} /\ Window \ Window' = {}
      BY <2>3, <2>6
    <3> QED BY <2>6, <3>1, FS_EmptySet DEF w, x
  <2>7. CASE x = w + 1
    <3>1. x # w
      BY <2>4, <2>7
    <3>2. Cardinality(Window' \ Window) = 1 /\ Cardinality(Window \ Window') = 1
      BY <2>3, <2>4, <2>7, WindowMoves
    <3> QED BY <3>1, <3>2 DEF w, x
  <2> QED BY <2>5, <2>6, <2>7
<1> QED BY <1>1, InvHolds, PTL DEF Spec, WindowSlides
=============================================================================
