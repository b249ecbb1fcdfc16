------------------------------ MODULE BlackList ------------------------------
(***************************************************************************)
(* The list of blocked addresses of src/src/blacklist.c: how the lines of *)
(* the ipfile become the two sorted vectors ip_list and net_list, and what*)
(* BlackList_getMac finds in them for a query.                            *)
(*                                                                        *)
(* An IP address or netmask is the set of its one-bits, so `&' is the     *)
(* intersection.  A line is what is left of its text after the expansion  *)
(* of {..} ranges and the recognition of its parts; lines that do not even*)
(* have parts (comments, malformed addresses) leave no trace.             *)
(***************************************************************************)
EXTENDS Integers, Sequences, FiniteSets

CONSTANTS
  Bits,        \* bit positions of an address (32 in the code)
  MAC,         \* hardware addresses
  NoMac,       \* no hardware address given (a null pointer in a query)
  NoMask,      \* no netmask given
  RANDOM,      \* a random MAC, drawn when the query is answered
  DefaultMac,  \* --mac: RANDOM or a MAC
  Lines,       \* the lines a file may consist of
  MaxLines     \* bound of the model: lines per file

VARIABLES
  ip_list, net_list,  \* struct BlackList
  lines,              \* the lines read so far
  pc                  \* read, ready or failed

vars == <<ip_list, net_list, lines, pc>>

IPAddr == SUBSET Bits
Query == [ip : IPAddr, mac : MAC \cup {NoMac}]

(* A line: '!' or not, '*' or an address, the netmask, the @mac part (its   *)
(* sign and its MAC) and the MAC to answer with.                            *)
Line ==
  [neg : BOOLEAN, star : BOOLEAN, ip : IPAddr, mask : IPAddr \cup {NoMask},
   at : {"NONE", "NEGATIVE", "POSITIVE"}, atmac : MAC \cup {NoMac},
   mac : MAC \cup {RANDOM, NoMac}]

ASSUME BlackListAssumption ==
  /\ IsFiniteSet(Bits)
  /\ Lines \subseteq Line
  /\ DefaultMac \in MAC \cup {RANDOM}
  /\ NoMac \notin MAC \cup {RANDOM}
  /\ RANDOM \notin MAC

-----------------------------------------------------------------------------
(* BlackList_parseLine.  The combinations it refuses ...                    *)
Refused(l) ==
  \/ l.star /\ (l.neg \/ l.mask # NoMask \/ l.at # "POSITIVE")
  \/ l.neg /\ l.mac # NoMac

(* ... the MAC it stores, with BlackList_setDefaultMac ...                  *)
LineMac(l) == IF l.mac = NoMac /\ ~l.neg THEN DefaultMac ELSE l.mac

LineStatus(l) == IF l.neg THEN "IGNORE"
                 ELSE IF LineMac(l) = RANDOM THEN "RAND" ELSE "SET"

(* ... and the vector the entry goes to. *)
IsNet(l) == l.star \/ l.mask # NoMask

IPData(l) ==
  [ip |-> l.ip, status |-> LineStatus(l), mac |-> LineMac(l),
   at |-> l.at, atmac |-> l.atmac]

(* A plausible mistake: the host part of the address is kept. *)
FaultNetData(l) ==
  [ip |-> l.ip, mask |-> IF l.star THEN {} ELSE l.mask, no_ip |-> l.star,
   status |-> LineStatus(l), mac |-> LineMac(l), at |-> l.at, atmac |-> l.atmac]

NetData(l) ==
  LET mask == IF l.star THEN {} ELSE l.mask
  IN  [ip |-> l.ip \cap mask, mask |-> mask, no_ip |-> l.star,
       status |-> LineStatus(l), mac |-> LineMac(l),
       at |-> l.at, atmac |-> l.atmac]

-----------------------------------------------------------------------------
(* NetData_sortCompare: '*' entries first, then by mask bits, then by the   *)
(* kind of @mac part.  The final memcmp orders entries that agree in all    *)
(* this by their @mac, which is any order here.                             *)
AtRank(e) == CASE e.at = "POSITIVE" -> 2 [] e.at = "NEGATIVE" -> 1
               [] e.at = "NONE" -> 0

(* A plausible mistake: large nets first. *)
FaultBefore(a, b) == Cardinality(a.mask) < Cardinality(b.mask)

Before(a, b) ==
  \/ a.no_ip /\ ~b.no_ip
  \/ /\ a.no_ip = b.no_ip
     /\ \/ Cardinality(a.mask) > Cardinality(b.mask)
        \/ /\ Cardinality(a.mask) = Cardinality(b.mask)
           /\ AtRank(a) > AtRank(b)

(* The outcomes of Vector_sort: entries with the same @mac compare equal    *)
(* and stand together, everything else that compares equal in any order.    *)
Rearranged(s) == {[i \in DOMAIN s |-> s[p[i]]] :
                    p \in {f \in [DOMAIN s -> DOMAIN s] :
                             \A i, k \in DOMAIN s : f[i] = f[k] => i = k}}

SortedNets(s) ==
  {t \in Rearranged(s) :
     /\ \A i, k \in DOMAIN t : i < k => ~Before(t[k], t[i])
     /\ \A i, j, k \in DOMAIN t :
          /\ i < j /\ j < k
          /\ t[i].atmac = t[k].atmac
          /\ ~Before(t[i], t[k])
          => t[j].atmac = t[i].atmac}

(* ip_list is sorted by address only. *)
SortedIPs(s) ==
  {t \in Rearranged(s) :
     \A i, j, k \in DOMAIN t :
       i < j /\ j < k /\ t[i].ip = t[k].ip => t[j].ip = t[i].ip}

(* What IPData_uniqueCompare and NetData_uniqueCompare look at: they return *)
(* 0 if it is the same on both sides.  It is not the answer's MAC, nor an   *)
(* address' @mac, nor a net's mask beyond the number of its bits.           *)
IPKey(e) == <<e.status, e.ip>>

NetKey(e) ==
  <<e.status, e.ip, e.no_ip, Cardinality(e.mask), e.at, e.atmac>>

(* Vector_unique: of neighbours with the same key the first one stays. *)
Unique(s, key) ==
  LET keep[i \in 0 .. Len(s)] ==
        IF i = 0 THEN <<>>
        ELSE IF i > 1 /\ key[i] = key[i - 1] THEN keep[i - 1]
        ELSE Append(keep[i - 1], s[i])
  IN  keep[Len(s)]

-----------------------------------------------------------------------------
(* A plausible mistake: the owner of ip@!mac does not match, so the search  *)
(* goes on.                                                                 *)
FaultCompareAtMac(e, mac) ==
  IF e.at = "NONE" THEN "MATCH"
  ELSE IF mac = NoMac THEN "IGNORE"
  ELSE IF (e.atmac = mac) = (e.at = "POSITIVE") THEN "MATCH"
  ELSE "NOMATCH"

(* A plausible mistake: requests FOR an address are matched as well. *)
FaultCompareUnknown(e, mac) ==
  IF e.at = "NONE" \/ (e.atmac = mac) = (e.at = "POSITIVE") THEN "MATCH"
  ELSE IF e.atmac = mac /\ e.status # "IGNORE" THEN "IGNORE"
  ELSE "NOMATCH"

(* BlackList_compareAtMac for entry e and the MAC of the query. *)
BlackList_compareAtMac(e, mac) ==
  IF e.at = "NONE" THEN "MATCH"
  ELSE IF mac = NoMac THEN "IGNORE"
  ELSE IF (e.atmac = mac) = (e.at = "POSITIVE") THEN "MATCH"
  ELSE IF e.atmac = mac /\ e.status # "IGNORE" THEN "IGNORE"
  ELSE "NOMATCH"

Miss == [mac |-> NoMac, poison |-> NoMac]

(* A plausible mistake: the sign of the @mac part is forgotten. *)
FaultPoisonMac(e) == e.atmac

PoisonMac(e) == IF e.at = "NEGATIVE" THEN e.atmac ELSE NoMac

(* What an entry that does not fail to match makes of the query: nothing is *)
(* to be done, or a MAC to answer with and one to poison with.              *)
Outcome(e, q) ==
  IF BlackList_compareAtMac(e, q.mac) = "MATCH" /\ e.status # "IGNORE"
  THEN [mac |-> e.mac, poison |-> PoisonMac(e)]
  ELSE Miss

Decides(e, q) == BlackList_compareAtMac(e, q.mac) # "NOMATCH"

(* The entries Vector_search may return: any one with the address.  In a    *)
(* list that a failed reading has left unsorted it may also miss them.      *)
SearchIP(q) ==
  LET hits == {i \in DOMAIN ip_list : ip_list[i].ip = q.ip}
  IN  IF hits = {} \/ (pc = "failed" /\ Len(ip_list) > 1) THEN hits \cup {0} ELSE hits

(* The loop over net_list stops at the first entry that decides. *)
NetOutcome(q) ==
  LET hits == {k \in DOMAIN net_list :
                 /\ q.ip \cap net_list[k].mask = net_list[k].ip
                 /\ Decides(net_list[k], q)}
  IN  IF hits = {} THEN Miss
      ELSE Outcome(net_list[CHOOSE k \in hits : \A j \in hits : k <= j], q)

(* The possible results of BlackList_getMac. *)
BlackList_getMac(q) ==
  {IF i # 0 /\ Decides(ip_list[i], q) THEN Outcome(ip_list[i], q)
   ELSE NetOutcome(q) : i \in SearchIP(q)}

-----------------------------------------------------------------------------
(* BlackList_updateInternal: the vectors are cleared ... *)
Init ==
  /\ ip_list = <<>>
  /\ net_list = <<>>
  /\ lines = <<>>
  /\ pc = "read"

(* ... a line is read and parsed ... *)
ReadLine(l) ==
  /\ pc = "read"
  /\ Len(lines) < MaxLines
  /\ lines' = Append(lines, l)
  /\ ip_list' = IF Refused(l) \/ IsNet(l) THEN ip_list
                ELSE Append(ip_list, IPData(l))
  /\ net_list' = IF Refused(l) \/ ~IsNet(l) THEN net_list
                 ELSE Append(net_list, NetData(l))
  /\ UNCHANGED pc

(* ... until read() fails or a line is too long, which leaves the vectors   *)
(* as they are ...                                                          *)
ReadFails ==
  /\ pc = "read"
  /\ pc' = "failed"
  /\ UNCHANGED <<ip_list, net_list, lines>>

(* ... or the file ends: both are sorted and cleared of duplicates. *)
Finish ==
  /\ pc = "read"
  /\ \E s \in SortedIPs(ip_list) :
       ip_list' = Unique(s, [i \in DOMAIN s |-> IPKey(s[i])])
  /\ \E s \in SortedNets(net_list) :
       net_list' = Unique(s, [i \in DOMAIN s |-> NetKey(s[i])])
  /\ pc' = "ready"
  /\ UNCHANGED lines

Next == (\E l \in Lines : ReadLine(l)) \/ ReadFails \/ Finish

Spec == Init /\ [][Next]_vars

-----------------------------------------------------------------------------
(* The shape of the state; no net has address bits outside its mask. *)
TypeOK ==
  /\ lines \in Seq(Line)
  /\ \A i \in DOMAIN ip_list : ip_list[i].ip \in IPAddr
  /\ \A i \in DOMAIN net_list : net_list[i].ip \subseteq net_list[i].mask
  /\ pc \in {"read", "ready", "failed"}

(* The statements of the file that concern a query, ranked as the manual    *)
(* page ranks them where it does: more mask bits over fewer, an address     *)
(* over nets, a net with an @mac part over the same one without.  '*@mac'   *)
(* comes before the nets, which may not spare a host with that MAC; @mac    *)
(* before @!mac is the code's choice in what the page calls unspecified.    *)
Stated == {lines[i] : i \in {k \in DOMAIN lines : ~Refused(lines[k])}}

Concerns(l, q) == l.star \/ IF l.mask = NoMask THEN l.ip = q.ip
                            ELSE l.ip \cap l.mask = q.ip \cap l.mask

LineRank(l) ==
  AtRank(l) + 3 * (IF l.star THEN Cardinality(Bits) + 1
                   ELSE IF l.mask = NoMask THEN Cardinality(Bits) + 2
                   ELSE Cardinality(l.mask))

(* A statement with an @mac part speaks about senders: one with @mac only   *)
(* about those with that MAC, one with @!mac about those without it, whom   *)
(* it sets apart from the owner.  Nothing is done about requests FOR such   *)
(* an address.                                                              *)
Suspect(l, q) == l.at = "NONE" \/ (q.mac # NoMac /\ (l.at = "POSITIVE" <=> q.mac = l.atmac))
Spared(l, q) == l.at # "NONE" /\ (q.mac = NoMac \/ (l.at = "NEGATIVE" /\ ~l.neg))

Speaking(q) == {l \in Stated : Concerns(l, q) /\ (Suspect(l, q) \/ Spared(l, q))}
Foremost(q) == {l \in Speaking(q) :
                  \A o \in Speaking(q) : LineRank(o) <= LineRank(l)}

(* What the file says about a query that is not Disputed.  Statements of    *)
(* the same rank may conflict; the documentation leaves the choice open.    *)
Promised(q) ==
  IF Foremost(q) = {} THEN {Miss}
  ELSE {IF l.neg \/ ~Suspect(l, q) THEN Miss
        ELSE [mac    |-> IF l.mac = NoMac THEN DefaultMac ELSE l.mac,
              poison |-> IF l.at = "NEGATIVE" THEN l.atmac ELSE NoMac]
        : l \in Foremost(q)}

(* No address is given twice and no two nets have the same number of mask   *)
(* bits without having the same mask: the files for which sorting and       *)
(* removing duplicates loses nothing.                                       *)
PlainFile ==
  \A l, o \in Stated : l # o =>
    /\ ~IsNet(l) /\ ~IsNet(o) => l.ip # o.ip
    /\ /\ IsNet(l) /\ IsNet(o) /\ ~l.star /\ ~o.star
       /\ Cardinality(l.mask) = Cardinality(o.mask)
       => l.mask = o.mask

(* The queries about which the code and its documentation disagree:         *)
(* - another user of the address of ip@mac "will be ignored" (README and    *)
(*   manual page), where the code goes on to the nets,                      *)
(* - requests FOR an address of a net are answered in the README's example  *)
(*   with a '*@mac' line, the code answers none (RequestsForNetAnswered),   *)
(* - a host with the MAC of '*@mac' is blocked unless ip@mac matches        *)
(*   (manual page) or "everytime" (README), where any line with its address *)
(*   decides.                                                               *)
Disputed(q) ==
  LET own   == {l \in Stated : ~IsNet(l) /\ l.ip = q.ip}
      stars == {l \in Stated : l.star}
      Exact(l) == l.at = "POSITIVE" /\ l.atmac = q.mac /\ ~l.neg
  IN  \/ /\ q.mac # NoMac
         /\ \E l \in own : l.at = "POSITIVE" /\ l.atmac # q.mac /\ ~l.neg
      \/ q.mac = NoMac /\ own = {} /\ stars # {}
      \/ (\E s \in stars : s.atmac = q.mac) /\ (\E l \in own : ~Exact(l))

(* Sorting, removing duplicates, the binary search and the scan together    *)
(* answer every query that is not Disputed by the most specific statement   *)
(* that applies, whatever the order of the lines and however ties are       *)
(* sorted.                                                                  *)
MostSpecificDecides ==
  pc = "ready" /\ PlainFile =>
    \A q \in Query : ~Disputed(q) => BlackList_getMac(q) \subseteq Promised(q)

(* The rightful owner named by an address line ip@!mac is never answered    *)
(* with a fake, no matter which nets or '*' lines surround the line.        *)
OwnerIsSpared ==
  pc = "ready" /\ PlainFile =>
    \A l \in Stated : ~IsNet(l) /\ l.at = "NEGATIVE" /\ ~l.neg =>
      BlackList_getMac([ip |-> l.ip, mac |-> l.atmac]) = {Miss}

(* A MAC to poison with is the MAC of a rightful owner, and never that of   *)
(* the host that made the request; there is none without an answer.         *)
PoisonNamesOwner ==
  pc # "read" =>
    \A q \in Query : \A r \in BlackList_getMac(q) :
      r.poison # NoMac =>
        /\ r.mac # NoMac
        /\ q.mac \notin {NoMac, r.poison}
        /\ \E l \in Stated : l.at = "NEGATIVE" /\ l.atmac = r.poison

(* Whatever the lists look like, cut short and unsorted by a failed reading *)
(* or with contradicting lines, a query is only answered if some line that  *)
(* has been read blocks the address, for this sender.                       *)
AnswersHaveReason ==
  pc # "read" =>
    \A q \in Query : \A r \in BlackList_getMac(q) :
      r.mac # NoMac => \E l \in Stated : ~l.neg /\ Concerns(l, q) /\ Suspect(l, q)

-----------------------------------------------------------------------------
(* Statements of the documentation that the code does not bear out.         *)

(* README, example 2, on a file with "0.0.0.0/0", "!192.168.0.0/24" and     *)
(* "*@1:1:1:2:2:2": a request FOR an address of the blocked net is answered.*)
RequestsForNetAnswered ==
  pc = "ready" =>
    \A q \in Query : \A l \in Stated :
      /\ q.mac = NoMac
      /\ l.mask # NoMask /\ ~l.neg /\ l.at = "NONE" /\ Concerns(l, q)
      /\ \A o \in Stated : Concerns(o, q) => o = l \/ o.star
      => Miss \notin BlackList_getMac(q)

(* Manual page on net/mask: the IPs of each listed network are blocked,     *)
(* with any netmask (its example is 255.255.65.31).                         *)
EveryNetChecked ==
  pc = "ready" /\ (\A l \in Stated : IsNet(l) /\ ~l.neg /\ l.at = "NONE") =>
    \A q \in Query : (\E l \in Stated : Concerns(l, q)) =>
      Miss \notin BlackList_getMac(q)
=============================================================================
