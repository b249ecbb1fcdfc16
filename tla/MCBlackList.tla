----------------------------- MODULE MCBlackList -----------------------------
(* Two-bit addresses and small sets of lines for the model checker.         *)
EXTENDS BlackList

MCBits == {0, 1}

(* Addresses 00 and 10, and the nets /0 and /1 that contain them. *)
Hosts == {[ip |-> {}, mask |-> NoMask], [ip |-> {1}, mask |-> NoMask]}
Nets  == {[ip |-> {}, mask |-> {}], [ip |-> {0, 1}, mask |-> {1}],
          [ip |-> {0}, mask |-> {1}]}
OddNets == {[ip |-> {}, mask |-> {0}], [ip |-> {}, mask |-> {1}]}

Make(h, neg, at, atmac, mac) ==
  [neg |-> neg, star |-> FALSE, ip |-> h.ip, mask |-> h.mask,
   at |-> at, atmac |-> atmac, mac |-> mac]

Star(neg, at, atmac) ==
  [neg |-> neg, star |-> TRUE, ip |-> {}, mask |-> NoMask,
   at |-> at, atmac |-> atmac, mac |-> NoMac]

Plain(hosts) == {Make(h, n, "NONE", NoMac, NoMac) : h \in hosts, n \in BOOLEAN}
Tagged(hosts, m) ==
  {Make(h, n, at, m, NoMac) : h \in hosts, n \in BOOLEAN,
                              at \in {"POSITIVE", "NEGATIVE"}}

CONSTANTS m1, m2

AllLines ==
  Plain(Hosts \cup Nets) \cup Tagged(Hosts \cup Nets, m1)
  \cup {Star(FALSE, "POSITIVE", m1), Star(FALSE, "POSITIVE", m2),
        Star(FALSE, "NEGATIVE", m1), Star(TRUE, "POSITIVE", m1)}
  \cup {Make([ip |-> {}, mask |-> NoMask], FALSE, "NONE", NoMac, RANDOM),
        Make([ip |-> {}, mask |-> NoMask], TRUE, "NONE", NoMac, m2)}

OddLines == Plain(OddNets)
=============================================================================
