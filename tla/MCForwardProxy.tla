--------------------------- MODULE MCForwardProxy ---------------------------
(***************************************************************************)
(* Instances of ForwardProxy: two public addresses of IPv4 and one of      *)
(* IPv6, a blocked one and one of the machine itself, under every spelling *)
(* that a resolver or a client may use.                                    *)
(***************************************************************************)
EXTENDS ForwardProxy

CONSTANTS v4, w4, v6, blocked, own, char

Plain(a) == [address |-> a, mapped |-> FALSE, zoned |-> FALSE]
Mapped(a) == [Plain(a) EXCEPT !.mapped = TRUE]
Zoned(a) == [Plain(a) EXCEPT !.zoned = TRUE]

MCAnswers ==
  BoundedSeq({Plain(v4), Mapped(v4), Plain(w4), Plain(v6), Plain(own)}, 3)
    \cup BoundedSeq({Plain(NoAddress), Plain(blocked), Mapped(own), Zoned(v6), Plain(v6)}, 2)

MCLiterals ==
  {Mapped(v4), [Mapped(w4) EXCEPT !.zoned = TRUE], Zoned(v6), Plain(blocked)}

(* The machine names its own address as a mapped one.                      *)
MCLocalSpellings == {Mapped(own)}

MCUser == <<char>>
MCPassword == <<Colon, char>>

Basic(s) == [basic |-> TRUE, decoded |-> s]

(* No value, the pair, the pair twice, another scheme, no colon, the wrong *)
(* password.                                                               *)
MCAuthValues ==
  {<<>>, <<Basic(<<char, Colon, Colon, char>>)>>,
   <<Basic(<<char, Colon, Colon, char>>), Basic(<<char, Colon, Colon, char>>)>>,
   <<[Basic(<<char, Colon, Colon, char>>) EXCEPT !.basic = FALSE]>>,
   <<Basic(<<char>>)>>, <<Basic(<<char, Colon, char>>)>>}

MCHeaders ==
  {[names |-> {"X-End"}, listed |-> {}],
   [names |-> {"Connection", "X-Hop", "X-End", "Proxy-Authenticate"},
    listed |-> {"X-Hop"}]}
=============================================================================
