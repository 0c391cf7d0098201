-------------------------- MODULE ForwardProxyProofs --------------------------
(***************************************************************************)
(* Theorems about ForwardProxy and the SafeDialer inside it, for any       *)
(* request, pair, resolver and ports.                                      *)
(*                                                                         *)
(* AllowedAddresses is an order of positions (InOrder), so that what it    *)
(* makes of an answer of any length needs no induction.  Tries then says   *)
(* that what was tried and what is left make up that list.                 *)
(***************************************************************************)
EXTENDS ForwardProxy, OrderProofs, SequenceTheorems, TLAPS

-----------------------------------------------------------------------------
(* The first colon                                                         *)

FirstColon(s) == SelectInSeq(s, LAMBDA ch : ch = Colon)

LEMMA FirstColonIsFirst ==
  ASSUME NEW s \in Seq(Characters)
  PROVE  \/ FirstColon(s) = 0 /\ \A i \in 1..Len(s) : s[i] # Colon
         \/ /\ FirstColon(s) \in 1..Len(s) /\ s[FirstColon(s)] = Colon
            /\ \A i \in 1..FirstColon(s) - 1 : s[i] # Colon
<1> DEFINE T == {i \in 1..Len(s) : s[i] = Colon}
<1>1. FirstColon(s) = IF T # {} THEN Min(T) ELSE 0
  BY DEF FirstColon, SelectInSeq
<1>2. CASE T = {}
  BY <1>1, <1>2
<1>3. CASE T # {}
  <2>1. Len(s) \in Nat /\ T \subseteq Nat
    OBVIOUS
  <2>2. Min(T) \in T /\ \A i \in T : Min(T) <= i
    BY <1>3, <2>1, MinIsFirst
  <2>3. \A i \in 1..Min(T) - 1 : i \in 1..Len(s) /\ i \notin T
    BY <2>1, <2>2
  <2> QED
    BY <1>1, <1>3, <2>2, <2>3
<1> QED
  BY <1>2, <1>3

(* Cut at its first colon, a value gives the pair if it is the pair, as    *)
(* long as the user name has no colon; and only then.                      *)
ParsesToPair(s) ==
  /\ FirstColon(s) # 0
  /\ SubSeq(s, 1, FirstColon(s) - 1) = User
  /\ SubSeq(s, FirstColon(s) + 1, Len(s)) = Password

Pair == User \o <<Colon>> \o Password

LEMMA OnlyThePair ==
  ASSUME NEW s \in Seq(Characters), ParsesToPair(s)
  PROVE  s = Pair
<1> DEFINE cut == FirstColon(s)
<1>1. cut \in 1..Len(s) /\ s[cut] = Colon /\ Len(s) \in Nat
  BY FirstColonIsFirst DEF ParsesToPair
<1> HIDE DEF cut
<1>2. SubSeq(s, 1, cut) = SubSeq(s, 1, cut - 1) \o <<s[cut]>>
  <2>1. 1 \in 1..Len(s) /\ cut \in 1..Len(s)
    BY <1>1
  <2> QED
    BY <2>1, SubSeqRecursiveSecond, Zenon
<1>3. SubSeq(s, 1, cut) \o SubSeq(s, cut + 1, Len(s)) = SubSeq(s, 1, Len(s))
  <2>1. 1 \in 1..Len(s) + 1 /\ cut \in 1 - 1..Len(s) /\ Len(s) \in cut..Len(s)
    BY <1>1
  <2> QED
    BY <2>1, ConcatAdjacentSubSeq, Zenon
<1>4. SubSeq(s, 1, Len(s)) = s
  BY SubSeqFull
<1> QED
  BY <1>1, <1>2, <1>3, <1>4 DEF ParsesToPair, Pair, cut

LEMMA ThePairParses ==
  ASSUME ~Contains(User, Colon)
  PROVE  Pair \in Seq(Characters) /\ ParsesToPair(Pair)
<1> USE PairKnown, ColonIsCharacter
<1> DEFINE n == Len(User) + 1
<1>1. Pair \in Seq(Characters) /\ Len(Pair) = n + Len(Password)
  BY ConcatProperties DEF Pair
<1>2. \A i \in 1..Len(User) : Pair[i] = User[i] /\ Pair[i] # Colon
  BY ConcatProperties DEF Pair, Contains
<1>3. Pair[n] = Colon /\ n \in 1..Len(Pair)
  BY ConcatProperties DEF Pair
<1> HIDE DEF n
<1>4. FirstColon(Pair) = n
  <2> DEFINE cut == FirstColon(Pair)
  <2>1. \/ cut = 0 /\ \A i \in 1..Len(Pair) : Pair[i] # Colon
        \/ /\ cut \in 1..Len(Pair) /\ Pair[cut] = Colon
           /\ \A i \in 1..cut - 1 : Pair[i] # Colon
    BY <1>1, FirstColonIsFirst
  <2> HIDE DEF cut
  <2>2. n = Len(User) + 1 /\ Len(User) \in Nat /\ Len(Password) \in Nat
    BY DEF n
  <2>3. cut # 0 /\ ~(cut > n)
    BY <1>1, <1>3, <2>1, <2>2
  <2>4. ~(cut < n)
    BY <1>1, <1>2, <2>1, <2>2, <2>3
  <2> QED
    BY <1>1, <2>1, <2>2, <2>3, <2>4 DEF cut
<1>5. SubSeq(Pair, 1, n - 1) = User
  BY <1>1, <1>2 DEF n
<1>6. SubSeq(Pair, n + 1, Len(Pair)) = Password
  <2>1. \A i \in 1..Len(Password) : Pair[n + i] = Password[i]
    BY ConcatProperties DEF Pair, n
  <2> DEFINE rest == SubSeq(Pair, n + 1, Len(Pair))
  <2>2. n \in Nat /\ Len(Password) \in Nat
    BY DEF n
  <2>3. \A i \in n + 1..Len(Pair) : Pair[i] \in Characters
    BY <1>1, <2>2
  <2>4. /\ rest \in Seq(Characters) /\ Len(rest) = Len(Password)
        /\ \A i \in 1..Len(Password) : rest[i] = Pair[n + 1 + i - 1]
    BY <1>1, <2>2, <2>3, SubSeqProperties
  <2> HIDE DEF rest
  <2>5. ASSUME NEW i \in 1..Len(Password) PROVE rest[i] = Password[i]
    <3>1. n + 1 + i - 1 = n + i
      BY <2>2
    <3> QED
      BY <2>1, <2>4, <3>1
  <2>6. rest = Password
    BY <2>4, <2>5, SeqEqual
  <2> QED
    BY <2>6 DEF rest
<1>7. n # 0
  BY <1>3
<1> QED
  BY <1>1, <1>4, <1>5, <1>6, <1>7, Zenon DEF ParsesToPair

(* The one value that a request has sent, if it is one.                    *)
Single == Len(request.auth) = 1

LEMMA SingleValue ==
  ASSUME request.auth \in Seq(AuthValue), Single
  PROVE  /\ request.auth[1].basic \in BOOLEAN
         /\ request.auth[1].decoded \in Seq(Characters)
         /\ {request.auth[i] : i \in DOMAIN request.auth} = {request.auth[1]}
<1>1. DOMAIN request.auth = {1} /\ request.auth[1] \in AuthValue
  BY DEF Single
<1> QED
  BY <1>1 DEF AuthValue

LEMMA AuthenticateParses ==
  Authenticate <=> \/ ~authEnabled
                   \/ Single /\ request.auth[1].basic /\ ParsesToPair(request.auth[1].decoded)
  BY Zenon DEF Authenticate, Single, ParsesToPair, FirstColon

LEMMA SentIsPair ==
  ASSUME request.auth \in Seq(AuthValue)
  PROVE  SentThePair <=> Single /\ request.auth[1].basic /\ request.auth[1].decoded = Pair
<1>1. SentThePair => Single
  BY DEF SentThePair, Single
<1>2. ASSUME Single
      PROVE  SentThePair <=> request.auth[1].basic /\ request.auth[1].decoded = Pair
  BY <1>2, SingleValue, Zenon DEF SentThePair, Pair, Single
<1> QED
  BY <1>1, <1>2, Zenon

(* Authenticate lets in who has sent the pair and, if the user name has no *)
(* colon, everyone who has.                                                *)
LEMMA AuthenticateExact ==
  ASSUME request.auth \in Seq(AuthValue)
  PROVE  /\ Authenticate /\ authEnabled => SentThePair
         /\ ~Contains(User, Colon) /\ SentThePair => Authenticate
<1>1. ASSUME Authenticate, authEnabled PROVE SentThePair
  <2>1. Single /\ request.auth[1].basic /\ ParsesToPair(request.auth[1].decoded)
    BY <1>1, AuthenticateParses, Zenon
  <2>2. request.auth[1].decoded = Pair
    BY <2>1, SingleValue, OnlyThePair, Zenon
  <2> QED
    BY <2>1, <2>2, SentIsPair, Zenon
<1>2. ASSUME ~Contains(User, Colon), SentThePair PROVE Authenticate
  <2>1. Single /\ request.auth[1].basic /\ request.auth[1].decoded = Pair
    BY <1>2, SentIsPair, Zenon
  <2>2. ParsesToPair(request.auth[1].decoded)
    BY <1>2, <2>1, ThePairParses, Zenon
  <2> QED
    BY <2>1, <2>2, AuthenticateParses, Zenon
<1> QED
  BY <1>1, <1>2

-----------------------------------------------------------------------------
(* What is dialed                                                          *)

(* The positions that count: the first ones of what is allowed.            *)
Usable(found) ==
  {i \in DOMAIN found :
     /\ Allow(Unmap(found[i]))
     /\ \A j \in 1..i - 1 : Unmap(found[j]) # Unmap(found[i])}

Precedes(found, i, j) ==
  LET isIPv4(k) == Unmap(found[k]).address \in IPv4
  IN IF isIPv4(i) <=> isIPv4(j) THEN i < j ELSE isIPv4(i)

Precedence(found, usable) == {p \in usable \X usable : Precedes(found, p[1], p[2])}

LEMMA PrecedenceIsStrict ==
  ASSUME NEW found, NEW usable \in SUBSET Nat
  PROVE  StrictOrder(usable, Precedence(found, usable))
<1>1. \A i, j \in usable : <<i, j>> \in Precedence(found, usable) <=> Precedes(found, i, j)
  BY DEF Precedence
<1>2. usable \subseteq Nat
  OBVIOUS
<1> QED
  BY <1>1, <1>2 DEF StrictOrder, Precedes

(* Every allowed address is at the first of the positions it has.          *)
LEMMA AllowedHasFirst ==
  ASSUME NEW found \in Seq(Spellings), NEW i \in DOMAIN found, Allow(Unmap(found[i]))
  PROVE  \E j \in Usable(found) : Unmap(found[j]) = Unmap(found[i])
<1> DEFINE T == {j \in DOMAIN found : Unmap(found[j]) = Unmap(found[i])}
<1>1. T \subseteq Nat /\ i \in T
  OBVIOUS
<1>2. Min(T) \in T /\ \A j \in T : Min(T) <= j
  BY <1>1, MinIsFirst, Zenon
<1>3. PICK k \in T : \A j \in T : k <= j
  BY <1>2, Zenon
<1>4. ASSUME NEW j \in 1..k - 1 PROVE Unmap(found[j]) # Unmap(found[k])
  <2>1. j \in 1..Len(found) /\ ~(k <= j)
    OBVIOUS
  <2>2. j \notin T
    BY <1>3, <2>1
  <2> QED
    BY <2>1, <2>2
<1> QED
  BY <1>3, <1>4 DEF Usable

LEMMA UnmapKnown ==
  ASSUME NEW s \in Spellings
  PROVE  /\ Unmap(s) \in Spellings /\ Unmap(s).address = s.address
         /\ Allow(Unmap(s)) =>
              /\ Unmap(s) = [address |-> s.address, mapped |-> FALSE, zoned |-> FALSE]
              /\ s.address \in Public
              /\ \A own \in LocalSpellings : own.address # s.address
<1>1. Unmap(s) \in Spellings /\ Unmap(s).address = s.address /\ Unmap(s).mapped = FALSE
  BY DEF Unmap, Spellings
<1>2. Unmap(Unmap(s)) = Unmap(s)
  BY <1>1 DEF Unmap
<1> DEFINE u == Unmap(s)
<1>3. ASSUME Allow(u)
      PROVE  /\ u = [address |-> s.address, mapped |-> FALSE, zoned |-> FALSE]
             /\ s.address \in Public
             /\ \A own \in LocalSpellings : own.address # s.address
  <2>1. ~u.zoned /\ Unmap(u).address \in Public /\ Unmap(u) \notin LocalAddresses
    BY <1>3 DEF Allow
  <2> HIDE DEF u
  <2>2. u = [address |-> s.address, mapped |-> FALSE, zoned |-> FALSE]
    BY <1>1, <2>1 DEF Spellings, u
  <2>3. s.address \in Public
    BY <1>1, <1>2, <2>1 DEF u
  <2>4. ASSUME NEW own \in LocalSpellings, own.address = s.address PROVE FALSE
    <3> DEFINE w == Unmap(own)
    <3>1. w \in Spellings /\ w.address = own.address /\ w.mapped = FALSE
      BY LocalsAreSpellings DEF Unmap, Spellings
    <3> HIDE DEF w
    <3>2. [w EXCEPT !.zoned = FALSE]
            = [address |-> own.address, mapped |-> FALSE, zoned |-> FALSE]
      <4>1. PICK v : v = [w EXCEPT !.zoned = FALSE]
        OBVIOUS
      <4>2. v = [address |-> own.address, mapped |-> FALSE, zoned |-> FALSE]
        BY <3>1, <4>1 DEF Spellings
      <4> QED
        BY <4>1, <4>2, Zenon
    <3>3. u = [Unmap(own) EXCEPT !.zoned = FALSE]
      BY <2>2, <2>4, <3>2, Zenon DEF w
    <3>4. u \in LocalAddresses
      BY <3>3, Zenon DEF LocalAddresses
    <3> QED
      BY <1>2, <2>1, <3>4 DEF u
  <2> QED
    BY <2>2, <2>3, <2>4
<1> QED
  BY <1>1, <1>3

(* What AllowedAddresses makes of an answer.                               *)
LEMMA AllowedAddressesCorrect ==
  ASSUME NEW found \in Seq(Spellings)
  PROVE  /\ AllowedAddresses(found) \in Seq(Spellings)
         /\ \A k \in 1..Len(AllowedAddresses(found)) : \E i \in DOMAIN found :
              AllowedAddresses(found)[k] = Unmap(found[i]) /\ Allow(Unmap(found[i]))
         /\ \A i \in DOMAIN found : Allow(Unmap(found[i])) =>
              \E k \in 1..Len(AllowedAddresses(found)) :
                AllowedAddresses(found)[k] = Unmap(found[i])
         /\ \A i, j \in 1..Len(AllowedAddresses(found)) : i < j =>
              /\ AllowedAddresses(found)[i] # AllowedAddresses(found)[j]
              /\ AllowedAddresses(found)[j].address \in IPv4
                   => AllowedAddresses(found)[i].address \in IPv4
<1> DEFINE usable == Usable(found)
           order == InOrder(usable, Precedence(found, usable))
           all == AllowedAddresses(found)
           n == Cardinality(usable)
<1>1. all = [k \in DOMAIN order |-> Unmap(found[order[k]])]
  BY DEF AllowedAddresses, IPv4First, Usable, Precedence, Precedes
<1>2. usable \subseteq 1..Len(found) /\ Len(found) \in Nat
  BY DEF Usable
<1>3. IsFiniteSet(usable) /\ usable \in SUBSET Nat
  <2>1. IsFiniteSet(1..Len(found))
    BY <1>2, FS_Interval
  <2> HIDE DEF usable
  <2>2. usable \in SUBSET (1..Len(found)) /\ usable \in SUBSET Nat
    BY <1>2
  <2> QED
    BY <2>1, <2>2, FS_Subset
<1>4. /\ order \in Seq(usable) /\ Len(order) = n
      /\ \A x \in usable : \E k \in 1..n : order[k] = x
      /\ \A i, j \in 1..n : i < j => <<order[i], order[j]>> \in Precedence(found, usable)
  <2> HIDE DEF usable
  <2> QED
    BY <1>3, PrecedenceIsStrict, InOrderIsSorted
<1>5. \A i \in usable :
        /\ i \in DOMAIN found /\ Allow(Unmap(found[i])) /\ Unmap(found[i]) \in Spellings
        /\ \A j \in usable : j < i => Unmap(found[j]) # Unmap(found[i])
  BY <1>2, UnmapKnown DEF Usable
<1>6. \A i \in DOMAIN found : Allow(Unmap(found[i])) =>
        \E j \in usable : Unmap(found[j]) = Unmap(found[i])
  BY AllowedHasFirst
<1> HIDE DEF usable, order, all, n
<1>7. n \in Nat /\ DOMAIN order = 1..n /\ \A k \in 1..n : order[k] \in usable
  BY <1>4
<1>8. all \in Seq(Spellings) /\ Len(all) = n /\ \A k \in 1..n : all[k] = Unmap(found[order[k]])
  BY <1>1, <1>5, <1>7
<1>9. \A k \in 1..n : \E i \in DOMAIN found : all[k] = Unmap(found[i]) /\ Allow(Unmap(found[i]))
  BY <1>5, <1>7, <1>8
<1>10. \A i \in DOMAIN found : Allow(Unmap(found[i])) => \E k \in 1..n : all[k] = Unmap(found[i])
  BY <1>4, <1>6, <1>8
<1>11. ASSUME NEW i \in 1..n, NEW j \in 1..n, i < j
       PROVE  all[i] # all[j] /\ (all[j].address \in IPv4 => all[i].address \in IPv4)
  <2>1. /\ order[i] \in usable /\ order[j] \in usable
        /\ Precedes(found, order[i], order[j])
    BY <1>4, <1>7, <1>11 DEF Precedence
  <2>2. order[i] \in Nat /\ order[j] \in Nat
    BY <1>3, <2>1
  <2> QED
    BY <1>5, <1>8, <2>1, <2>2 DEF Precedes
<1> QED
  BY <1>8, <1>9, <1>10, <1>11 DEF all

-----------------------------------------------------------------------------
(* One request                                                             *)

(* The dialer: when it has tried what, and what is open.                   *)
Dialer ==
  /\ outcome # "none" <=> dialPc = "returned"
  /\ dialPc \in {"idle", "resolving"} => tried = <<>>
  /\ outcome \in {"ErrInvalidDestination", "ErrNoAllowedAddresses"} => tried = <<>>
  /\ open = IF outcome = "connection" THEN {Last(tried)} ELSE {}

(* What has been tried and what is left are what the answer allows.        *)
Tries ==
  /\ answer \in Seq(Spellings) /\ tried \in Seq(Spellings) /\ left \in Seq(Spellings)
  /\ dialPc \in {"idle", "resolving"} => left = <<>>
  /\ dialPc \in {"trying", "dialing"} \/ tried # <<>> \/ outcome = "ErrDialFailed"
       => tried \o left = AllowedAddresses(answer)
  /\ outcome = "ErrDialFailed" /\ context = "live" => left = <<>>

(* What is known of a request once it is let through.                      *)
Granted ==
  /\ request.form \in {"absolute", "connect"} /\ Authenticate
  /\ request.form = "connect" => request.port \in ConnectPorts

(* The handlers: what the client has been told, and when not yet.          *)
Handler ==
  /\ request \in Requests
  /\ stage \in {"received", "dialing", "upstream", "tunnel", "answered"}
  /\ stage = "received" => dialPc = "idle"
  /\ stage \in {"received", "dialing", "upstream"} => response = NoResponse
  /\ stage \in {"dialing", "upstream", "tunnel"} => Granted
  /\ stage = "answered" /\ request.form # "origin" => (response.status = 407 <=> ~Authenticate)
  /\ stage \in {"upstream", "tunnel"} => outcome = "connection"
  /\ stage = "tunnel" => response.status = 200
  /\ tried # <<>> => Granted /\ response.status \notin {400, 403, 407}

(* The fields that have gone either way.                                   *)
Fields ==
  /\ forwarded \in {{}, SanitizeHeaders(RequestHeader)}
  /\ "Proxy-Authenticate" \in response.names <=> response.status = 407
  /\ response.status = 200 => response.names \cap HopByHop = {}

IInv == Dialer /\ Tries /\ Handler /\ Fields

LEMMA InitInv == HandlerInit => IInv
  BY DEF HandlerInit, Init, NoResponse, IInv, Dialer, Tries, Handler, Fields

(* The request itself does not change.                                     *)
LEMMA SameRequest ==
  UNCHANGED <<authEnabled, request>>
    => /\ Authenticate' <=> Authenticate
       /\ Granted' <=> Granted
       /\ SanitizeHeaders(RequestHeader)' = SanitizeHeaders(RequestHeader)
<1> SUFFICES ASSUME UNCHANGED <<authEnabled, request>>
             PROVE  /\ Authenticate' <=> Authenticate
                    /\ Granted' <=> Granted
                    /\ SanitizeHeaders(RequestHeader)' = SanitizeHeaders(RequestHeader)
  OBVIOUS
<1>1. authEnabled' = authEnabled /\ request' = request
  OBVIOUS
<1>2. Authenticate' <=> Authenticate
  BY <1>1 DEF Authenticate, SelectInSeq, Min
<1>3. Granted' <=> Granted
  BY <1>1, <1>2, Zenon DEF Granted
<1>4. SanitizeHeaders(RequestHeader)' = SanitizeHeaders(RequestHeader)
  BY <1>1, Zenon DEF SanitizeHeaders, RequestHeader, HopByHop
<1> QED
  BY <1>2, <1>3, <1>4

LEMMA TriesInv == ASSUME Dialer, Tries, DialStep PROVE Tries'
<1> USE DEF Dialer, Tries, Return
<1>1. CASE Resolve
  <2>1. PICK found \in IF host \in Literals THEN {<<host>>} ELSE Answers :
          /\ answer' = found /\ left' = AllowedAddresses(found)
          /\ IF left' = <<>> THEN Return("ErrNoAllowedAddresses")
             ELSE dialPc' = "trying" /\ UNCHANGED outcome
    BY <1>1 DEF Resolve
  <2>2. found \in Seq(Spellings)
    <3>1. ASSUME host \in Literals PROVE <<host>> \in Seq(Spellings)
      BY <3>1, LiteralsAreSpellings
    <3> QED
      BY <2>1, <3>1, AnswersAreSpellings, Zenon
  <2>3. AllowedAddresses(found) \in Seq(Spellings)
    BY <2>2, AllowedAddressesCorrect
  <2>4. tried = <<>> /\ tried' = tried /\ outcome = "none" /\ tried \o left' = left'
    BY <1>1, <2>1, <2>3 DEF Resolve
  <2> QED
    BY <2>1, <2>2, <2>3, <2>4
<1>2. CASE ResolverFails
  BY <1>2 DEF ResolverFails
<1>3. CASE Try
  <2>1. CASE left = <<>> \/ context = "ended"
    BY <1>3, <2>1 DEF Try
  <2>2. CASE ~(left = <<>> \/ context = "ended")
    <3>1. /\ tried' = Append(tried, Head(left)) /\ left' = Tail(left)
          /\ dialPc' = "dialing" /\ UNCHANGED <<answer, outcome, context>>
      BY <1>3, <2>2 DEF Try
    <3>2. Head(left) \in Spellings /\ tried' \in Seq(Spellings) /\ left' \in Seq(Spellings)
      BY <2>2, <3>1
    <3>3. tried' \o left' = tried \o left
      BY <2>2, <3>1, <3>2
    <3> QED
      BY <1>3, <3>1, <3>2, <3>3 DEF Try
  <2> QED
    BY <2>1, <2>2
<1>4. CASE AttemptSucceeds
  BY <1>4 DEF AttemptSucceeds
<1>5. CASE AttemptFails \/ ContextEnds
  BY <1>5 DEF AttemptFails, ContextEnds
<1> QED
  BY <1>1, <1>2, <1>3, <1>4, <1>5 DEF DialStep

LEMMA DialInv == IInv /\ Dial => IInv'
<1> SUFFICES ASSUME IInv, Dial PROVE IInv'
  OBVIOUS
<1>1. stage = "dialing" /\ UNCHANGED handlerVars
  BY DEF Dial
<1>2. Dialer'
  <2> USE DEF IInv, Dialer, Return
  <2>1. CASE Resolve
    BY <2>1 DEF Resolve
  <2>2. CASE ResolverFails
    BY <2>2 DEF ResolverFails
  <2>3. CASE Try
    BY <2>3 DEF Try
  <2>4. CASE AttemptSucceeds
    BY <2>4 DEF AttemptSucceeds
  <2>5. CASE AttemptFails \/ ContextEnds
    BY <2>5 DEF AttemptFails, ContextEnds
  <2> QED
    BY <2>1, <2>2, <2>3, <2>4, <2>5 DEF Dial, DialStep
<1>3. Handler' /\ Fields'
  BY <1>1, SameRequest DEF handlerVars, IInv, Handler, Fields, NoResponse
<1>4. Tries'
  BY TriesInv DEF Dial, IInv
<1> QED
  BY <1>2, <1>3, <1>4 DEF IInv

LEMMA StepInv == IInv /\ [Next]_vars => IInv'
<1> SUFFICES ASSUME IInv, [Next]_vars PROVE IInv'
  OBVIOUS
<1>1. UNCHANGED <<authEnabled, request>>
  BY DEF Next, vars, handlerVars, AnswerOrigin, OnRequest, HandleConnect, Refuse, Challenge,
         StartDialing, Respond, Dial, DialReturnsError, DialReturnsConnection, UpstreamAnswers,
         UpstreamFails
<1>11. ASSUME stage = "received",
              UNCHANGED dialVars \/ DialContext(request.host, request.port)
       PROVE  Tries'
  BY <1>11 DEF IInv, Dialer, Handler, Tries, DialContext, Return, dialVars
<1>12. ASSUME UNCHANGED dialVars PROVE Tries'
  BY <1>12 DEF IInv, Tries, dialVars
<1> USE <1>1, SameRequest DEF IInv, Dialer, Handler, Fields, NoResponse, Refuse, Challenge,
        StartDialing, DialContext, Respond, Return, Granted, dialVars
<1>2. CASE UNCHANGED vars
  BY <1>2, <1>12 DEF vars, handlerVars
<1>3. CASE AnswerOrigin
  BY <1>3, <1>12 DEF AnswerOrigin
<1>4. CASE OnRequest
  BY <1>4, <1>11 DEF OnRequest
<1>5. CASE HandleConnect
  BY <1>5, <1>11 DEF HandleConnect
<1>6. CASE Dial
  BY <1>6, DialInv
<1>7. CASE DialReturnsError
  BY <1>7, <1>12 DEF DialReturnsError, DialErrorStatus
<1>8. CASE DialReturnsConnection
  BY <1>8, <1>12 DEF DialReturnsConnection
<1>9. CASE UpstreamAnswers
  BY <1>9, <1>12 DEF UpstreamAnswers, SanitizeHeaders, HopByHop
<1>10. CASE UpstreamFails
  BY <1>10, <1>12 DEF UpstreamFails
<1> QED
  BY <1>2, <1>3, <1>4, <1>5, <1>6, <1>7, <1>8, <1>9, <1>10 DEF Next

LEMMA Invariant == Spec => []IInv
  BY InitInv, StepInv, PTL DEF Spec

-----------------------------------------------------------------------------
(* What follows from it                                                    *)

LEMMA RequestKnown ==
  ASSUME IInv
  PROVE  request.auth \in Seq(AuthValue)
  BY AuthValuesKnown DEF IInv, Handler, Requests

(* What DialContext returns is all that stays open, however many attempts  *)
(* it took and whenever the context ended.                                 *)
THEOREM NothingLeftOpenCorrect == Spec => []NothingLeftOpen
<1>1. IInv => NothingLeftOpen
  BY DEF IInv, Dialer, NothingLeftOpen
<1> QED
  BY <1>1, Invariant, PTL

(* A connection is attempted only to public addresses of the destination,  *)
(* never to one of the machine itself, whatever the resolver answers.      *)
THEOREM OnlyAllowedCorrect == Spec => []OnlyAllowedDialed
<1>1. ASSUME IInv PROVE OnlyAllowedDialed
  <2> USE DEF IInv, Tries
  <2> DEFINE all == AllowedAddresses(answer)
  <2>1. ASSUME NEW s \in ToSet(tried)
        PROVE  /\ s.address \in Public /\ ~s.zoned
               /\ \A own \in LocalSpellings : own.address # s.address
               /\ \E found \in ToSet(answer) : found.address = s.address
    <3>1. PICK k \in 1..Len(tried) : s = tried[k]
      BY <1>1, <2>1 DEF ToSet
    <3>2. all = tried \o left
      BY <1>1, <3>1
    <3>3. k \in 1..Len(all) /\ all[k] = s
      BY <1>1, <3>1, <3>2
    <3>4. PICK i \in DOMAIN answer : s = Unmap(answer[i]) /\ Allow(Unmap(answer[i]))
      BY <1>1, <3>3, AllowedAddressesCorrect
    <3>5. answer[i] \in Spellings /\ answer[i] \in ToSet(answer)
      BY <1>1 DEF ToSet
    <3> QED
      BY <3>4, <3>5, UnmapKnown
  <2> QED
    BY <2>1 DEF OnlyAllowedDialed
<1> QED
  BY <1>1, Invariant, PTL

(* On a live context the dialer fails only when every allowed address has  *)
(* been tried, each once and those of IPv4 first.                          *)
THEOREM EveryTriedCorrect == Spec => []EveryAddressTried
<1>1. ASSUME IInv PROVE EveryAddressTried
  <2> USE DEF IInv, Tries
  <2> DEFINE all == AllowedAddresses(answer)
             allowed == {f \in ToSet(answer) : Allow(Unmap(f))}
  <2>1. \A i \in DOMAIN answer : answer[i] \in Spellings /\ answer[i] \in ToSet(answer)
    BY <1>1 DEF ToSet
  <2>2. ASSUME NEW i \in 1..Len(all)
        PROVE  /\ all[i] \in {Unmap(f) : f \in allowed}
               /\ all[i] = [address |-> all[i].address, mapped |-> FALSE, zoned |-> FALSE]
    <3>1. PICK k \in DOMAIN answer : all[i] = Unmap(answer[k]) /\ Allow(Unmap(answer[k]))
      BY <1>1, AllowedAddressesCorrect
    <3>2. answer[k] \in allowed
      BY <2>1, <3>1
    <3> QED
      BY <2>1, <3>1, <3>2, UnmapKnown
  <2>3. ASSUME outcome = "ErrDialFailed", context = "live"
        PROVE  {s.address : s \in ToSet(tried)} = {s.address : s \in allowed}
    <3>1. left = <<>> /\ tried \o left = all
      BY <1>1, <2>3
    <3>2. tried = all
      BY <1>1, <3>1
    <3>3. ToSet(all) = {Unmap(f) : f \in allowed}
      <4>1. ASSUME NEW f \in allowed PROVE Unmap(f) \in ToSet(all)
        <5>1. PICK i \in DOMAIN answer : f = answer[i]
          BY DEF ToSet
        <5>2. \E k \in 1..Len(all) : all[k] = Unmap(f)
          BY <1>1, <5>1, AllowedAddressesCorrect
        <5> QED
          BY <1>1, <5>2, <3>2 DEF ToSet
      <4>2. ASSUME NEW s \in ToSet(all) PROVE s \in {Unmap(f) : f \in allowed}
        <5>1. PICK i \in 1..Len(all) : s = all[i]
          BY <1>1, <3>2 DEF ToSet
        <5> QED
          BY <2>2, <5>1, Zenon
      <4> QED
        BY <4>1, <4>2
    <3>4. \A f \in allowed : Unmap(f).address = f.address
      BY <1>1, UnmapKnown DEF ToSet
    <3> QED
      BY <3>2, <3>3, <3>4
  <2>4. ASSUME NEW i \in DOMAIN tried, NEW j \in DOMAIN tried, i < j
        PROVE  /\ tried[i].address # tried[j].address
               /\ tried[j].address \in IPv4 => tried[i].address \in IPv4
    <3>1. tried \o left = all
      BY <1>1, <2>4
    <3>2. /\ i \in 1..Len(all) /\ j \in 1..Len(all)
          /\ tried[i] = all[i] /\ tried[j] = all[j]
      BY <1>1, <3>1
    <3>3. all[i] # all[j] /\ (all[j].address \in IPv4 => all[i].address \in IPv4)
      BY <1>1, <2>4, <3>2, AllowedAddressesCorrect
    <3> HIDE DEF all
    <3> QED
      BY <2>2, <3>2, <3>3
  <2> QED
    BY <2>3, <2>4 DEF EveryAddressTried
<1> QED
  BY <1>1, Invariant, PTL

(* The configured pair is let in, colons in the password included, and     *)
(* nothing else is.                                                        *)
THEOREM ChallengedCorrect == Spec => []ChallengedUnlessAuthenticated
<1>1. ASSUME IInv PROVE ChallengedUnlessAuthenticated
  <2> SUFFICES ASSUME ~Contains(User, Colon), stage # "received", request.form # "origin"
               PROVE  response.status = 407 <=> authEnabled /\ ~SentThePair
    BY DEF ChallengedUnlessAuthenticated
  <2>1. Authenticate <=> (authEnabled => SentThePair)
    BY <1>1, RequestKnown, AuthenticateExact, AuthenticateParses, Zenon
  <2>2. response.status = 407 <=> ~Authenticate
    BY <1>1 DEF IInv, Handler, Granted, NoResponse
  <2> QED
    BY <2>1, <2>2
<1> QED
  BY <1>1, Invariant, PTL

(* Nobody is dialed for a request that is refused.                         *)
THEOREM OnlyServedCorrect == Spec => []OnlyServedRequestsDial
<1>1. ASSUME IInv PROVE OnlyServedRequestsDial
  <2>1. Authenticate /\ authEnabled => SentThePair
    BY <1>1, RequestKnown, AuthenticateExact, Zenon
  <2> QED
    BY <1>1, <2>1 DEF IInv, Handler, Granted, OnlyServedRequestsDial
<1> QED
  BY <1>1, Invariant, PTL

(* No field of one connection gets to the other.                           *)
THEOREM HopByHopCorrect == Spec => []HopByHopEndsHere
<1>1. ASSUME IInv PROVE HopByHopEndsHere
  <2> DEFINE sent == SanitizeHeaders(RequestHeader)
  <2>1. request.header = [names |-> request.header.names, listed |-> request.header.listed]
    BY <1>1, HeadersKnown DEF IInv, Handler, Requests
  <2>2. /\ RequestHeader.listed = request.header.listed
        /\ "Connection" \in request.header.names => "Connection" \in RequestHeader.names
    BY <2>1 DEF RequestHeader
  <2>3. /\ sent \cap HopByHop = {}
        /\ "Connection" \in request.header.names => sent \cap request.header.listed = {}
    BY <2>2 DEF SanitizeHeaders
  <2> QED
    BY <1>1, <2>3 DEF IInv, Fields, HopByHopEndsHere
<1> QED
  BY <1>1, Invariant, PTL

-----------------------------------------------------------------------------
(* Types                                                                   *)

Types ==
  /\ dialPc \in {"idle", "resolving", "trying", "dialing", "returned"}
  /\ host \in Hosts /\ context \in {"live", "ended"} /\ outcome \in Outcomes
  /\ dialPc = "dialing" \/ outcome = "connection" => tried # <<>>
  /\ authEnabled \in BOOLEAN
  /\ response.status \in {0, 200, 400, 403, 407, 502}

LEMMA TypesStep == IInv /\ Types /\ [Next]_vars => Types'
<1> SUFFICES ASSUME IInv, Types, [Next]_vars PROVE Types'
  OBVIOUS
<1> USE DEF Types, Outcomes
<1>1. CASE UNCHANGED vars
  BY <1>1 DEF vars, dialVars, handlerVars
<1>2. CASE Dial
  <2> USE DEF Return
  <2>1. UNCHANGED handlerVars
    BY <1>2 DEF Dial
  <2>2. CASE Resolve
    BY <2>1, <2>2 DEF Resolve, handlerVars
  <2>3. CASE ResolverFails
    BY <2>1, <2>3 DEF ResolverFails, handlerVars
  <2>4. CASE Try
    <3>1. tried \in Seq(Spellings) => Append(tried, Head(left)) # <<>>
      OBVIOUS
    <3> QED
      BY <2>1, <2>4, <3>1 DEF Try, handlerVars, IInv, Tries
  <2>5. CASE AttemptSucceeds \/ AttemptFails \/ ContextEnds
    BY <2>1, <2>5 DEF AttemptSucceeds, AttemptFails, ContextEnds, handlerVars
  <2> QED
    BY <1>2, <2>2, <2>3, <2>4, <2>5 DEF Dial, DialStep
<1>3. CASE OnRequest \/ HandleConnect
  <2>1. request.host \in Hosts
    BY DEF IInv, Handler, Requests
  <2> QED
    BY <1>3, <2>1 DEF OnRequest, HandleConnect, StartDialing, DialContext, Return, Refuse,
                      Challenge, Respond, dialVars
<1>4. CASE AnswerOrigin \/ UpstreamFails \/ UpstreamAnswers
  BY <1>4 DEF AnswerOrigin, UpstreamFails, UpstreamAnswers, Refuse, Respond, dialVars
<1>5. CASE DialReturnsError \/ DialReturnsConnection
  BY <1>5 DEF DialReturnsError, DialReturnsConnection, DialErrorStatus, Refuse, Respond, dialVars
<1> QED
  BY <1>1, <1>2, <1>3, <1>4, <1>5 DEF Next

(* Every variable keeps its type, and a connection that is open is one     *)
(* that was attempted.                                                     *)
THEOREM TypeCorrect == Spec => []TypeOK
<1>1. HandlerInit => Types
  BY DEF HandlerInit, Init, Types, Hosts, Outcomes, NoResponse
<1>2. ASSUME IInv, Types PROVE TypeOK
  <2>1. tried # <<>> => Last(tried) \in ToSet(tried)
    <3>1. ASSUME tried # <<>> PROVE Len(tried) \in 1..Len(tried)
      BY <1>2, <3>1 DEF IInv, Tries
    <3> QED
      BY <1>2, <3>1 DEF IInv, Tries, Last, ToSet
  <2>2. DialTypeOK
    BY <1>2, <2>1 DEF IInv, Types, Dialer, Tries, DialTypeOK
  <2> QED
    BY <1>2, <2>2 DEF IInv, Types, Handler, TypeOK
<1> QED
  BY <1>1, <1>2, TypesStep, Invariant, PTL DEF Spec
=============================================================================
