----------------------------- MODULE SafeDialer -----------------------------
(***************************************************************************)
(* SafeDialer and PublicAddressPolicy (internal/infrastructure/network,    *)
(* dialer.go and policy.go): a destination is resolved once, the answer is *)
(* filtered, and the addresses that are left are tried one after another   *)
(* until one connects or the context ends.  One context with a timeout     *)
(* spans all of it.                                                        *)
(***************************************************************************)
EXTENDS Naturals, FiniteSets, SequencesExt, Orders

CONSTANTS
  Names,          \* host names that a resolver is asked about
  Literals,       \* hosts that are IP addresses themselves
  NoHost,         \* a host that parseDestination does not accept
  Addresses,      \* IP addresses, of which
  IPv4,           \*   those of version 4,
  Public,         \*   those in none of the blocked prefixes
  NoAddress,      \* the zero netip.Addr
  LocalSpellings, \* what the machine says its own addresses are
  Answers         \* answers a resolver may give: sequences of Spellings

(* A netip.Addr: an IPv4 address may be mapped into IPv6, and an address   *)
(* written as IPv6 may have a zone.                                        *)
Spellings == [address : Addresses \cup {NoAddress}, mapped : BOOLEAN, zoned : BOOLEAN]

ASSUME LiteralsAreSpellings == Literals \subseteq Spellings
ASSUME LocalsAreSpellings == LocalSpellings \subseteq Spellings
ASSUME AnswersAreSpellings == \A a \in Answers : a \in Seq(Spellings)
ASSUME OnlyIPv4IsMapped ==
  \A s \in Literals \cup LocalSpellings \cup UNION {ToSet(a) : a \in Answers} :
    /\ s.mapped => s.address \in IPv4
    /\ s.zoned => s.mapped \/ s.address \notin IPv4

VARIABLES
  dialPc,   \* "idle", "resolving", "trying", "dialing" or "returned"
  host,     \* what is resolved
  context,  \* "live" or "ended": by the timeout, or with the request
  answer,   \* the addresses that the host stands for
  left,     \* those allowed and not tried yet, in their order
  tried,    \* history: those a connection was attempted to
  open,     \* those a connection is open to
  outcome   \* what DialContext has returned

dialVars == <<dialPc, host, context, answer, left, tried, open, outcome>>

Hosts == Names \cup Literals \cup {NoHost}

Outcomes == {"none", "connection", "ErrInvalidDestination", "ErrResolutionFailed",
             "ErrNoAllowedAddresses", "ErrDialFailed"}

Init ==
  /\ dialPc = "idle" /\ host = NoHost /\ context = "live"
  /\ answer = <<>> /\ left = <<>> /\ tried = <<>>
  /\ open = {} /\ outcome = "none"

-----------------------------------------------------------------------------
(* The policy.                                                             *)

(* netip.Addr.Unmap; the zone is part of the IPv6 spelling.                *)
Unmap(s) == IF s.mapped THEN [s EXCEPT !.mapped = FALSE, !.zoned = FALSE] ELSE s

(* normalizedAddress, systemLocalAddresses                                 *)
LocalAddresses == {[Unmap(s) EXCEPT !.zoned = FALSE] : s \in LocalSpellings}

AllowForgetsLocal(s) == s.address \in Public /\ ~s.zoned

(* PublicAddressPolicy.Allow                                               *)
Allow(s) ==
  /\ s.address # NoAddress /\ ~s.zoned
  /\ Unmap(s).address \in Public
  /\ Unmap(s) \notin LocalAddresses

(* IPv4 comes first, otherwise it stays as it was.                         *)
IPv4First(found, usable) ==
  LET isIPv4(i) == Unmap(found[i]).address \in IPv4
      precedes(i, j) == IF isIPv4(i) <=> isIPv4(j) THEN i < j ELSE isIPv4(i)
      order == InOrder(usable, {p \in usable \X usable : precedes(p[1], p[2])})
  IN [k \in DOMAIN order |-> Unmap(found[order[k]])]

AllowedKeepsDuplicates(found) ==
  IPv4First(found, {i \in DOMAIN found : Allow(Unmap(found[i]))})

(* allowedAddresses: each the first time it is mentioned.                  *)
AllowedAddresses(found) ==
  IPv4First(found,
    {i \in DOMAIN found :
       /\ Allow(Unmap(found[i]))
       /\ \A j \in 1..i - 1 : Unmap(found[j]) # Unmap(found[i])})

-----------------------------------------------------------------------------
(* parseDestination: the port is an unsigned number of 16 bits, not zero.  *)
Parses(h, port) == h # NoHost /\ port \in 1..65535

Return(result) ==
  /\ dialPc' = "returned" /\ outcome' = result

DialContext(h, port) ==
  /\ dialPc = "idle"
  /\ host' = h
  /\ IF Parses(h, port)
       THEN dialPc' = "resolving" /\ UNCHANGED outcome
       ELSE Return("ErrInvalidDestination")
  /\ UNCHANGED <<context, answer, left, tried, open>>

(* Of a literal there is nothing to resolve.  The filter follows without a *)
(* wait in between.                                                        *)
Resolve ==
  /\ dialPc = "resolving"
  /\ \E found \in IF host \in Literals THEN {<<host>>} ELSE Answers :
       /\ answer' = found
       /\ left' = AllowedAddresses(found)
       /\ IF left' = <<>>
            THEN Return("ErrNoAllowedAddresses")
            ELSE dialPc' = "trying" /\ UNCHANGED outcome
  /\ UNCHANGED <<host, context, tried, open>>

ResolverFails ==
  /\ dialPc = "resolving" /\ host \notin Literals
  /\ Return("ErrResolutionFailed")
  /\ UNCHANGED <<host, context, answer, left, tried, open>>

(* The head of the loop: the context is looked at before every attempt.    *)
Try ==
  /\ dialPc = "trying"
  /\ IF left = <<>> \/ context = "ended"
       THEN Return("ErrDialFailed") /\ UNCHANGED <<left, tried>>
       ELSE /\ dialPc' = "dialing"
            /\ tried' = Append(tried, Head(left)) /\ left' = Tail(left)
            /\ UNCHANGED outcome
  /\ UNCHANGED <<host, context, answer, open>>

(* An attempt may succeed although the context has just ended.             *)
AttemptSucceeds ==
  /\ dialPc = "dialing"
  /\ open' = open \cup {Last(tried)}
  /\ Return("connection")
  /\ UNCHANGED <<host, context, answer, left, tried>>

AttemptLeavesOpen ==
  /\ dialPc = "dialing"
  /\ dialPc' = "trying"
  /\ open' \in {open, open \cup {Last(tried)}}
  /\ UNCHANGED <<host, context, answer, left, tried, outcome>>

(* Whatever connection comes with an error is closed on the spot.          *)
AttemptFails ==
  /\ dialPc = "dialing"
  /\ dialPc' = "trying"
  /\ UNCHANGED <<host, context, answer, left, tried, open, outcome>>

ContextEnds ==
  /\ dialPc \in {"resolving", "trying", "dialing"} /\ context = "live"
  /\ context' = "ended"
  /\ UNCHANGED <<dialPc, host, answer, left, tried, open, outcome>>

DialStep ==
  \/ Resolve \/ ResolverFails \/ Try
  \/ AttemptSucceeds \/ AttemptFails
  \/ ContextEnds

-----------------------------------------------------------------------------
DialTypeOK ==
  /\ dialPc \in {"idle", "resolving", "trying", "dialing", "returned"}
  /\ host \in Hosts /\ context \in {"live", "ended"}
  /\ answer \in Seq(Spellings) /\ left \in Seq(Spellings) /\ tried \in Seq(Spellings)
  /\ open \subseteq ToSet(tried)
  /\ outcome \in Outcomes
  /\ outcome # "none" <=> dialPc = "returned"

(* A connection is attempted only to addresses the destination stands for  *)
(* that are public and not the machine's own, under whatever spelling the  *)
(* resolver and the machine name them.                                     *)
OnlyAllowedDialed ==
  \A s \in ToSet(tried) :
    /\ s.address \in Public /\ ~s.zoned
    /\ \A own \in LocalSpellings : own.address # s.address
    /\ \E found \in ToSet(answer) : found.address = s.address

(* The dialer gives up on a live context only when it has tried every      *)
(* allowed address, each once and those of IPv4 first.                     *)
EveryAddressTried ==
  /\ outcome = "ErrDialFailed" /\ context = "live" =>
       {s.address : s \in ToSet(tried)}
         = {s.address : s \in {f \in ToSet(answer) : Allow(Unmap(f))}}
  /\ \A i, j \in DOMAIN tried :
       i < j => /\ tried[i].address # tried[j].address
                /\ tried[j].address \in IPv4 => tried[i].address \in IPv4

(* What DialContext returns is all that stays open.                        *)
NothingLeftOpen ==
  dialPc = "returned" =>
    open = IF outcome = "connection" THEN {Last(tried)} ELSE {}
=============================================================================
