---------------------------- MODULE ForwardProxy ----------------------------
(***************************************************************************)
(* What the proxy does with one request: newForwardProxy of                *)
(* internal/infrastructure/network/server.go with auth.go and headers.go,  *)
(* around the SafeDialer.  goproxy, which calls these handlers, and        *)
(* http.Transport appear as far as the handlers rely on them; requests     *)
(* share nothing that changes.                                             *)
(***************************************************************************)
EXTENDS SafeDialer

CONSTANTS
  Characters,      \* of which a user name and a password are sequences
  User, Password,  \* the configured pair
  Colon,           \* the character that separates them
  AuthValues,      \* the Proxy-Authorization values a request may have
  Headers,         \* the other fields a request or an answer may have
  Ports,           \* ports a request may name
  ConnectPorts     \* those a tunnel may lead to

ASSUME PairKnown == User \in Seq(Characters) /\ Password \in Seq(Characters)
ASSUME ColonIsCharacter == Colon \in Characters

(* A value: is it Basic with a canonical encoding, and of what?            *)
AuthValue == [basic : BOOLEAN, decoded : Seq(Characters)]

ASSUME AuthValuesKnown == \A values \in AuthValues : values \in Seq(AuthValue)

(* Which fields there are, and which of them Connection lists.             *)
ASSUME HeadersKnown == \A h \in Headers : h = [names |-> h.names, listed |-> h.listed]

VARIABLES
  authEnabled,  \* config.AuthEnabled
  request,
  stage,      \* "received", "dialing", "upstream", "tunnel" or "answered"
  forwarded,  \* the fields of what goes upstream
  response    \* the status and the fields that the client gets

handlerVars == <<authEnabled, request, stage, forwarded, response>>
vars == <<dialVars, handlerVars>>

(* The form of the request line: a path, an absolute URL with or without   *)
(* the scheme http and a host name, or CONNECT.                            *)
Forms == {"origin", "foreign", "absolute", "connect"}

Requests == [form : Forms, host : Hosts, port : Ports, auth : AuthValues, header : Headers]

NoResponse == [status |-> 0, names |-> {}]

HandlerInit ==
  /\ Init
  /\ authEnabled \in BOOLEAN
  /\ request \in Requests
  /\ stage = "received" /\ forwarded = {} /\ response = NoResponse

-----------------------------------------------------------------------------
AuthenticateLastColon ==
  LET values == request.auth IN
  \/ ~authEnabled
  \/ /\ Len(values) = 1 /\ values[1].basic
     /\ LET pair == values[1].decoded
            cut == SelectLastInSeq(pair, LAMBDA ch : ch = Colon)
        IN /\ cut # 0
           /\ SubSeq(pair, 1, cut - 1) = User
           /\ SubSeq(pair, cut + 1, Len(pair)) = Password

(* BasicAuthenticator.Authenticate: exactly one value, cut at its first    *)
(* colon.                                                                  *)
Authenticate ==
  LET values == request.auth IN
  \/ ~authEnabled
  \/ /\ Len(values) = 1 /\ values[1].basic
     /\ LET pair == values[1].decoded
            cut == SelectInSeq(pair, LAMBDA ch : ch = Colon)
        IN /\ cut # 0
           /\ SubSeq(pair, 1, cut - 1) = User
           /\ SubSeq(pair, cut + 1, Len(pair)) = Password

HopByHop ==
  {"Connection", "Proxy-Connection", "Keep-Alive", "Proxy-Authenticate",
   "Proxy-Authorization", "TE", "Trailer", "Transfer-Encoding", "Upgrade"}

SanitizeFixedNames(header) == header.names \ HopByHop

(* SanitizeHeaders: the hop-by-hop fields, and those Connection lists.     *)
SanitizeHeaders(header) ==
  header.names
    \ (HopByHop \cup (IF "Connection" \in header.names THEN header.listed ELSE {}))

RequestHeader ==
  IF request.auth = <<>> THEN request.header
  ELSE [request.header EXCEPT !.names = @ \cup {"Proxy-Authorization"}]

-----------------------------------------------------------------------------
Respond(status, names) ==
  /\ stage' = "answered"
  /\ response' = [status |-> status, names |-> names]
  /\ UNCHANGED <<authEnabled, request, forwarded>>

(* newStatusResponse, writeStatusResponse                                  *)
Refuse(status) == Respond(status, {"Content-Type"}) /\ UNCHANGED dialVars

(* NewProxyAuthenticationRequiredResponse; marked as local, it is passed   *)
(* on as it is.                                                            *)
Challenge == Respond(407, {"Proxy-Authenticate"}) /\ UNCHANGED dialVars

(* NonproxyHandler                                                         *)
AnswerOrigin ==
  /\ stage = "received" /\ request.form = "origin"
  /\ Refuse(400)

StartDialing(names) ==
  /\ stage' = "dialing" /\ forwarded' = names
  /\ DialContext(request.host, request.port)
  /\ UNCHANGED <<authEnabled, request, response>>

(* OnRequest, and validHTTPProxyRequest                                    *)
OnRequest ==
  /\ stage = "received" /\ request.form \in {"absolute", "foreign"}
  /\ \/ ~Authenticate /\ Challenge
     \/ Authenticate /\ request.form = "foreign" /\ Refuse(400)
     \/ Authenticate /\ request.form = "absolute"
          /\ StartDialing(SanitizeHeaders(RequestHeader))

HandleConnectAnyPort ==
  /\ stage = "received" /\ request.form = "connect"
  /\ \/ ~Authenticate /\ Challenge
     \/ Authenticate /\ ~Parses(request.host, request.port) /\ Refuse(400)
     \/ Authenticate /\ Parses(request.host, request.port) /\ StartDialing({})

(* HandleConnectFunc: a tunnel passes no fields on.                        *)
HandleConnect ==
  /\ stage = "received" /\ request.form = "connect"
  /\ \/ ~Authenticate /\ Challenge
     \/ Authenticate /\ ~Parses(request.host, request.port) /\ Refuse(400)
     \/ /\ Authenticate /\ Parses(request.host, request.port)
        /\ request.port \notin ConnectPorts /\ Refuse(403)
     \/ /\ Authenticate /\ Parses(request.host, request.port)
        /\ request.port \in ConnectPorts /\ StartDialing({})

Dial == stage = "dialing" /\ DialStep /\ UNCHANGED handlerVars

(* safeDialErrorStatus                                                     *)
DialErrorStatus ==
  IF outcome \in {"ErrInvalidDestination", "ErrNoAllowedAddresses"} THEN 403 ELSE 502

(* OnResponse without a response, and ConnectionErrHandler                 *)
DialReturnsError ==
  /\ stage = "dialing" /\ dialPc = "returned" /\ outcome # "connection"
  /\ Refuse(DialErrorStatus)

DialReturnsConnection ==
  /\ stage = "dialing" /\ outcome = "connection"
  /\ IF request.form = "connect"
       THEN stage' = "tunnel" /\ response' = [status |-> 200, names |-> {}]
       ELSE stage' = "upstream" /\ UNCHANGED response
  /\ UNCHANGED <<dialVars, authEnabled, request, forwarded>>

(* OnResponse: an answer from upstream is cleaned, too.                    *)
UpstreamAnswers ==
  /\ stage = "upstream"
  /\ \E header \in Headers : Respond(200, SanitizeHeaders(header))
  /\ UNCHANGED dialVars

UpstreamFails ==
  /\ stage = "upstream"
  /\ Refuse(502)

Next ==
  \/ AnswerOrigin \/ OnRequest \/ HandleConnect
  \/ Dial \/ DialReturnsError \/ DialReturnsConnection
  \/ UpstreamAnswers \/ UpstreamFails

Spec == HandlerInit /\ [][Next]_vars

-----------------------------------------------------------------------------
TypeOK ==
  /\ DialTypeOK
  /\ authEnabled \in BOOLEAN /\ request \in Requests
  /\ stage \in {"received", "dialing", "upstream", "tunnel", "answered"}
  /\ stage = "received" => dialPc = "idle"
  /\ stage \in {"upstream", "tunnel"} => outcome = "connection"
  /\ response.status \in {0, 200, 400, 403, 407, 502}

(* The client has sent the configured pair, once.                          *)
SentThePair ==
  \E value \in {request.auth[i] : i \in DOMAIN request.auth} :
    /\ Len(request.auth) = 1
    /\ value.basic /\ value.decoded = User \o <<Colon>> \o Password

(* Whoever sends the configured pair, and no one else, is let in; a        *)
(* password may contain colons.                                            *)
ChallengedUnlessAuthenticated ==
  ~Contains(User, Colon) /\ stage # "received" /\ request.form # "origin" =>
    (response.status = 407 <=> authEnabled /\ ~SentThePair)

(* No connection is attempted for a request that is refused, nor before it *)
(* is known that it will not be: no attempt without authentication, none   *)
(* to a port that CONNECT may not name, and none of which the client is    *)
(* told that it was forbidden.                                             *)
OnlyServedRequestsDial ==
  tried # <<>> =>
    /\ request.form \in {"absolute", "connect"} /\ (authEnabled => SentThePair)
    /\ request.form = "connect" => request.port \in ConnectPorts
    /\ response.status \notin {400, 403, 407}

(* Fields that belong to one connection do not cross the proxy in either   *)
(* direction, those that Connection names included, and the challenge that *)
(* a client sees is the proxy's own.                                       *)
HopByHopEndsHere ==
  /\ forwarded \intersect HopByHop = {}
  /\ "Connection" \in request.header.names => forwarded \intersect request.header.listed = {}
  /\ "Proxy-Authenticate" \in response.names <=> response.status = 407
  /\ response.status = 200 => response.names \intersect HopByHop = {}
=============================================================================
