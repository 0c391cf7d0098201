----------------------------- MODULE MCAppWindow -----------------------------
(***************************************************************************)
(* Instances of AppWindow: a machine with a wired and a wireless device,   *)
(* which have addresses of all sorts, and the same machine with nothing to *)
(* offer.                                                                  *)
(***************************************************************************)
EXTENDS AppWindow

IPv4(ip, bits) == [ip |-> ip, bits |-> bits, v4 |-> TRUE, private |-> TRUE]
Public == [ip |-> 3, bits |-> 24, v4 |-> TRUE, private |-> FALSE]
IPv6 == [ip |-> 9, bits |-> 32, v4 |-> FALSE, private |-> TRUE]

Dev(i, name, addresses) ==
  [index |-> i, name |-> name, up |-> TRUE, loopback |-> FALSE, addresses |-> addresses]

Loopback == [Dev(1, "lo", {IPv4(1, 8)}) EXCEPT !.loopback = TRUE]
Wired == Dev(2, "eth0", {Public, IPv6, IPv4(7, 24)})
Wireless == Dev(3, "wlan0", {Public, IPv4(6, 16)})

MCNames == {"lo", "eth0", "wlan0", "e"}
MCNameCut == [name \in MCNames \cup {""} |-> IF name \in {"", "e"} THEN {""} ELSE {"", "e"}]

MCSystems ==
  {{Loopback, Wired, Wireless}, {Loopback, [Wired EXCEPT !.up = FALSE]}}

(* None, one with a vanished name, one that was edited by hand.            *)
MCFiles ==
  {NoFile,
   [name |-> "e", port |-> 8080, auth |-> TRUE, theme |-> "light"],
   [name |-> "wlan0", port |-> 70000, theme |-> "neon"]}
=============================================================================
