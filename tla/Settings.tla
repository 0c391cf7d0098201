------------------------------- MODULE Settings -------------------------------
(***************************************************************************)
(* What survives from one launch of the program to the next: the .ini file *)
(* (internal/infrastructure/storage/settings.go), what NewService makes of *)
(* it (applyPersistedSettings), what the window makes of that              *)
(* (applyInitialSettings) and what it gives back (readPersistedSettings).  *)
(* The interfaces come from DiscoverInterfaces, asked once by the service  *)
(* and once more for the window.                                           *)
(*                                                                         *)
(* The module has no variables; AppWindow is built on it.                  *)
(***************************************************************************)
EXTENDS Naturals, SequencesExt, Orders

CONSTANTS
  NoName,        \* the empty interface name
  Themes,        \* light, dark and system, of which
  DefaultTheme,  \*   system
  Pairs,         \* complete pairs of user name and password
  NoPair,        \* one that lacks something
  Names,         \* interface names
  NameCut,       \* what is left of a name if its line is cut
  Systems        \* what the operating system may report: sets of Devices

MinPort == 1024
MaxPort == 65535
DefaultPort == 8080

ASSUME DefaultThemeKnown == DefaultTheme \in Themes
ASSUME NoNameOutside == NoName \notin Names
ASSUME NoPairOutside == NoPair \notin Pairs
ASSUME CutNamesKnown ==
  NameCut \in [Names \cup {NoName} -> SUBSET (Names \cup {NoName})]

PersistedSettings ==
  [name : Names \cup {NoName}, port : Nat, auth : BOOLEAN, theme : Themes]

DefaultPersistedSettings ==
  [name |-> NoName, port |-> DefaultPort, auth |-> FALSE, theme |-> DefaultTheme]

PortInRange(port) == port \in MinPort..MaxPort

-----------------------------------------------------------------------------
(* The file: the keys whose lines it has, each with what is written there. *)
(* A port is a numeral, 0 if it is none; a theme that is not one of Themes *)
(* is no theme.                                                            *)

Keys == <<"name", "port", "auth", "theme">>

NoFile == [key \in {} |-> NoName]

(* What a name is does not matter to the file, and whatever is no check    *)
(* mark is none.                                                           *)
IsFile(file) ==
  /\ "name" \in DOMAIN file => file["name"] \in Names \cup {NoName}
  /\ "auth" \in DOMAIN file => file["auth"] \in BOOLEAN

(* Save, which writes the lines in the order of Keys.                      *)
Save(settings) == [key \in Range(Keys) |-> settings[key]]

(* os.WriteFile empties the file before it writes.  If the disk is full or *)
(* the machine stops, there are the first lines and a piece of the next:   *)
(* for a port the first of its digits, for auth and theme nothing of use.  *)
Piece(key, value) ==
  CASE key = "name" -> NameCut[value]
    [] key = "port" -> {value \div 10, value \div 100, value \div 1000, 0}
    [] key = "auth" -> {FALSE}
    [] key = "theme" -> {NoName}

TornSaves(settings) ==
  LET Lines(n) == {Keys[i] : i \in 1..n} IN
  {[key \in Lines(n) |-> settings[key]] : n \in 0..3}
    \cup UNION {{[key \in Lines(n) |-> IF key = Keys[n] THEN piece ELSE settings[key]] :
                  piece \in Piece(Keys[n], settings[Keys[n]])} : n \in 1..4}

(* Load: a line that is missing or useless leaves the default.             *)
Load(file) ==
  LET read(key, useful(_)) ==
        IF key \in DOMAIN file /\ useful(file[key]) THEN file[key]
        ELSE DefaultPersistedSettings[key]
  IN [name  |-> read("name", LAMBDA v : TRUE),
      port  |-> read("port", PortInRange),
      auth  |-> read("auth", LAMBDA v : TRUE),
      theme |-> read("theme", LAMBDA v : v \in Themes)]

-----------------------------------------------------------------------------
(* The interfaces.                                                         *)

(* A device of the operating system, with its addresses.                   *)
Address == [ip : Nat, bits : 0..32, v4 : BOOLEAN, private : BOOLEAN]

Device == [index : Nat, name : Names, up : BOOLEAN, loopback : BOOLEAN,
           addresses : SUBSET Address]

(* There are finitely many, and each has an index of its own.               *)
ASSUME SystemsKnown ==
  \A system \in Systems :
    /\ IsFiniteSet(system) /\ system \subseteq Device
    /\ \A d \in system : IsFiniteSet(d.addresses)
    /\ \A d, e \in system : d.index = e.index => d = e

Eligible(device) == device.up /\ ~device.loopback

OfferedAddress(address) == address.v4 /\ address.private

(* sortAndDeduplicateInterfaces                                            *)
Before(a, b) ==
  \/ a.index < b.index
  \/ a.index = b.index /\ a.address.ip < b.address.ip
  \/ a.index = b.index /\ a.address.ip = b.address.ip /\ a.address.bits < b.address.bits

(* discoverInterfaceAddresses, of every eligible device                    *)
Offered(system) ==
  LET interfaces(device) ==
        {[index |-> device.index, name |-> device.name, address |-> a] :
           a \in {b \in device.addresses : OfferedAddress(b)}}
  IN UNION {interfaces(device) : device \in {d \in system : Eligible(d)}}

DiscoverInterfaces(system) ==
  LET found == Offered(system)
  IN InOrder(found, {p \in found \X found : Before(p[1], p[2])})

Enumerations == {DiscoverInterfaces(system) : system \in Systems}

(* Position of the first interface of that name, 0 if there is none.       *)
FirstNamed(list, name) == SelectInSeq(list, LAMBDA interface : interface.name = name)

-----------------------------------------------------------------------------
(* From the file to the form.                                              *)

RestoredFirst(settings, found) == IF found = <<>> THEN NoName ELSE found[1].name

(* NewService, applyPersistedSettings: the name that goes into the first   *)
(* snapshot.  The enumeration may fail, which is like finding nothing.     *)
RestoredName(settings, found) ==
  IF found = <<>> THEN NoName
  ELSE IF FirstNamed(found, settings.name) # 0 THEN settings.name ELSE found[1].name

RestoredPort(settings) == IF settings.port < MinPort THEN DefaultPort ELSE settings.port

SelectedOrNone(name, offered) == FirstNamed(offered, name)

(* applyInitialSettings: by name among the interfaces of the window, whose *)
(* list has been created with its first entry selected.                    *)
Selected(name, offered) ==
  IF FirstNamed(offered, name) # 0 THEN FirstNamed(offered, name)
  ELSE IF offered = <<>> THEN 0 ELSE 1

-----------------------------------------------------------------------------
(* From the form to the file, and to a configuration.                      *)

(* readPersistedSettings; ParsePort                                        *)
ReadPersistedSettings(offered, iface, port, auth, theme) ==
  [name |-> IF iface = 0 THEN NoName ELSE offered[iface].name,
   port |-> IF PortInRange(port) THEN port ELSE DefaultPort,
   auth |-> auth, theme |-> theme]

(* Config.Validate, of an interface.                                       *)
ValidInterface(interface) ==
  interface.name # NoName /\ interface.address.v4 /\ interface.address.private

(* ParseForm succeeds, with this configuration.                            *)
ValidForm(offered, iface, port, auth, pair) ==
  /\ iface # 0 /\ PortInRange(port)
  /\ ValidInterface(offered[iface])
  /\ auth => pair # NoPair

ParseForm(offered, iface, port, auth, pair) ==
  [interface |-> offered[iface], port |-> port, auth |-> auth,
   pair |-> IF auth THEN pair ELSE NoPair]
=============================================================================
