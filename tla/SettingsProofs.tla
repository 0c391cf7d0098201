---------------------------- MODULE SettingsProofs ----------------------------
(***************************************************************************)
(* What the operators of Settings yield, for any system, file and form:    *)
(* DiscoverInterfaces lists exactly what is offered, in its order; Load    *)
(* repairs whatever a file says and undoes Save; a new window's form is    *)
(* one that can be started.                                                *)
(***************************************************************************)
EXTENDS Settings, OrderProofs

-----------------------------------------------------------------------------
(* The interfaces                                                          *)

Interface == [index : Nat, name : Names, address : Address]

LEMMA OfferedKnown ==
  ASSUME NEW system \in Systems, NEW i \in Offered(system)
  PROVE  /\ i \in Interface /\ OfferedAddress(i.address)
         /\ \E d \in system : Eligible(d) /\ d.index = i.index /\ d.name = i.name
<1>1. PICK d \in system : Eligible(d)
        /\ \E a \in d.addresses : OfferedAddress(a)
             /\ i = [index |-> d.index, name |-> d.name, address |-> a]
  BY DEF Offered
<1>2. d \in Device
  BY SystemsKnown
<1> QED
  BY <1>1, <1>2 DEF Device, Interface

LEMMA OfferedIsFinite ==
  ASSUME NEW system \in Systems
  PROVE  IsFiniteSet(Offered(system))
<1> DEFINE eligible == {d \in system : Eligible(d)}
           usable(d) == {b \in d.addresses : OfferedAddress(b)}
           interface(d, a) == [index |-> d.index, name |-> d.name, address |-> a]
           interfaces(d) == {interface(d, a) : a \in usable(d)}
           F == [d \in eligible |-> interfaces(d)]
           T == {interfaces(d) : d \in eligible}
<1>1. eligible \in SUBSET system /\ IsFiniteSet(system)
  BY SystemsKnown
<1>2. IsFiniteSet(eligible)
  BY <1>1, FS_Subset
<1>3. ASSUME NEW d \in eligible PROVE IsFiniteSet(interfaces(d))
  <2> DEFINE G == [a \in usable(d) |-> interface(d, a)]
  <2>1. usable(d) \in SUBSET d.addresses /\ IsFiniteSet(d.addresses)
    BY SystemsKnown
  <2>2. IsFiniteSet(usable(d))
    BY <2>1, FS_Subset
  <2> HIDE DEF usable, interface
  <2>3. G \in Surjection(usable(d), interfaces(d))
    BY DEF Surjection
  <2> HIDE DEF interfaces, G
  <2> QED
    BY <2>2, <2>3, FS_Surjection
<1> HIDE DEF interfaces, eligible
<1>4. F \in Surjection(eligible, T)
  BY DEF Surjection
<1>5. IsFiniteSet(T)
  <2> HIDE DEF F, T
  <2> QED
    BY <1>2, <1>4, FS_Surjection
<1>6. \A t \in T : IsFiniteSet(t)
  BY <1>3
<1>7. Offered(system) = UNION T
  BY DEF Offered, interfaces, usable, interface, eligible
<1> HIDE DEF T
<1> QED
  BY <1>5, <1>6, <1>7, FS_UNION

Sorting(S) == {p \in S \X S : Before(p[1], p[2])}

LEMMA SortingIsStrict ==
  ASSUME NEW system \in Systems
  PROVE  StrictOrder(Offered(system), Sorting(Offered(system)))
<1> DEFINE S == Offered(system)
<1>1. \A i, j \in S : <<i, j>> \in Sorting(S) <=> Before(i, j)
  BY DEF Sorting
<1>2. ASSUME NEW i \in S
      PROVE  /\ i = [index |-> i.index, name |-> i.name, address |-> i.address]
             /\ i.address = [ip |-> i.address.ip, bits |-> i.address.bits,
                             v4 |-> TRUE, private |-> TRUE]
             /\ i.index \in Nat /\ i.address.ip \in Nat /\ i.address.bits \in Nat
  <2>1. i \in Interface /\ OfferedAddress(i.address)
    BY OfferedKnown
  <2>2. i.address \in Address /\ i.address.v4 = TRUE /\ i.address.private = TRUE
    BY <2>1 DEF Interface, Address, OfferedAddress
  <2> QED
    BY <2>1, <2>2 DEF Interface, Address
<1>3. \A i, j \in S : i.index = j.index => i.name = j.name
  BY OfferedKnown, SystemsKnown
<1> HIDE DEF S
<1>4. \A i \in S : i.index \in Nat /\ i.address.ip \in Nat /\ i.address.bits \in Nat
  BY <1>2
<1>5. /\ \A i \in S : ~Before(i, i)
      /\ \A i, j, k \in S : Before(i, j) /\ Before(j, k) => Before(i, k)
  BY <1>4 DEF Before
<1>6. ASSUME NEW i \in S, NEW j \in S, ~Before(i, j), ~Before(j, i) PROVE i = j
  <2>1. /\ i.index = j.index /\ i.address.ip = j.address.ip
        /\ i.address.bits = j.address.bits
    BY <1>4, <1>6 DEF Before
  <2>2. i.address = j.address /\ i.name = j.name
    BY <1>2, <1>3, <2>1
  <2> QED
    BY <1>2, <2>1, <2>2
<1>7. StrictOrder(S, Sorting(S))
  BY <1>1, <1>5, <1>6 DEF StrictOrder
<1> QED
  BY <1>7 DEF S

(* The list has every private IPv4 address of a device that is up and not  *)
(* a loopback, each once, by index, address and prefix.                    *)
THEOREM DiscoverInterfacesCorrect ==
  ASSUME NEW system \in Systems
  PROVE  /\ DiscoverInterfaces(system) \in Seq(Offered(system))
         /\ \A i \in Offered(system) :
              \E k \in 1..Len(DiscoverInterfaces(system)) : DiscoverInterfaces(system)[k] = i
         /\ \A j, k \in 1..Len(DiscoverInterfaces(system)) :
              j < k => Before(DiscoverInterfaces(system)[j], DiscoverInterfaces(system)[k])
<1> DEFINE S == Offered(system)
           list == DiscoverInterfaces(system)
<1>1. list = InOrder(S, Sorting(S))
  BY DEF DiscoverInterfaces, Sorting
<1>2. /\ list \in Seq(S) /\ Len(list) = Cardinality(S)
      /\ \A i \in S : \E k \in 1..Cardinality(S) : list[k] = i
      /\ \A j, k \in 1..Cardinality(S) : j < k => <<list[j], list[k]>> \in Sorting(S)
  <2> HIDE DEF S, list
  <2> QED
    BY <1>1, OfferedIsFinite, SortingIsStrict, InOrderIsSorted DEF S
<1> HIDE DEF S, list
<1>3. \A j, k \in 1..Len(list) : j < k => Before(list[j], list[k])
  BY <1>2 DEF Sorting
<1> QED
  BY <1>2, <1>3 DEF S, list

LEMMA ListsKnown ==
  ASSUME NEW list \in Enumerations \cup {<<>>}
  PROVE  /\ list \in Seq(Interface)
         /\ \A k \in 1..Len(list) : ValidInterface(list[k])
<1>1. CASE list = <<>>
  BY <1>1
<1>2. CASE list \in Enumerations
  <2>1. PICK system \in Systems : list = DiscoverInterfaces(system)
    BY <1>2 DEF Enumerations
  <2>2. list \in Seq(Offered(system))
    BY <2>1, DiscoverInterfacesCorrect
  <2>3. \A i \in Offered(system) : i \in Interface /\ ValidInterface(i)
    BY OfferedKnown, NoNameOutside DEF Interface, OfferedAddress, ValidInterface
  <2> QED
    BY <2>2, <2>3
<1> QED
  BY <1>1, <1>2

LEMMA FirstNamedIsFirst ==
  ASSUME NEW list \in Seq(Interface), NEW name
  PROVE  \/ FirstNamed(list, name) = 0 /\ \A i \in 1..Len(list) : list[i].name # name
         \/ /\ FirstNamed(list, name) \in 1..Len(list)
            /\ list[FirstNamed(list, name)].name = name
            /\ \A i \in 1..Len(list) :
                 list[i].name = name => FirstNamed(list, name) <= i
<1> DEFINE T == {i \in 1..Len(list) : list[i].name = name}
<1>1. FirstNamed(list, name) = IF T # {} THEN Min(T) ELSE 0
  BY DEF FirstNamed, SelectInSeq
<1>2. T \subseteq Nat
  OBVIOUS
<1>3. T # {} => Min(T) \in T /\ \A i \in T : Min(T) <= i
  BY <1>2, MinIsFirst, Zenon
<1> QED
  BY <1>1, <1>3

-----------------------------------------------------------------------------
(* The file                                                                *)

(* Whatever the file says, its port and theme can be used.                 *)
LEMMA LoadKnown ==
  ASSUME NEW file
  PROVE  PortInRange(Load(file).port) /\ Load(file).theme \in Themes
<1>1. PortInRange(DefaultPort)
  BY DEF PortInRange, DefaultPort, MinPort, MaxPort
<1>2. PortInRange(Load(file).port)
  BY <1>1, Zenon DEF Load, DefaultPersistedSettings
<1>3. Load(file).theme \in Themes
  BY DefaultThemeKnown, Zenon DEF Load, DefaultPersistedSettings
<1> QED
  BY <1>2, <1>3

LEMMA PortsAreNat == DefaultPort \in Nat /\ \A p : PortInRange(p) => p \in Nat
<1>1. DefaultPort \in Nat
  BY DEF DefaultPort
<1>2. ASSUME NEW p \in MinPort..MaxPort PROVE p \in Nat
  BY DEF MinPort, MaxPort
<1> QED
  BY <1>1, <1>2 DEF PortInRange

LEMMA LoadTyped ==
  ASSUME NEW file, IsFile(file)
  PROVE  Load(file) \in PersistedSettings
<1> DEFINE read == Load(file)
<1>1. read = [name |-> read.name, port |-> read.port, auth |-> read.auth, theme |-> read.theme]
  BY DEF Load
<1>2. read.port \in Nat /\ read.theme \in Themes
  <2>1. PortInRange(read.port) /\ read.theme \in Themes
    BY LoadKnown
  <2> HIDE DEF read
  <2> QED
    BY <2>1, PortsAreNat
<1>3. read.name \in Names \cup {NoName} /\ read.auth \in BOOLEAN
  BY Zenon DEF Load, DefaultPersistedSettings, IsFile
<1> HIDE DEF read
<1>4. read \in PersistedSettings
  BY <1>1, <1>2, <1>3 DEF PersistedSettings
<1> QED
  BY <1>4 DEF read

LEMMA KeysKnown ==
  /\ Range(Keys) = {"name", "port", "auth", "theme"}
  /\ Keys[1] = "name" /\ Keys[2] = "port" /\ Keys[3] = "auth" /\ Keys[4] = "theme"
  BY DEF Range, Keys

(* Cut short or not, what Save writes is a file.                           *)
LEMMA SavesAreFiles ==
  ASSUME NEW settings \in PersistedSettings,
         NEW file \in TornSaves(settings) \cup {Save(settings)}
  PROVE  IsFile(file)
<1> DEFINE Lines(n) == {Keys[i] : i \in 1..n}
           Full(S) == [key \in S |-> settings[key]]
           Cut(n, piece) ==
             [key \in Lines(n) |-> IF key = Keys[n] THEN piece ELSE settings[key]]
<1>1. settings["name"] \in Names \cup {NoName} /\ settings["auth"] \in BOOLEAN
  BY DEF PersistedSettings
<1>2. \A S : IsFile(Full(S))
  BY <1>1 DEF IsFile
<1>3. ASSUME NEW n \in 1..4, NEW piece \in Piece(Keys[n], settings[Keys[n]])
      PROVE  IsFile(Cut(n, piece))
  <2>1. Keys[n] = "name" => piece \in Names \cup {NoName}
    BY <1>1, CutNamesKnown DEF Piece
  <2>2. Keys[n] = "auth" => piece \in BOOLEAN
    BY DEF Piece
  <2> HIDE DEF Lines
  <2> QED
    BY <1>1, <2>1, <2>2 DEF IsFile
<1>4. \/ \E S : file = Full(S)
      \/ \E n \in 1..4 : \E piece \in Piece(Keys[n], settings[Keys[n]]) : file = Cut(n, piece)
  <2>1. CASE file = Save(settings)
    BY <2>1 DEF Save
  <2>2. CASE file \in {Full(Lines(n)) : n \in 0..3}
    BY <2>2, Zenon
  <2>3. CASE \E n \in 1..4 : file \in {Cut(n, piece) : piece \in Piece(Keys[n], settings[Keys[n]])}
    BY <2>3, Zenon
  <2>4. TornSaves(settings)
          = {Full(Lines(n)) : n \in 0..3}
              \cup UNION {{Cut(n, piece) : piece \in Piece(Keys[n], settings[Keys[n]])} : n \in 1..4}
    BY Zenon DEF TornSaves
  <2> HIDE DEF Full, Cut, Lines
  <2> QED
    BY <2>1, <2>2, <2>3, <2>4
<1> HIDE DEF Full, Cut
<1> QED
  BY <1>2, <1>3, <1>4

LEMMA LoadSaved ==
  ASSUME NEW settings
  PROVE  /\ Load(Save(settings)).name = settings.name
         /\ Load(Save(settings)).auth = settings.auth
         /\ PortInRange(settings.port) => Load(Save(settings)).port = settings.port
         /\ settings.theme \in Themes => Load(Save(settings)).theme = settings.theme
<1> DEFINE file == Save(settings)
<1>1. /\ DOMAIN file = {"name", "port", "auth", "theme"}
      /\ file["name"] = settings.name /\ file["port"] = settings.port
      /\ file["auth"] = settings.auth /\ file["theme"] = settings.theme
  BY KeysKnown DEF Save
<1> HIDE DEF file
<1>2. /\ Load(file).name = settings.name /\ Load(file).auth = settings.auth
      /\ PortInRange(settings.port) => Load(file).port = settings.port
      /\ settings.theme \in Themes => Load(file).theme = settings.theme
  BY <1>1 DEF Load
<1> QED
  BY <1>2 DEF file

-----------------------------------------------------------------------------
(* The form                                                                *)

(* Something is selected if there is something, and by its name if that is *)
(* still there.                                                            *)
LEMMA SelectedKnown ==
  ASSUME NEW list \in Seq(Interface), NEW name
  PROVE  /\ Selected(name, list) \in 0..Len(list)
         /\ Selected(name, list) = 0 <=> list = <<>>
         /\ FirstNamed(list, name) # 0 =>
              Selected(name, list) # 0 /\ list[Selected(name, list)].name = name
<1>1. list # <<>> => 1 \in 1..Len(list)
  OBVIOUS
<1> QED
  BY <1>1, FirstNamedIsFirst DEF Selected

(* A form made from any file can be started, if there is an interface and  *)
(* (where it is wanted) a pair.                                            *)
THEOREM RestoredFormIsValid ==
  ASSUME NEW file, NEW name, NEW list \in Enumerations \cup {<<>>}, NEW auth, NEW pair
  PROVE  ValidForm(list, Selected(name, list), RestoredPort(Load(file)), auth, pair)
           <=> list # <<>> /\ (auth => pair # NoPair)
<1>1. PortInRange(RestoredPort(Load(file)))
  BY LoadKnown DEF RestoredPort, PortInRange, MinPort
<1>2. /\ Selected(name, list) \in 0..Len(list)
      /\ Selected(name, list) = 0 <=> list = <<>>
  BY ListsKnown, SelectedKnown
<1>3. list # <<>> => ValidInterface(list[Selected(name, list)])
  BY <1>2, ListsKnown
<1> QED
  BY <1>1, <1>2, <1>3, Zenon DEF ValidForm

(* Saved and read again, settings give back the name of the interface, if  *)
(* one of its name is still there.                                         *)
LEMMA NameRestored ==
  ASSUME NEW settings, NEW list \in Enumerations, FirstNamed(list, settings.name) # 0
  PROVE  list[Selected(RestoredName(settings, list), list)].name = settings.name
<1>1. list \in Seq(Interface)
  BY ListsKnown
<1>2. list # <<>>
  BY <1>1, FirstNamedIsFirst
<1>3. RestoredName(settings, list) = settings.name
  BY <1>2 DEF RestoredName
<1> QED
  BY <1>1, <1>3, SelectedKnown
=============================================================================
