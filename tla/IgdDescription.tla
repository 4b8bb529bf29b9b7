--------------------------- MODULE IgdDescription ---------------------------
(***************************************************************************)
(* ezcd/src/pop/pop_etc_ezcfg_upnpd_igd1.c writes the description of the   *)
(* internet gateway device, a tree of devices with their services, and one *)
(* file per service.  How many devices there are and what they are called  *)
(* is read from nvram while the file is written, name by name, and a       *)
(* device without a UDN is given one there.  Meanwhile nvram may change.   *)
(***************************************************************************)
EXTENDS IgdService, Integers, SequencesExt

CONSTANT MaxTrouble \* bound: changes of nvram and failed looks at it

VARIABLES
  todo,    \* what the call still has to do, in order
  root,    \* InternetGatewayDevice1.xml, as far as it is written
  file,    \* the service files: their lists as far as they are written
  number,  \* nvram: how many devices of a kind there are
  udn,     \* nvram: the UDN of a device, Missing without an entry
  calm,    \* since the root file was opened nvram has not changed and no
           \* look at it has failed
  trouble  \* how often either happened

igdvars == <<todo, root, file, number, udn, calm, trouble>>

Igd == <<"igd">>
Wan == <<"wan">>
Lan == <<"lan">>
Kinds == {Wan, Lan, Append(Wan, 1), Append(Wan, 2)}
Devices == {Igd} \union {Append(k, j) : k \in Kinds, j \in 1..2}
Missing == -1
Empty   == 0

ServiceFiles == {"L3F", "WCIC", "WELC", "WPC", "WIC", "LHCM"}
ServiceOf(f) ==
  CASE f = "L3F"  -> gen_igd1_service_Layer3Forwarding1_xml
    [] f = "WCIC" -> gen_igd1_service_WANCommonInterfaceConfig1_xml
    [] f = "WELC" -> gen_igd1_service_WANEthernetLinkConfig1_xml
    [] f = "WPC"  -> gen_igd1_service_WANPPPConnection1_xml
    [] f = "WIC"  -> gen_igd1_service_WANIPConnection1_xml
    [] f = "LHCM" -> gen_igd1_service_LANHostConfigManagement1_xml

(* The defaults: one device of every kind, without a UDN, with these       *)
(* services.  Other devices have no entries.                               *)
DefaultNumber == [k \in Kinds |-> IF k = Append(Wan, 2) THEN 0 ELSE 1]
Described == {Igd, <<"wan", 1>>, <<"wan", 1, 1>>, <<"lan", 1>>}
DefaultUdn == [d \in Devices |-> IF d \in Described THEN Empty ELSE Missing]
IgdServices == <<"L3F">>
WanServices == <<"WCIC">>
ConnectionServices == <<"WELC", "WPC", "WIC">>
LanServices == <<"LHCM">>
ServicesOf(d) ==
  CASE d = Igd            -> IgdServices
    [] d = <<"wan", 1>>   -> WanServices
    [] d = <<"wan", 1, 1>> -> ConnectionServices
    [] d = <<"lan", 1>>   -> LanServices
    [] OTHER              -> <<>>

(* The kinds of devices in the device list of d.                           *)
ListedKinds(d) == IF d = Igd THEN <<Wan, Lan>> ELSE <<d>>

NoFile == [actions |-> <<>>, table |-> {}, closed |-> FALSE]
IgdInit ==
  /\ todo = <<>> /\ root = <<>> /\ file = [f \in ServiceFiles |-> NoFile]
  /\ number = DefaultNumber /\ udn = DefaultUdn
  /\ calm = TRUE /\ trouble = 0

-----------------------------------------------------------------------------

(* The call: the root device, then the services in order.                  *)
ServiceTasks(f) == <<<<"fopen", f>>, <<"actions", f>>, <<"table", f>>>>
Populate ==
  /\ todo = <<>>
  /\ todo' = <<<<"fopen", "root">>, <<"device", Igd>>>>
               \o ServiceTasks("L3F") \o ServiceTasks("WCIC")
               \o ServiceTasks("WELC") \o ServiceTasks("WPC")
               \o ServiceTasks("WIC") \o ServiceTasks("LHCM")
  /\ UNCHANGED <<root, file, number, udn, calm, trouble>>

Task(name) == IF todo = <<>> THEN FALSE ELSE Head(todo)[1] = name
Arg == Head(todo)[2]
Done == todo' = Tail(todo)
DoFirst(tasks) == todo' = tasks \o Tail(todo)
Put(tokens) == root' = root \o tokens

(* ezcfg_api_nvram_get() or the making of a uuid fails, or nvram changes.  *)
Disturb == trouble < MaxTrouble /\ trouble' = trouble + 1 /\ calm' = FALSE

(* fopen(path, "w"): without the file the call ends with a failure.        *)
OpenDescription ==
  /\ Task("fopen")
  /\ \/ /\ Done
        /\ IF Arg = "root" THEN root' = <<>> /\ calm' = TRUE /\ UNCHANGED file
           ELSE file' = [file EXCEPT ![Arg] = NoFile] /\ UNCHANGED <<root, calm>>
     \/ /\ todo' = <<>>
        /\ UNCHANGED <<root, file, calm>>
  /\ UNCHANGED <<number, udn, trouble>>

(* The elements of a device.  The texts nvram has for its names, and its   *)
(* icons, are left out.                                                    *)
OwnElements(d) == <<<<"udn", d>>, <<"services", d>>>>
gen_igd1_InternetGatewayDevice1_xml(d) == OwnElements(d) \o <<<<"list", d>>, <<"end", d>>>>
gen_igd1_WANDevice1_xml(d)             == OwnElements(d) \o <<<<"list", d>>, <<"end", d>>>>
gen_igd1_WANConnectionDevice1_xml(d)   == OwnElements(d) \o <<<<"end", d>>>>
gen_igd1_LANDevice1_xml(d)             == OwnElements(d) \o <<<<"end", d>>>>

BeginDevice ==
  /\ Task("device")
  /\ Put(<<<<"device", Arg>>>>)
  /\ DoFirst(CASE Arg = Igd -> gen_igd1_InternetGatewayDevice1_xml(Arg)
               [] Len(Arg) = 3 -> gen_igd1_WANConnectionDevice1_xml(Arg)
               [] Arg[1] = "wan" -> gen_igd1_WANDevice1_xml(Arg)
               [] Arg[1] = "lan" -> gen_igd1_LANDevice1_xml(Arg))
  /\ UNCHANGED <<file, number, udn, calm, trouble>>

(* Mutant: the new UDN is printed and not kept.                            *)
UdnNotKept ==
  /\ Task("udn")
  /\ Done
  /\ Put(<<<<"udn", Arg, IF udn[Arg] = Empty THEN Len(root) ELSE udn[Arg]>>>>)
  /\ UNCHANGED <<file, number, udn, calm, trouble>>

(* The UDN: an empty one is made and set, unless that fails, and the one   *)
(* nvram has then is printed.                                              *)
FreshUdn == 1 + Cardinality({d \in Devices : udn[d] > Empty})
PrintUdn ==
  /\ Task("udn")
  /\ Done
  /\ \/ /\ udn[Arg] = Empty
        /\ udn' = [udn EXCEPT ![Arg] = FreshUdn]
        /\ Put(<<<<"udn", Arg, FreshUdn>>>>)
        /\ UNCHANGED <<calm, trouble>>
     \/ /\ udn[Arg] > Empty
        /\ Put(<<<<"udn", Arg, udn[Arg]>>>>)
        /\ UNCHANGED <<udn, calm, trouble>>
     \/ /\ udn[Arg] = Missing
        /\ UNCHANGED <<root, udn, calm, trouble>>
     \/ Disturb /\ UNCHANGED <<root, udn>>
  /\ UNCHANGED <<file, number>>

PrintServices ==
  /\ Task("services")
  /\ Done
  /\ Put([k \in DOMAIN ServicesOf(Arg) |-> <<"service", Arg, ServicesOf(Arg)[k]>>])
  /\ UNCHANGED <<file, number, udn, calm, trouble>>

(* The device list is begun if nvram says that there is a device for it.   *)
Listed(d) == FoldSeq(LAMBDA k, n : n + number[k], 0, ListedKinds(d))
BeginList ==
  /\ Task("list")
  /\ IF Listed(Arg) > 0
     THEN /\ Put(<<<<"list", Arg>>>>)
          /\ DoFirst([k \in DOMAIN ListedKinds(Arg) |-> <<"each", ListedKinds(Arg)[k]>>]
                       \o <<<<"endlist", Arg>>>>)
     ELSE Done /\ UNCHANGED root
  /\ UNCHANGED <<file, number, udn, calm, trouble>>

(* The loop over the devices of a kind, whose number is read again.        *)
EachDevice ==
  /\ Task("each")
  /\ \/ /\ DoFirst([j \in 1..number[Arg] |-> <<"device", Append(Arg, j)>>])
        /\ UNCHANGED <<calm, trouble>>
     \/ Done /\ Disturb
  /\ UNCHANGED <<root, file, number, udn>>

EndElement ==
  /\ Task("end") \/ Task("endlist")
  /\ Put(<<Head(todo)>>)
  /\ Done
  /\ UNCHANGED <<file, number, udn, calm, trouble>>

(* The two lists of a service description, and fclose().                   *)
PrintActions ==
  /\ Task("actions")
  /\ Done
  /\ file' = [file EXCEPT ![Arg].actions = ServiceOf(Arg).actions]
  /\ UNCHANGED <<root, number, udn, calm, trouble>>

PrintTable ==
  /\ Task("table")
  /\ Done
  /\ file' = [file EXCEPT ![Arg].table = ServiceOf(Arg).table, ![Arg].closed = TRUE]
  /\ UNCHANGED <<root, number, udn, calm, trouble>>

(* Somebody changes the number of devices of a kind.                       *)
NvramChanges(k, n) ==
  /\ n # number[k]
  /\ number' = [number EXCEPT ![k] = n]
  /\ Disturb
  /\ UNCHANGED <<todo, root, file, udn>>

PopStep ==
  \/ OpenDescription \/ BeginDevice \/ PrintUdn \/ PrintServices \/ BeginList
  \/ EachDevice \/ EndElement \/ PrintActions \/ PrintTable
IgdNext == Populate \/ PopStep \/ \E k \in Kinds, n \in 0..2 : NvramChanges(k, n)

-----------------------------------------------------------------------------

(* What the root file of an undisturbed call holds, from nvram.            *)
Element(d, inner) ==
  <<<<"device", d>>>>
    \o (IF udn[d] > Empty THEN <<<<"udn", d, udn[d]>>>> ELSE <<>>)
    \o [k \in DOMAIN ServicesOf(d) |-> <<"service", d, ServicesOf(d)[k]>>]
    \o (IF inner = <<>> THEN <<>>
        ELSE <<<<"list", d>>>> \o inner \o <<<<"endlist", d>>>>)
    \o <<<<"end", d>>>>
EachElement(k, inner(_)) ==
  FlattenSeq([j \in 1..number[k] |-> Element(Append(k, j), inner(Append(k, j)))])
Expected ==
  LET leaf(d) == <<>>
      wan(d)  == EachElement(d, leaf)
  IN  Element(Igd, EachElement(Wan, wan) \o EachElement(Lan, leaf))

Complete == root # <<>> /\ Last(root) = <<"end", Igd>>
Listing(what) == {k \in DOMAIN root : root[k][1] = what}

(* A description that was written while nvram stood still, and whose looks *)
(* at nvram all succeeded, is the one nvram describes: every device once,  *)
(* inside the device it belongs to, with its services, and no empty device *)
(* list, although each number is read twice, by the function that opens    *)
(* the list and by the one that fills it.                                  *)
DescriptionFaithful == (Complete /\ calm) => root = Expected

(* The UDN of a device in the file is the one nvram keeps for it, and no   *)
(* other device's: control points know the device by it, so it has to be   *)
(* the same after the next call.                                           *)
UdnKept ==
  \A k \in Listing("udn") :
    /\ root[k][3] = udn[root[k][2]]
    /\ \A l \in Listing("udn") : root[k][3] = root[l][3] => root[k][2] = root[l][2]

(* When a service description is closed, every argument of its actions is  *)
(* related to a variable of its state table, and the table has no variable *)
(* that no action gets or sets.                                            *)
ArgumentsDeclared ==
  \A f \in ServiceFiles : file[f].closed =>
    file[f].table = UNION {Range(file[f].actions[a].in \o file[f].actions[a].out) :
                             a \in DOMAIN file[f].actions}

(* Every call comes to its end, whatever nvram says and when it changes.   *)
PopulationEnds == (todo # <<>>) ~> (todo = <<>>)

(* The files of the gateway describe the devices nvram has, under the UDNs *)
(* it keeps, with actions whose arguments are declared.                    *)
DescriptionSound == DescriptionFaithful /\ UdnKept /\ ArgumentsDeclared
=============================================================================
