------------------------------ MODULE SmallParts ------------------------------
(***************************************************************************)
(* Four small parts of the crates that keep state of their own and share   *)
(* none: the OVSDB handle, the scanner of JSON messages, the reconnect     *)
(* state machine and the port mapper.  A behaviour is one of any of the    *)
(* four; part says which, and the others keep still.                       *)
(***************************************************************************)
EXTENDS OvsdbHandle, JsonScanner, Reconnect, PortMapper

VARIABLE part

Parts    == {"handle", "scanner", "reconnect", "mapper"}
partVars == <<part, vars, scanner, reconnect, mapper>>

PartsInit ==
    /\ part \in Parts /\ Init /\ ScannerInit /\ ReconnectInit /\ MapperInit
    /\ part # "scanner" => inbound = <<>>

HandleStep    == part = "handle" /\ Next /\ UNCHANGED <<part, scanner, reconnect, mapper>>
ScannerStep   == part = "scanner" /\ ScannerNext /\ UNCHANGED <<part, vars, reconnect, mapper>>
ReconnectStep == part = "reconnect" /\ ReconnectNext /\ UNCHANGED <<part, vars, scanner, mapper>>
MapperStep    == part = "mapper" /\ MapperNext /\ UNCHANGED <<part, vars, scanner, reconnect>>

PartsNext == HandleStep \/ ScannerStep \/ ReconnectStep \/ MapperStep

PartsSpec ==
    /\ PartsInit /\ [][PartsNext]_partVars
    /\ part = "handle" => HandleFairness
    /\ part = "scanner" => ScannerFairness
    /\ part = "reconnect" => ReconnectFairness

(* The types of all four: the handle's, a scan within its buffer, clocks   *)
(* within the horizon, maps between names and ports.                       *)
PartsTypeOK ==
    /\ part \in Parts /\ TypeOK
    /\ reading \in BOOLEAN /\ ended \in BOOLEAN /\ dropped \in 0..MaxDropped
    /\ reading => scan.at \in 1..Len(read_buf) + 1
    /\ scan.json_start \in 0..scan.at /\ scan.depth >= 0
    /\ Len(returned) <= Len(inbound)
    /\ state \in {"Void", "Backoff", "Connecting", "Active", "Idle", "Reconnecting"}
    /\ backoff \in 0..Horizon /\ max_backoff \in MaxBackoffs \union {8}
    /\ elapsed \in 0..Horizon /\ waited \in 0..Horizon /\ failures \in 0..Horizon
    /\ DOMAIN name_to_ofport \subseteq Names /\ DOMAIN ofport_to_name \subseteq OfPorts
    /\ \A n \in DOMAIN name_to_ofport : name_to_ofport[n] \in OfPorts
    /\ \A p \in DOMAIN ofport_to_name : ofport_to_name[p] \in Names

(* Every message is returned in the end, the caller having dropped a       *)
(* future while it waited or not.                                          *)
MessagesReturned == part = "scanner" => EveryMessageReturned
===============================================================================
