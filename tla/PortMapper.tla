------------------------------ MODULE PortMapper ------------------------------
(***************************************************************************)
(* PortMapper of rovs-ext/src/util/port_mapper.rs: two maps that are meant *)
(* to be each other's inverse.  insert replaces in each map what is under  *)
(* its own key and leaves the other map's old entry where it is, so they   *)
(* are inverse only as long as no name changes its port and no port its    *)
(* name; moved tells whether one has since the maps were last cleared.     *)
(***************************************************************************)
EXTENDS Integers

CONSTANTS Names, OfPorts

VARIABLES name_to_ofport, ofport_to_name, moved

mapper == <<name_to_ofport, ofport_to_name, moved>>

Empty == [x \in {} |-> x]
Put(f, x, y)  == [z \in DOMAIN f \union {x} |-> IF z = x THEN y ELSE f[z]]
Without(f, x) == [z \in DOMAIN f \ {x} |-> f[z]]

MapperInit == name_to_ofport = Empty /\ ofport_to_name = Empty /\ moved = FALSE

Moves(n, p) == \/ n \in DOMAIN name_to_ofport /\ name_to_ofport[n] # p
               \/ p \in DOMAIN ofport_to_name /\ ofport_to_name[p] # n

Insert(n, p) ==
    /\ ofport_to_name' = Put(ofport_to_name, p, n)
    /\ name_to_ofport' = Put(name_to_ofport, n, p)
    /\ moved' = (moved \/ Moves(n, p))

(* Fault: the other map is left alone.                                     *)
RemoveByNameOnly(n) ==
    /\ n \in DOMAIN name_to_ofport
    /\ name_to_ofport' = Without(name_to_ofport, n)
    /\ UNCHANGED <<ofport_to_name, moved>>

RemoveByName(n) ==
    /\ n \in DOMAIN name_to_ofport
    /\ name_to_ofport' = Without(name_to_ofport, n)
    /\ ofport_to_name' = Without(ofport_to_name, name_to_ofport[n])
    /\ UNCHANGED moved

RemoveByOfport(p) ==
    /\ p \in DOMAIN ofport_to_name
    /\ ofport_to_name' = Without(ofport_to_name, p)
    /\ name_to_ofport' = Without(name_to_ofport, ofport_to_name[p])
    /\ UNCHANGED moved

Clear == name_to_ofport' = Empty /\ ofport_to_name' = Empty /\ moved' = FALSE

MapperNext ==
    \/ \E n \in Names, p \in OfPorts : Insert(n, p)
    \/ \E n \in Names : RemoveByName(n)
    \/ \E p \in OfPorts : RemoveByOfport(p)
    \/ Clear

MapperSpec == MapperInit /\ [][MapperNext]_mapper

(* get_ofport and get_name answer each other, unless something has moved:  *)
(* a look-up in one direction never names a port the other does not know.  *)
MapsAgree ==
    ~moved =>
        /\ \A n \in DOMAIN name_to_ofport :
               /\ name_to_ofport[n] \in DOMAIN ofport_to_name
               /\ ofport_to_name[name_to_ofport[n]] = n
        /\ \A p \in DOMAIN ofport_to_name :
               /\ ofport_to_name[p] \in DOMAIN name_to_ofport
               /\ name_to_ofport[ofport_to_name[p]] = p
===============================================================================
