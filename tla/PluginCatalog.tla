------------------------------ MODULE PluginCatalog ------------------------------
(***************************************************************************)
(* What PluginManager promises about the modules it knows: under each name *)
(* at most one, valid, the latest registered since the last load, where a  *)
(* load forgets everything and registers the specs of its file in order.   *)
(* Asking for a module, known or not, changes nothing.                     *)
(***************************************************************************)
EXTENDS PluginSpec, Sequences

CONSTANTS
    Name,       \* names of modules
    Offered,    \* the specs that can be registered
    Contents    \* the sequences of specs that can be loaded

VARIABLE catalog    \* PluginManager::spec of each name

Init == catalog = [n \in Name |-> DefaultSpec]

\* The places of a name's valid specs in a file.
Places(specs, n) == {i \in DOMAIN specs : IsValid(specs[i]) /\ specs[i].plugin_name = n}

LastPlace(specs, n) ==
    CHOOSE i \in Places(specs, n) : \A j \in Places(specs, n) : j <= i

Register(spec) ==
    /\ IsValid(spec)
    /\ catalog' = [catalog EXCEPT ![spec.plugin_name] = spec]

Load(specs) ==
    catalog' = [n \in Name |-> IF Places(specs, n) = {} THEN DefaultSpec
                               ELSE specs[LastPlace(specs, n)]]

Next ==
    \/ \E spec \in Offered : Register(spec)
    \/ \E specs \in Contents : Load(specs)

Spec == Init /\ [][Next]_catalog
=================================================================================
