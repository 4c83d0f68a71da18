--------------------------- MODULE MCServiceCatalog ---------------------------
(* A small instance of ServiceCatalog: two names, one exported with versions or  *)
(* without, and dropped versions, changed defaults, dropped names.               *)
EXTENDS ServiceCatalog

Versioned(known, default) == [versions |-> known, default |-> default, versioned |-> TRUE]
Single(version) == [versions |-> {version}, default |-> version, versioned |-> FALSE]

MCNames == {"router", "port"}
MCModels ==
    { [name \in MCNames |-> IF name = "router" THEN router ELSE port] :
        router \in {Versioned({0, 1}, 0), Versioned({0, 1}, 1), Versioned({1}, 1), Single(0), Nothing},
        port \in {Single(0), Nothing} }
=============================================================================
