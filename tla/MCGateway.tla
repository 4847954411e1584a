------------------------------ MODULE MCGateway ------------------------------
(* An instance of Gateway for TLC: a sensor and an administrator of one tenant each. *)
EXTENDS Gateway

MCGrant ==
    [sensor |-> [tenant |-> "acme", role |-> "collector", sources |-> {"linux"}, expires_at |-> 2],
     boss   |-> [tenant |-> "umbrella", role |-> "admin", sources |-> {"linux"}, expires_at |-> 9]]

Ask(route, credential) ==
    [trusted |-> TRUE, route |-> route, credential |-> credential, source |-> "linux", body |-> TRUE]

MCRequests ==
    {Ask("/api/events", "boss"), Ask("/api/search", "boss"), Ask("/api/cases", "sensor"),
     Ask("/healthz", None), Ask("/api/cases", None), Ask("/nowhere", None),
     [Ask("/api/events", "sensor") EXCEPT !.source = "edr"],
     [Ask("/api/events", "sensor") EXCEPT !.body = FALSE],
     [Ask("/api/cases", None) EXCEPT !.trusted = FALSE]}
==============================================================================
