----------------------------- MODULE MCContractTests -----------------------------
(* Each suite with few and with many capabilities. *)
EXTENDS SDKTests

Suite(s, sets) == {[suite |-> s, capabilities |-> c] : c \in sets}

\* Capabilities of every kind of SDK that events depend on.
EventCapabilities ==
    {"event-sampling", "anonymous-redaction", "inline-context-all", "service-endpoints",
     "user-type", "omit-anonymous-contexts"}

MCSetups ==
    Suite("migrations", {{}, {"php"},
                         {"event-sampling", "inline-context-all", "anonymous-redaction"}})
    \cup Suite("hooks",
        {{"evaluation-hooks", "client-side", "hook-environment-id", "track-hooks"},
         {"evaluation-hooks", "migrations", "hook-environment-id", "track-hooks",
          "server-side-polling"}})
    \cup Suite("server-side retry",
        {{}, {"retry-conformance-fdv1-streaming", "retry-conformance-fdv1-polling",
              "server-side-polling", "long-running"}})
    \cup Suite("client-side retry",
        {{"client-event-source-http-errors"},
         {"client-event-source-http-errors", "js-client-side"},
         {"retry-conformance-fdv1-streaming"}})
    \cup Suite("big segments", {{"big-segments"}, {"big-segments", "php"}})
    \cup Suite("redis", {{"persistent-data-store-redis"}})
    \cup Suite("consul", {{"persistent-data-store-consul"}})
    \cup Suite("dynamodb", {{"persistent-data-store-dynamodb"}})
    \cup Suite("server-side events", {EventCapabilities})
    \cup Suite("php events", {EventCapabilities \cup {"php"}})
    \cup Suite("client-side events",
        {EventCapabilities \cup {"client-side", "client-prereq-events",
                                "client-prereq-cycle-detection"},
         {"client-side", "client-prereq-events", "client-per-context-summaries"}})
=================================================================================
