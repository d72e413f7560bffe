------------------------------ MODULE Settings ------------------------------
(***************************************************************************)
(* From the environment to addresses: how the SDK resolves its endpoint    *)
(* (config.go) and derives from it the HTTP base of logs and manifest      *)
(* (manifest.go), against how the scan tool derives its own (scan.go).     *)
(*                                                                         *)
(* A URL or host is the sequence of its tokens: "https://h:80/" is         *)
(* <<"https://", "h", ":", "80", "/">>.  The empty one is not set.         *)
(***************************************************************************)
EXTENDS Integers, Sequences, SequencesExt

CONSTANTS Hosts, Ports

Schemes == {"http://", "https://"}

\* A host or a port is one token, and none of those that the code looks for.
ASSUME TokensAssumption == (Hosts \union Ports) \intersect (Schemes \union {":", "/"}) = {}

VARIABLE env        \* the DATAFLOW_* variables about addresses

HasPrefix(s, prefix) == s # <<>> /\ s[1] = prefix

Addresses ==
  {<<h>> : h \in Hosts} \union {<<h, ":", p>> : h \in Hosts, p \in Ports}
  \union {<<s, h>> : s \in Schemes, h \in Hosts}
  \union {<<s, h, ":", p>> : s \in Schemes, h \in Hosts, p \in Ports}

Endpoints == {<<>>} \union Addresses \union {Append(e, "/") : e \in Addresses}

URLs == {e \in Endpoints : HasPrefix(e, "http://") \/ HasPrefix(e, "https://")}

Unset == [http_url |-> <<>>, endpoint |-> <<>>, insecure |-> FALSE]

-----------------------------------------------------------------------------
TrimRight(s) == SubSeq(s, 1, Len(s) - (IF s # <<>> /\ Last(s) = "/" THEN 1 ELSE 0))

\* Seeded bug: appends the port to whatever it is given.
ensurePortAlways(host, port) == host \o <<":", port>>

\* net.SplitHostPort fails on what has no colon.
ensurePort(host, port) == IF ":" \in Range(host) THEN host ELSE host \o <<":", port>>

parseEndpoint(endpoint, insecure) ==
  CASE endpoint = <<>> -> [endpoint |-> <<>>, useTLS |-> FALSE]
    [] HasPrefix(endpoint, "https://") ->
         [endpoint |-> ensurePort(Tail(endpoint), "443"), useTLS |-> ~insecure]
    [] HasPrefix(endpoint, "http://") ->
         [endpoint |-> ensurePort(Tail(endpoint), "80"), useTLS |-> FALSE]
    [] OTHER -> [endpoint |-> endpoint, useTLS |-> FALSE]

\* loadEnvConfig followed by resolve: the endpoint has a default.
resolve == parseEndpoint(IF env.endpoint = <<>> THEN <<"api", ":", "9090">> ELSE env.endpoint, env.insecure)

httpBaseURL(endpoint, useTLS) ==
  CASE env.http_url # <<>> -> TrimRight(env.http_url)
    [] env.http_url = <<>> /\ (HasPrefix(endpoint, "https://") \/ HasPrefix(endpoint, "http://")) ->
         TrimRight(endpoint)
    [] OTHER -> IF useTLS THEN <<"https://">> \o endpoint ELSE <<>>

\* What startLogs and sendManifest derive; without a base both stay off.
SDKBase == httpBaseURL(resolve.endpoint, resolve.useTLS)

\* What the scan tool derives when it is given no --url.
ResolveHTTPBase ==
  CASE env.http_url # <<>> -> TrimRight(env.http_url)
    [] env.http_url = <<>> /\ (HasPrefix(env.endpoint, "http://") \/ HasPrefix(env.endpoint, "https://")) ->
         TrimRight(env.endpoint)
    [] OTHER -> <<>>

-----------------------------------------------------------------------------
SettingsInit == env = Unset

SetEnv ==
  /\ env = Unset
  /\ \E url \in URLs \union {<<>>}, endpoint \in Endpoints, insecure \in BOOLEAN :
       env' = [http_url |-> url, endpoint |-> endpoint, insecure |-> insecure]

SettingsSpec == SettingsInit /\ [][SetEnv]_env

-----------------------------------------------------------------------------
\* An address with the port its scheme implies written out.
explicit(base) ==
  IF base = <<>> \/ ":" \in Range(base) THEN base
  ELSE base \o <<":", IF base[1] = "https://" THEN "443" ELSE "80">>

\* The logs and the manifest of a service go to the server that the scan tool
\* reports its routes to, from the same variables ("Configuration mirrors the
\* SDK", cmd/dataflow-scan/main.go:10), whether or not the port is written, if
\* they go anywhere; and they do with TLS.  An endpoint that ends in a slash is
\* excluded: ensurePort puts the port after it.
BaseAgrees ==
  /\ env.http_url # <<>> => SDKBase = ResolveHTTPBase
  /\ env.http_url = <<>> /\ TrimRight(env.endpoint) = env.endpoint =>
       /\ SDKBase # <<>> => explicit(SDKBase) = explicit(ResolveHTTPBase)
       /\ HasPrefix(env.endpoint, "https://") /\ ~env.insecure => SDKBase # <<>>

\* "URL-form endpoints map directly; a bare gRPC endpoint with no override has
\* no derivable HTTP base" (manifest.go:88-90).
UrlEndpointHasBase == env.endpoint \in URLs /\ ~env.insecure => SDKBase # <<>>
=============================================================================
