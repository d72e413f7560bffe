-------------------------- MODULE AlgorithmsProofs --------------------------
(***************************************************************************)
(* The pure parts of the SDK, for inputs of any size: the addresses of     *)
(* Settings, the Catalog of routes, and the fields of LogRecords.          *)
(*                                                                         *)
(* The loops are induced over as sets of numbers: a set with 0 that goes   *)
(* from each number to the next has all numbers up to n (Upto), because a  *)
(* set of numbers without a least element is empty.                        *)
(***************************************************************************)
EXTENDS Settings, Catalog, LogRecords, SequenceFacts, FiniteSetTheorems

\* Induction over the numbers up to n, as a fact about a set of numbers.
LEMMA Upto ==
  ASSUME NEW n \in Nat, NEW T, 0 \in T, \A i \in 1 .. n : i - 1 \in T => i \in T
  PROVE  \A i \in 0 .. n : i \in T
<1>. DEFINE Bad == {i \in 0 .. n : i \notin T}
<1>. SUFFICES ASSUME Bad # {} PROVE FALSE
  OBVIOUS
<1>1. Bad \subseteq Nat
  OBVIOUS
<1>2. PICK i \in Bad : \A j \in Bad : <<j, i>> \notin OpToRel(<, Nat)
  BY <1>1, NatLessThanWellFounded, WFMin
<1>3. \A j \in Bad : ~(j < i)
  BY <1>1, <1>2 DEF OpToRel
<1>4. i # 0 /\ i \in 1 .. n /\ i - 1 \in 0 .. n /\ i - 1 < i
  OBVIOUS
<1>. QED BY <1>3, <1>4

\* A nonempty set of numbers has a least one.
LEMMA Least ==
  ASSUME NEW T, T \subseteq Nat, T # {}
  PROVE  \E n \in T : \A m \in T : n <= m
<1>2. PICK i \in T : \A j \in T : <<j, i>> \notin OpToRel(<, Nat)
  BY NatLessThanWellFounded, WFMin
<1>3. \A j \in T : ~(j < i)
  BY <1>2 DEF OpToRel
<1>. QED BY <1>3

\* What f is, in S, after each of n steps from a.
Iterates(S, a, n, step, f) ==
  f \in [0 .. n -> S] /\ f[0] = a /\ \A i \in 1 .. n : f[i] = step[i][f[i - 1]]

\* Repeating steps that stay in S.
LEMMA Iteration ==
  ASSUME NEW S, NEW a \in S, NEW n \in Nat, NEW step \in [1 .. n -> [S -> S]]
  PROVE  \E f : Iterates(S, a, n, step, f)
<1>. DEFINE Good(m, f) == f \in [0 .. m -> S] /\ f[0] = a /\ \A i \in 1 .. m : f[i] = step[i][f[i - 1]]
            T == {m \in 0 .. n : \E f \in [0 .. m -> S] : Good(m, f)}
<1>1. 0 \in T
  <2>. DEFINE f == [i \in 0 .. 0 |-> a]
  <2>1. f \in [0 .. 0 -> S] /\ f[0] = a /\ 1 .. 0 = {}
    OBVIOUS
  <2>. HIDE DEF f
  <2>2. Good(0, f) /\ 0 \in 0 .. n
    BY <2>1
  <2>. QED BY <2>1, <2>2
<1>2. ASSUME NEW m \in 1 .. n, m - 1 \in T PROVE m \in T
  <2>1. PICK f \in [0 .. (m - 1) -> S] : Good(m - 1, f)
    BY <1>2
  <2>. DEFINE g == [i \in 0 .. m |-> IF i = m THEN step[m][f[m - 1]] ELSE f[i]]
  <2>2. \A i \in 0 .. m : i # m => i \in 0 .. (m - 1)
    OBVIOUS
  <2>3. f[m - 1] \in S /\ step[m][f[m - 1]] \in S
    OBVIOUS
  <2>4. g \in [0 .. m -> S]
    BY <2>2, <2>3
  <2>5. g[0] = a
    BY <2>1
  <2>6. ASSUME NEW i \in 1 .. m PROVE g[i] = step[i][g[i - 1]]
    <3>1. i - 1 \in 0 .. (m - 1) /\ i - 1 # m /\ i - 1 \in 0 .. m
      OBVIOUS
    <3>2. g[i - 1] = f[i - 1]
      BY <3>1
    <3>3. CASE i = m
      BY <3>2, <3>3
    <3>4. CASE i # m
      <4>1. i \in 1 .. (m - 1)
        BY <3>4
      <4>2. f[i] = step[i][f[i - 1]]
        BY <2>1, <4>1
      <4>. QED BY <3>2, <3>4, <4>2
    <3>. QED BY <3>3, <3>4
  <2>. HIDE DEF g
  <2>7. Good(m, g)
    BY <2>4, <2>5, <2>6
  <2>. QED BY <2>4, <2>7
<1>. HIDE DEF T, Good
<1>3. \A m \in 1 .. n : m - 1 \in T => m \in T
  BY <1>2
<1>4. \A m \in 0 .. n : m \in T
  BY <1>1, <1>3, Upto
<1>5. n \in T
  BY <1>4
<1>6. \E f \in [0 .. n -> S] : Good(n, f)
  BY <1>5 DEF T
<1>. QED BY <1>6 DEF Good, Iterates

\* The least element of a set of numbers that has one.
LEMMA MinIs ==
  ASSUME NEW T, T \subseteq Int, NEW x \in T, \A y \in T : x <= y
  PROVE  Min(T) = x
<1>1. \A z \in T : (\A y \in T : z <= y) => z = x
  OBVIOUS
<1>. QED BY <1>1 DEF Min

\* The smaller of two numbers.
LEMMA MinOfTwo ==
  ASSUME NEW a \in Int, NEW b \in Int
  PROVE  Min({a, b}) = IF a <= b THEN a ELSE b
<1>1. CASE a <= b
  <2>1. a \in {a, b} /\ \A y \in {a, b} : a <= y
    BY <1>1
  <2>. QED BY <1>1, <2>1, MinIs
<1>2. CASE ~(a <= b)
  <2>1. b \in {a, b} /\ \A y \in {a, b} : b <= y
    BY <1>2
  <2>. QED BY <1>2, <2>1, MinIs
<1>. QED BY <1>1, <1>2

\* The greatest element of a set of numbers that has one.
LEMMA MaxIs ==
  ASSUME NEW T, T \subseteq Int, NEW x \in T, \A y \in T : y <= x
  PROVE  Max(T) = x
<1>1. \A z \in T : (\A y \in T : z >= y) => z = x
  OBVIOUS
<1>2. \A y \in T : x >= y
  OBVIOUS
<1>. QED BY <1>1, <1>2 DEF Max

-----------------------------------------------------------------------------

\* Settings: an endpoint without a slash at its end has one of five forms, and
\* each is computed.

Tokens == Hosts \union Ports \union Schemes \union {":", "/"}

\* Endpoints are sequences of tokens.
LEMMA AddressTokens == Addresses \subseteq Seq(Tokens)
<1>. SUFFICES ASSUME NEW e \in Addresses PROVE e \in Seq(Tokens)
  OBVIOUS
<1>1. CASE e \in {<<h>> : h \in Hosts}
  <2>1. PICK h \in Hosts : e = <<h>>
    BY <1>1
  <2>. QED BY <2>1 DEF Tokens
<1>2. CASE e \in {<<h, ":", p>> : h \in Hosts, p \in Ports}
  <2>1. PICK h \in Hosts, p \in Ports : e = <<h, ":", p>>
    BY <1>2
  <2>2. h \in Tokens /\ ":" \in Tokens /\ p \in Tokens
    BY DEF Tokens
  <2>. QED BY <2>1, <2>2
<1>3. CASE e \in {<<s, h>> : s \in Schemes, h \in Hosts}
  <2>1. PICK s \in Schemes, h \in Hosts : e = <<s, h>>
    BY <1>3
  <2>. QED BY <2>1 DEF Tokens
<1>4. CASE e \in {<<s, h, ":", p>> : s \in Schemes, h \in Hosts, p \in Ports}
  <2>1. PICK s \in Schemes, h \in Hosts, p \in Ports : e = <<s, h, ":", p>>
    BY <1>4
  <2>2. s \in Tokens /\ h \in Tokens /\ ":" \in Tokens /\ p \in Tokens
    BY DEF Tokens
  <2>. QED BY <2>1, <2>2
<1>. QED BY <1>1, <1>2, <1>3, <1>4 DEF Addresses

\* A slash at the end is one that TrimRight cuts off.
LEMMA NoSlash ==
  ASSUME NEW q \in Seq(Tokens), NEW e, e = Append(q, "/")
  PROVE  TrimRight(e) # e
<1>1. /\ e \in Seq(Tokens) /\ Len(e) = Len(q) + 1 /\ Len(q) \in Nat /\ e[Len(q) + 1] = "/"
  BY AppendElements DEF Tokens
<1>2. e # <<>> /\ Last(e) = "/"
  BY <1>1 DEF Last
<1>3. TrimRight(e) = SubSeq(e, 1, Len(e) - 1)
  BY <1>2 DEF TrimRight
<1>4. DOMAIN SubSeq(e, 1, Len(e) - 1) = 1..(Len(e) - 1) /\ DOMAIN e = 1..Len(e)
  BY <1>1, <1>2, FrontElements
<1>. QED BY <1>1, <1>3, <1>4

\* The forms an endpoint has without a slash at its end.
LEMMA Forms ==
  ASSUME NEW e \in Endpoints, TrimRight(e) = e
  PROVE  e = <<>> \/ e \in Addresses
<1>1. \A q \in Addresses : e # Append(q, "/")
  BY NoSlash, AddressTokens
<1>. QED BY <1>1 DEF Endpoints

\* Short sequences, put together: a host and a port.
LEMMA OneAndTwo ==
  ASSUME NEW a, NEW b, NEW c
  PROVE  <<a>> \o <<b, c>> = <<a, b, c>>
<1>. DEFINE S == {a, b, c}
            t == <<a>> \o <<b, c>>
<1>1. <<a>> \in Seq(S) /\ <<b, c>> \in Seq(S)
  OBVIOUS
<1>2. t \in Seq(S) /\ Len(t) = 3 /\ t[1] = a /\ t[2] = b /\ t[3] = c
  BY <1>1
<1>. HIDE DEF t
<1>3. t = <<a, b, c>>
  BY <1>2
<1>. QED BY <1>3 DEF t

\* A scheme and what follows it.
LEMMA OneAndThree ==
  ASSUME NEW a, NEW b, NEW c, NEW d
  PROVE  <<a>> \o <<b, c, d>> = <<a, b, c, d>>
<1>. DEFINE S == {a, b, c, d}
            t == <<a>> \o <<b, c, d>>
<1>1. <<a>> \in Seq(S) /\ <<b, c, d>> \in Seq(S)
  OBVIOUS
<1>2. t \in Seq(S) /\ Len(t) = 4 /\ t[1] = a /\ t[2] = b /\ t[3] = c /\ t[4] = d
  BY <1>1
<1>. HIDE DEF t
<1>3. t = <<a, b, c, d>>
  BY <1>2
<1>. QED BY <1>3 DEF t

\* An address and a port.
LEMMA TwoAndTwo ==
  ASSUME NEW a, NEW b, NEW c, NEW d
  PROVE  <<a, b>> \o <<c, d>> = <<a, b, c, d>>
<1>. DEFINE S == {a, b, c, d}
            t == <<a, b>> \o <<c, d>>
<1>1. <<a, b>> \in Seq(S) /\ <<c, d>> \in Seq(S)
  OBVIOUS
<1>2. t \in Seq(S) /\ Len(t) = 4 /\ t[1] = a /\ t[2] = b /\ t[3] = c /\ t[4] = d
  BY <1>1
<1>. HIDE DEF t
<1>3. t = <<a, b, c, d>>
  BY <1>2
<1>. QED BY <1>3 DEF t

\* A host is not mistaken for a scheme, nor for the colon before a port.
LEMMA HostToken ==
  ASSUME NEW h \in Hosts
  PROVE  h # "http://" /\ h # "https://" /\ h # ":" /\ h # "/"
BY TokensAssumption DEF Schemes

\* Which of them have a colon.
LEMMA Colons ==
  ASSUME NEW h \in Hosts, NEW s \in Schemes, NEW p
  PROVE  /\ ":" \notin Range(<<h>>) /\ ":" \in Range(<<h, ":", p>>)
         /\ ":" \notin Range(<<s, h>>) /\ ":" \in Range(<<s, h, ":", p>>)
<1>1. h # ":" /\ s # ":"
  BY HostToken DEF Schemes
<1>2. ":" \notin Range(<<h>>) /\ ":" \notin Range(<<s, h>>)
  BY <1>1 DEF Range
<1>3. ":" \in Range(<<h, ":", p>>)
  <2>1. 2 \in DOMAIN <<h, ":", p>> /\ <<h, ":", p>>[2] = ":"
    OBVIOUS
  <2>. QED BY <2>1 DEF Range
<1>4. ":" \in Range(<<s, h, ":", p>>)
  <2>1. 3 \in DOMAIN <<s, h, ":", p>> /\ <<s, h, ":", p>>[3] = ":"
    OBVIOUS
  <2>. QED BY <2>1 DEF Range
<1>. QED BY <1>2, <1>3, <1>4

\* A host gets the default port; a port that was given stays.
LEMMA HostPort ==
  ASSUME NEW h \in Hosts, NEW p, NEW port
  PROVE  /\ ensurePort(<<h>>, port) = <<h, ":", port>>
         /\ ensurePort(<<h, ":", p>>, port) = <<h, ":", p>>
<1>1. ":" \notin Range(<<h>>) /\ ":" \in Range(<<h, ":", p>>)
  BY Colons DEF Schemes
<1>2. <<h>> \o <<":", port>> = <<h, ":", port>>
  BY OneAndTwo
<1>. QED BY <1>1, <1>2 DEF ensurePort

-----------------------------------------------------------------------------
\* What a variable about addresses may hold.
EnvOK == env.endpoint \in Endpoints /\ env.insecure \in BOOLEAN

\* The two ways to an address agree, with the override and without it.
Overridden == env.http_url # <<>> => SDKBase = ResolveHTTPBase
Derived ==
  env.http_url = <<>> /\ TrimRight(env.endpoint) = env.endpoint =>
    /\ SDKBase # <<>> => explicit(SDKBase) = explicit(ResolveHTTPBase)
    /\ HasPrefix(env.endpoint, "https://") /\ ~env.insecure => SDKBase # <<>>

\* An address without TLS whose host is not a scheme gives no base.
LEMMA NoBase ==
  ASSUME env.http_url = <<>>, NEW a, a # <<>>, a[1] # "http://", a[1] # "https://"
  PROVE  httpBaseURL(a, FALSE) = <<>> /\ httpBaseURL(a, TRUE) = <<"https://">> \o a
BY DEF httpBaseURL, HasPrefix

\* An endpoint without a scheme, or none: TLS is off and there is no base.
LEMMA WithoutScheme ==
  ASSUME EnvOK, env.http_url = <<>>, NEW h,
         \/ env.endpoint = <<>>
         \/ h \in Hosts /\ (env.endpoint = <<h>> \/ \E p : env.endpoint = <<h, ":", p>>)
  PROVE  SDKBase = <<>> /\ ~HasPrefix(env.endpoint, "https://")
<1>. DEFINE a == IF env.endpoint = <<>> THEN <<"api", ":", "9090">> ELSE env.endpoint
<1>1. a # <<>> /\ a[1] # "http://" /\ a[1] # "https://"
  BY HostToken
<1>2. ~HasPrefix(env.endpoint, "https://")
  BY HostToken DEF HasPrefix
<1>. HIDE DEF a
<1>3. parseEndpoint(a, env.insecure) = [endpoint |-> a, useTLS |-> FALSE]
  BY <1>1 DEF parseEndpoint, HasPrefix
<1>4. resolve = [endpoint |-> a, useTLS |-> FALSE]
  BY <1>3 DEF resolve, a
<1>. QED BY <1>1, <1>2, <1>4, NoBase DEF SDKBase

\* An endpoint with a scheme, with or without its port.
LEMMA WithScheme ==
  ASSUME EnvOK, env.http_url = <<>>, NEW s \in Schemes, NEW h \in Hosts, NEW p,
         env.endpoint = <<s, h>> \/ env.endpoint = <<s, h, ":", p>>,
         TrimRight(env.endpoint) = env.endpoint
  PROVE  /\ SDKBase # <<>> => explicit(SDKBase) = explicit(ResolveHTTPBase)
         /\ HasPrefix(env.endpoint, "https://") /\ ~env.insecure => SDKBase # <<>>
<1>. DEFINE port == IF env.endpoint = <<s, h>> THEN IF s = "https://" THEN "443" ELSE "80" ELSE p
            a == <<h, ":", port>>
<1>1. s \in {"http://", "https://"} /\ env.endpoint # <<>> /\ env.endpoint[1] = s
  BY DEF Schemes
<1>2. <<s, h>> # <<s, h, ":", p>>
  OBVIOUS
<1>3. ensurePort(Tail(env.endpoint), IF s = "https://" THEN "443" ELSE "80") = a
  <2>1. CASE env.endpoint = <<s, h>>
    <3>1. Tail(env.endpoint) = <<h>>
      BY <2>1
    <3>. QED BY <2>1, <3>1, HostPort
  <2>2. CASE env.endpoint = <<s, h, ":", p>>
    <3>1. Tail(env.endpoint) = <<h, ":", p>> /\ port = p
      BY <1>2, <2>2
    <3>. QED BY <3>1, HostPort
  <2>. QED BY <2>1, <2>2
<1>4. a # <<>> /\ a[1] # "http://" /\ a[1] # "https://"
  BY HostToken
<1>5. ResolveHTTPBase = env.endpoint
  BY <1>1 DEF ResolveHTTPBase, HasPrefix
<1>6. <<"https://">> \o a = <<"https://", h, ":", port>>
  BY OneAndThree
<1>7. explicit(env.endpoint) = <<s, h, ":", port>>
  <2>1. ":" \notin Range(<<s, h>>) /\ ":" \in Range(<<s, h, ":", p>>)
    BY Colons
  <2>2. \A q : <<s, h>> \o <<":", q>> = <<s, h, ":", q>>
    BY TwoAndTwo
  <2>3. CASE env.endpoint = <<s, h>>
    BY <1>1, <2>1, <2>2, <2>3 DEF explicit
  <2>4. CASE env.endpoint = <<s, h, ":", p>>
    BY <1>2, <2>1, <2>4 DEF explicit
  <2>. QED BY <2>3, <2>4
<1>. HIDE DEF a, port
<1>8. resolve = [endpoint |-> a, useTLS |-> s = "https://" /\ ~env.insecure]
  <2>1. parseEndpoint(env.endpoint, env.insecure)
          = [endpoint |-> a, useTLS |-> s = "https://" /\ ~env.insecure]
    <3>1. CASE s = "https://"
      BY <1>1, <1>3, <3>1 DEF parseEndpoint, HasPrefix
    <3>2. CASE s = "http://"
      BY <1>1, <1>3, <3>2 DEF parseEndpoint, HasPrefix
    <3>. QED BY <1>1, <3>1, <3>2
  <2>. QED BY <1>1, <2>1 DEF resolve
<1>9. HasPrefix(env.endpoint, "https://") <=> s = "https://"
  BY <1>1 DEF HasPrefix
<1>10. CASE s = "https://" /\ ~env.insecure
  <2>1. SDKBase = <<"https://", h, ":", port>>
    BY <1>4, <1>6, <1>8, <1>10, NoBase DEF SDKBase
  <2>2. ":" \in Range(SDKBase)
    <3>1. ":" \in Range(<<s, h, ":", port>>)
      BY Colons
    <3>2. SDKBase = <<s, h, ":", port>>
      BY <1>10, <2>1
    <3>. QED BY <3>1, <3>2
  <2>3. SDKBase # <<>> /\ explicit(SDKBase) = SDKBase
    BY <2>1, <2>2 DEF explicit
  <2>. QED BY <1>5, <1>7, <1>10, <2>1, <2>3
<1>11. CASE ~(s = "https://" /\ ~env.insecure)
  <2>1. SDKBase = <<>>
    BY <1>4, <1>8, <1>11, NoBase DEF SDKBase
  <2>. QED BY <1>9, <1>11, <2>1
<1>. QED BY <1>10, <1>11

\* Whatever the environment, logs, manifest and scanned routes go to one server.
LEMMA Agrees ==
  ASSUME EnvOK
  PROVE  BaseAgrees
<1>1. Overridden
  BY DEF Overridden, SDKBase, httpBaseURL, ResolveHTTPBase
<1>2. Derived
  <2>. SUFFICES ASSUME env.http_url = <<>>, TrimRight(env.endpoint) = env.endpoint
                PROVE  /\ SDKBase # <<>> => explicit(SDKBase) = explicit(ResolveHTTPBase)
                       /\ HasPrefix(env.endpoint, "https://") /\ ~env.insecure => SDKBase # <<>>
    BY DEF Derived
  <2>1. env.endpoint = <<>> \/ env.endpoint \in Addresses
    BY Forms DEF EnvOK
  <2>2. CASE env.endpoint = <<>>
    BY <2>2, WithoutScheme
  <2>3. CASE env.endpoint \in {<<h>> : h \in Hosts}
    <3>1. PICK h \in Hosts : env.endpoint = <<h>>
      BY <2>3
    <3>. QED BY <3>1, WithoutScheme
  <2>4. CASE env.endpoint \in {<<h, ":", p>> : h \in Hosts, p \in Ports}
    <3>1. PICK h \in Hosts, p \in Ports : env.endpoint = <<h, ":", p>>
      BY <2>4
    <3>. QED BY <3>1, WithoutScheme
  <2>5. CASE env.endpoint \in {<<s, h>> : s \in Schemes, h \in Hosts}
    <3>1. PICK s \in Schemes, h \in Hosts : env.endpoint = <<s, h>>
      BY <2>5
    <3>. QED BY <3>1, WithScheme
  <2>6. CASE env.endpoint \in {<<s, h, ":", p>> : s \in Schemes, h \in Hosts, p \in Ports}
    <3>1. PICK s \in Schemes, h \in Hosts, p \in Ports : env.endpoint = <<s, h, ":", p>>
      BY <2>6
    <3>. QED BY <3>1, WithScheme
  <2>. QED BY <2>1, <2>2, <2>3, <2>4, <2>5, <2>6 DEF Addresses
<1>. QED BY <1>1, <1>2 DEF Overridden, Derived, BaseAgrees

\* The environment is set once, to variables that hold endpoints.
THEOREM OneServer == SettingsSpec => []BaseAgrees
<1>1. SettingsInit => EnvOK
  BY DEF SettingsInit, EnvOK, Unset, Endpoints
<1>2. EnvOK /\ [SetEnv]_env => EnvOK'
  BY DEF EnvOK, SetEnv
<1>3. EnvOK => BaseAgrees
  BY Agrees
<1>. QED BY <1>1, <1>2, <1>3, PTL DEF SettingsSpec

-----------------------------------------------------------------------------

\* Catalog: the order of routes, the sorted set, and the cut at the cap.

\* A list without duplicates orders its elements.
LEMMA ListOrder ==
  ASSUME NEW list, list \in Seq(Range(list)), \A i, j \in DOMAIN list : list[i] = list[j] => i = j
  PROVE  /\ \A a : ~precedes(list, a, a)
         /\ \A a, b, c : precedes(list, a, b) /\ precedes(list, b, c) => precedes(list, a, c)
         /\ \A a, b \in Range(list) : a = b \/ precedes(list, a, b) \/ precedes(list, b, a)
<1>0. DOMAIN list \subseteq Int
  OBVIOUS
<1>1. ASSUME NEW a, precedes(list, a, a) PROVE FALSE
  BY <1>0, <1>1 DEF precedes
<1>2. ASSUME NEW a, NEW b, NEW c, precedes(list, a, b), precedes(list, b, c)
      PROVE  precedes(list, a, c)
  <2>1. PICK m, n \in DOMAIN list : m < n /\ list[m] = a /\ list[n] = b
    BY <1>2 DEF precedes
  <2>2. PICK k, l \in DOMAIN list : k < l /\ list[k] = b /\ list[l] = c
    BY <1>2 DEF precedes
  <2>3. n = k
    BY <2>1, <2>2
  <2>4. m < l
    BY <1>0, <2>1, <2>2, <2>3
  <2>. QED BY <2>1, <2>2, <2>4 DEF precedes
<1>3. ASSUME NEW a \in Range(list), NEW b \in Range(list), a # b
      PROVE  precedes(list, a, b) \/ precedes(list, b, a)
  <2>1. PICK m \in DOMAIN list : list[m] = a
    BY DEF Range
  <2>2. PICK n \in DOMAIN list : list[n] = b
    BY DEF Range
  <2>3. m < n \/ n < m
    BY <1>0, <1>3, <2>1, <2>2
  <2>. QED BY <2>1, <2>2, <2>3 DEF precedes
<1>. QED BY <1>1, <1>2, <1>3

Strings == Range(Segments)
Paths == Seq(Strings)

\* No path comes before itself.
LEMMA BeforeIrreflexive == \A p \in Paths : ~Before(p, p)
<1>. SUFFICES ASSUME NEW p \in Paths, Before(p, p) PROVE FALSE
  OBVIOUS
<1>1. PICK i \in 1 .. Len(p) : i > Len(p) \/ precedes(Segments, p[i], p[i])
  BY DEF Before
<1>2. \A a : ~precedes(Segments, a, a)
  BY CatalogAssumption, ListOrder
<1>. QED BY <1>1, <1>2 DEF Paths

\* The order of paths is transitive.
LEMMA BeforeTransitive ==
  ASSUME NEW p \in Paths, NEW q \in Paths, NEW r \in Paths, Before(p, q), Before(q, r)
  PROVE  Before(p, r)
<1>0. Len(p) \in Nat /\ Len(q) \in Nat /\ Len(r) \in Nat
  BY DEF Paths
<1>1. PICK i \in 1 .. Len(q) : /\ \A j \in 1 .. i - 1 : j <= Len(p) /\ p[j] = q[j]
                               /\ i > Len(p) \/ precedes(Segments, p[i], q[i])
  BY DEF Before
<1>2. PICK k \in 1 .. Len(r) : /\ \A j \in 1 .. k - 1 : j <= Len(q) /\ q[j] = r[j]
                               /\ k > Len(q) \/ precedes(Segments, q[k], r[k])
  BY DEF Before
<1>3. \A a, b, c : precedes(Segments, a, b) /\ precedes(Segments, b, c) => precedes(Segments, a, c)
  BY CatalogAssumption, ListOrder
<1>4. CASE i < k
  <2>1. i \in 1 .. k - 1 /\ i \in 1 .. Len(r) /\ i <= Len(q) /\ q[i] = r[i]
    BY <1>0, <1>2, <1>4
  <2>2. \A j \in 1 .. i - 1 : j \in 1 .. k - 1
    BY <1>4
  <2>3. \A j \in 1 .. i - 1 : j <= Len(p) /\ p[j] = r[j]
    BY <1>1, <1>2, <2>2
  <2>4. i > Len(p) \/ precedes(Segments, p[i], r[i])
    BY <1>1, <2>1
  <2>. QED BY <2>1, <2>3, <2>4 DEF Before
<1>5. CASE i = k
  <2>1. \A j \in 1 .. i - 1 : j <= Len(p) /\ p[j] = r[j]
    BY <1>1, <1>2, <1>5
  <2>2. i > Len(p) \/ precedes(Segments, p[i], r[i])
    BY <1>0, <1>1, <1>2, <1>3, <1>5
  <2>. QED BY <1>5, <2>1, <2>2 DEF Before
<1>6. CASE k < i
  <2>1. k \in 1 .. i - 1 /\ k <= Len(p) /\ p[k] = q[k] /\ k <= Len(q)
    BY <1>0, <1>1, <1>6
  <2>2. \A j \in 1 .. k - 1 : j \in 1 .. i - 1
    BY <1>6
  <2>3. \A j \in 1 .. k - 1 : j <= Len(p) /\ p[j] = r[j]
    BY <1>1, <1>2, <2>2
  <2>4. precedes(Segments, p[k], r[k])
    BY <1>0, <1>2, <2>1
  <2>. QED BY <2>3, <2>4 DEF Before
<1>. QED BY <1>4, <1>5, <1>6

\* Of two paths one comes before the other: they differ at a first place.
LEMMA BeforeTotal ==
  ASSUME NEW p \in Paths, NEW q \in Paths, p # q
  PROVE  Before(p, q) \/ Before(q, p)
<1>. DEFINE differ == {i \in Nat : /\ 1 <= i
                                   /\ i <= Len(p) \/ i <= Len(q)
                                   /\ ~(i <= Len(p) /\ i <= Len(q) /\ p[i] = q[i])}
<1>0. /\ Len(p) \in Nat /\ Len(q) \in Nat
      /\ \A i \in 1 .. Len(p) : p[i] \in Strings
      /\ \A i \in 1 .. Len(q) : q[i] \in Strings
  BY DEF Paths
<1>1. differ # {}
  <2>. SUFFICES ASSUME differ = {} PROVE FALSE
    OBVIOUS
  <2>1. Len(p) = Len(q)
    <3>1. CASE Len(p) < Len(q)
      <4>1. Len(q) \in differ
        BY <1>0, <3>1
      <4>. QED BY <4>1
    <3>2. CASE Len(q) < Len(p)
      <4>1. Len(p) \in differ
        BY <1>0, <3>2
      <4>. QED BY <4>1
    <3>. QED BY <1>0, <3>1, <3>2
  <2>2. \A i \in 1 .. Len(p) : p[i] = q[i]
    BY <1>0, <2>1
  <2>. QED BY <2>1, <2>2 DEF Paths
<1>2. PICK i \in differ : \A j \in differ : i <= j
  BY <1>1, Least
<1>3. /\ i \in Nat /\ 1 <= i
      /\ i <= Len(p) \/ i <= Len(q)
      /\ ~(i <= Len(p) /\ i <= Len(q) /\ p[i] = q[i])
  OBVIOUS
<1>4. ASSUME NEW j \in 1 .. i - 1 PROVE j <= Len(p) /\ j <= Len(q) /\ p[j] = q[j]
  <2>1. j \in Nat /\ 1 <= j /\ ~(i <= j) /\ (j <= Len(p) \/ j <= Len(q))
    BY <1>0, <1>3
  <2>2. j \notin differ
    BY <1>2, <2>1
  <2>. QED BY <2>1, <2>2
<1>. HIDE DEF differ
<1>5. CASE i > Len(p)
  <2>1. i \in 1 .. Len(q)
    BY <1>0, <1>3, <1>5
  <2>. QED BY <1>4, <1>5, <2>1 DEF Before
<1>6. CASE i > Len(q)
  <2>1. i \in 1 .. Len(p)
    BY <1>0, <1>3, <1>6
  <2>2. \A j \in 1 .. i - 1 : j <= Len(q) /\ q[j] = p[j]
    BY <1>4
  <2>. QED BY <1>6, <2>1, <2>2 DEF Before
<1>7. CASE i <= Len(p) /\ i <= Len(q)
  <2>1. i \in 1 .. Len(p) /\ i \in 1 .. Len(q) /\ p[i] # q[i]
    BY <1>0, <1>3, <1>7
  <2>2. precedes(Segments, p[i], q[i]) \/ precedes(Segments, q[i], p[i])
    <3>1. \A a, b \in Strings : a = b \/ precedes(Segments, a, b) \/ precedes(Segments, b, a)
      BY CatalogAssumption, ListOrder DEF Strings
    <3>. QED BY <1>0, <2>1, <3>1
  <2>3. \A j \in 1 .. i - 1 : j <= Len(q) /\ q[j] = p[j]
    BY <1>4
  <2>4. \A j \in 1 .. i - 1 : j <= Len(p) /\ p[j] = q[j]
    BY <1>4
  <2>. QED BY <2>1, <2>2, <2>3, <2>4 DEF Before
<1>. QED BY <1>0, <1>3, <1>5, <1>6, <1>7

\* Routes the scanner can make.
Routes(handlers) == [method : Range(Verbs), path : Paths, handler : handlers]

\* Routes are ordered by their keys.
LEMMA LessIsOrder ==
  ASSUME NEW H, NEW a \in Routes(H), NEW b \in Routes(H), NEW c \in Routes(H)
  PROVE  /\ ~Less(a, a)
         /\ Less(a, b) /\ Less(b, c) => Less(a, c)
         /\ Key(a) # Key(b) => Less(a, b) \/ Less(b, a)
<1>1. /\ Verbs \in Seq(Range(Verbs)) /\ \A i, j \in DOMAIN Verbs : Verbs[i] = Verbs[j] => i = j
  <2>1. Verbs \in Seq(Range(Verbs))
    <3>1. \A i \in 1 .. 4 : Verbs[i] \in Range(Verbs)
      BY DEF Verbs, Range
    <3>. QED BY <3>1 DEF Verbs
  <2>. QED BY <2>1 DEF Verbs
<1>2. /\ \A x : ~precedes(Verbs, x, x)
      /\ \A x, y, z : precedes(Verbs, x, y) /\ precedes(Verbs, y, z) => precedes(Verbs, x, z)
      /\ \A x, y \in Range(Verbs) : x = y \/ precedes(Verbs, x, y) \/ precedes(Verbs, y, x)
  BY <1>1, ListOrder
<1>3. /\ a.method \in Range(Verbs) /\ b.method \in Range(Verbs)
      /\ a.path \in Paths /\ b.path \in Paths /\ c.path \in Paths
  BY DEF Routes
<1>4. ~Less(a, a)
  BY <1>2, <1>3, BeforeIrreflexive DEF Less
<1>5. Less(a, b) /\ Less(b, c) => Less(a, c)
  BY <1>2, <1>3, BeforeTransitive DEF Less
<1>6. Key(a) # Key(b) => Less(a, b) \/ Less(b, a)
  BY <1>2, <1>3, BeforeTotal DEF Less, Key
<1>. QED BY <1>4, <1>5, <1>6

\* A set of routes that differ in their keys, and the routes before one of it.
Distinct(set, H) ==
  set \subseteq Routes(H) /\ IsFiniteSet(set) /\ \A a, b \in set : Key(a) = Key(b) => a = b
Rank(set, a) == Cardinality({b \in set : Less(b, a)})

\* The rank of a route is below the number of routes, and grows with the order.
LEMMA RankFacts ==
  ASSUME NEW H, NEW set, Distinct(set, H)
  PROVE  /\ \A a \in set : Rank(set, a) \in 0 .. Cardinality(set) - 1
         /\ \A a, b \in set : Less(a, b) => Rank(set, a) < Rank(set, b)
         /\ \A a, b \in set : a # b => Less(a, b) \/ Less(b, a)
         /\ \A a \in set : ~Less(a, a)
<1>0. /\ \A a \in set : a \in Routes(H)
      /\ IsFiniteSet(set) /\ \A a, b \in set : Key(a) = Key(b) => a = b
  BY DEF Distinct
<1>1. /\ \A a \in set : ~Less(a, a)
      /\ \A a, b, c \in set : Less(a, b) /\ Less(b, c) => Less(a, c)
      /\ \A a, b \in set : a # b => Less(a, b) \/ Less(b, a)
  BY <1>0, LessIsOrder
<1>2. \A a \in set : /\ IsFiniteSet({b \in set : Less(b, a)}) /\ Rank(set, a) \in Nat
  BY <1>0, FS_Subset, FS_CardinalityType DEF Rank
<1>3. Cardinality(set) \in Nat
  BY <1>0, FS_CardinalityType
<1>4. ASSUME NEW a \in set PROVE Rank(set, a) \in 0 .. Cardinality(set) - 1
  <2>. DEFINE before == {b \in set : Less(b, a)}
  <2>1. before \in SUBSET (set \ {a})
    BY <1>1
  <2>2. IsFiniteSet(set \ {a}) /\ Cardinality(set \ {a}) = Cardinality(set) - 1
    BY <1>0, FS_RemoveElement
  <2>. HIDE DEF before
  <2>3. Cardinality(before) <= Cardinality(set) - 1
    BY <2>1, <2>2, FS_Subset
  <2>4. Rank(set, a) = Cardinality(before)
    BY DEF Rank, before
  <2>5. Cardinality(before) \in Nat
    BY <1>2, <2>4
  <2>. QED BY <1>3, <2>3, <2>4, <2>5
<1>5. ASSUME NEW a \in set, NEW b \in set, Less(a, b) PROVE Rank(set, a) < Rank(set, b)
  <2>. DEFINE A == {x \in set : Less(x, a)}
              B == {x \in set : Less(x, b)}
  <2>1. A \cup {a} \in SUBSET B
    BY <1>1, <1>5
  <2>2. a \notin A
    BY <1>1
  <2>3. IsFiniteSet(A) /\ IsFiniteSet(B) /\ Cardinality(A) \in Nat /\ Cardinality(B) \in Nat
    BY <1>2 DEF Rank
  <2>4. Rank(set, a) = Cardinality(A) /\ Rank(set, b) = Cardinality(B)
    BY DEF Rank
  <2>. HIDE DEF A, B
  <2>5. Cardinality(A \cup {a}) = Cardinality(A) + 1
    BY <2>2, <2>3, FS_AddElement
  <2>6. Cardinality(A \cup {a}) <= Cardinality(B)
    BY <2>1, <2>3, FS_Subset
  <2>. QED BY <2>3, <2>4, <2>5, <2>6
<1>. QED BY <1>1, <1>4, <1>5

\* Sorting puts every route of the set at one place, in order.
LEMMA SortedFacts ==
  ASSUME NEW H, NEW set, Distinct(set, H), NEW out, out = sorted(set)
  PROVE  /\ Cardinality(set) \in Nat
         /\ out \in [1 .. Cardinality(set) -> set]
         /\ \A i, j \in 1 .. Cardinality(set) : i < j => Less(out[i], out[j])
         /\ \A a \in set : \E i \in 1 .. Cardinality(set) : out[i] = a
<1>. DEFINE n == Cardinality(set)
            rank == [a \in set |-> Rank(set, a)]
<1>0. IsFiniteSet(set) /\ n \in Nat
  BY FS_CardinalityType DEF Distinct
<1>1. /\ \A a \in set : Rank(set, a) \in 0 .. n - 1
      /\ \A a, b \in set : Less(a, b) => Rank(set, a) < Rank(set, b)
      /\ \A a, b \in set : a # b => Less(a, b) \/ Less(b, a)
      /\ \A a \in set : ~Less(a, a)
  BY RankFacts
<1>2. rank \in [set -> 0 .. n - 1]
  BY <1>1
<1>3. \A a, b \in set : Rank(set, a) = Rank(set, b) => a = b
  <2>1. \A a \in set : Rank(set, a) \in Int
    BY <1>1
  <2>. QED BY <1>1, <2>1
<1>4. rank \in Injection(set, 0 .. n - 1)
  BY <1>2, <1>3 DEF Injection, IsInjective
<1>5. IsFiniteSet(0 .. n - 1) /\ Cardinality(0 .. n - 1) = n
  BY <1>0, FS_Interval
<1>6. rank \in Surjection(set, 0 .. n - 1)
  BY <1>4, <1>5, FS_Injection
<1>7. \A k \in 0 .. n - 1 : \E a \in set : Rank(set, a) = k
  BY <1>6 DEF Surjection
<1>8. \A i \in 1 .. n : out[i] = CHOOSE a \in set : Rank(set, a) = i - 1
  BY DEF sorted, Rank
<1>9. ASSUME NEW i \in 1 .. n PROVE out[i] \in set /\ Rank(set, out[i]) = i - 1
  <2>1. i - 1 \in 0 .. n - 1
    BY <1>0
  <2>. QED BY <1>7, <1>8, <2>1
<1>10. out \in [1 .. n -> set]
  BY <1>9 DEF sorted
<1>. HIDE DEF n, rank
<1>11. ASSUME NEW i \in 1 .. n, NEW j \in 1 .. n, i < j PROVE Less(out[i], out[j])
  <2>1. /\ out[i] \in set /\ Rank(set, out[i]) = i - 1
        /\ out[j] \in set /\ Rank(set, out[j]) = j - 1
    BY <1>9
  <2>2. out[i] # out[j] /\ ~(j - 1 < i - 1)
    BY <1>0, <1>11, <2>1
  <2>. QED BY <1>1, <2>1, <2>2
<1>12. ASSUME NEW a \in set PROVE \E i \in 1 .. n : out[i] = a
  <2>1. Rank(set, a) \in 0 .. n - 1
    BY <1>1
  <2>2. Rank(set, a) + 1 \in 1 .. n /\ (Rank(set, a) + 1) - 1 = Rank(set, a)
    BY <1>0, <2>1
  <2>3. out[Rank(set, a) + 1] \in set /\ Rank(set, out[Rank(set, a) + 1]) = Rank(set, a)
    BY <1>9, <2>2
  <2>. QED BY <1>3, <2>2, <2>3
<1>. QED BY <1>0, <1>10, <1>11, <1>12 DEF n

\* The place where a key is found first.
LEMMA FirstOfKey ==
  ASSUME NEW list, NEW n \in Nat, DOMAIN list = 1 .. n, NEW i \in 1 .. n
  PROVE  LET same == {j \in DOMAIN list : Key(list[j]) = Key(list[i])}
         IN  Min(same) \in Firsts(list) /\ Key(list[Min(same)]) = Key(list[i])
<1>. DEFINE same == {j \in DOMAIN list : Key(list[j]) = Key(list[i])}
<1>1. same \subseteq Nat /\ same # {}
  OBVIOUS
<1>2. PICK f \in same : \A j \in same : f <= j
  BY <1>1, Least
<1>3. Min(same) = f
  BY <1>1, <1>2, MinIs
<1>4. f \in DOMAIN list /\ f \in Nat /\ Key(list[f]) = Key(list[i])
  OBVIOUS
<1>5. ASSUME NEW j \in 1 .. f - 1 PROVE Key(list[j]) # Key(list[f])
  <2>1. j \in DOMAIN list /\ ~(f <= j)
    BY <1>4
  <2>2. j \notin same
    BY <1>2, <2>1
  <2>. QED BY <1>4, <2>1, <2>2
<1>. QED BY <1>3, <1>4, <1>5 DEF Firsts

Keys(list) == {Key(list[i]) : i \in DOMAIN list}
FirstOf(list, key) == list[Min({i \in DOMAIN list : Key(list[i]) = key})]
FirstRoutes(list) == {list[i] : i \in Firsts(list)}

\* The first routes of each key: one for each, found at the place of the first.
LEMMA FirstRoutesFacts ==
  ASSUME NEW H, NEW list \in Seq(Routes(H))
  PROVE  /\ Distinct(FirstRoutes(list), H)
         /\ Cardinality(FirstRoutes(list)) = Cardinality(Keys(list))
         /\ \A a \in FirstRoutes(list) : Key(a) \in Keys(list) /\ a = FirstOf(list, Key(a))
         /\ \A key \in Keys(list) : /\ FirstOf(list, key) \in FirstRoutes(list)
                                   /\ Key(FirstOf(list, key)) = key
<1>. DEFINE n == Len(list)
            first(key) == Min({i \in DOMAIN list : Key(list[i]) = key})
            set == FirstRoutes(list)
            keys == Keys(list)
<1>0. /\ n \in Nat /\ DOMAIN list = 1 .. n /\ \A i \in 1 .. n : list[i] \in Routes(H)
      /\ Firsts(list) \subseteq 1 .. n
  BY DEF Firsts
<1>1. \A i \in 1 .. n : first(Key(list[i])) \in Firsts(list) /\ Key(list[first(Key(list[i]))]) = Key(list[i])
  BY <1>0, FirstOfKey
<1>2. ASSUME NEW i \in Firsts(list), NEW j \in Firsts(list), Key(list[i]) = Key(list[j]) PROVE i = j
  <2>1. i \in Nat /\ j \in Nat /\ i <= n /\ j <= n
    BY <1>0
  <2>2. ~(i \in 1 .. j - 1) /\ ~(j \in 1 .. i - 1)
    BY <1>2 DEF Firsts
  <2>. QED BY <1>0, <2>1, <2>2
<1>. HIDE DEF n, first
<1>3. \A a \in set : \E i \in Firsts(list) : a = list[i]
  BY DEF FirstRoutes
<1>4. \A a \in set : a \in Routes(H) /\ Key(a) \in keys
  BY <1>0, <1>3 DEF Keys
<1>5. \A a, b \in set : Key(a) = Key(b) => a = b
  BY <1>2, <1>3
<1>6. IsFiniteSet(set)
  <2>. DEFINE g == [i \in Firsts(list) |-> list[i]]
  <2>1. g \in Surjection(Firsts(list), set)
    BY DEF Surjection, FirstRoutes
  <2>2. IsFiniteSet(Firsts(list))
    BY <1>0, FS_Interval, FS_Subset
  <2>. HIDE DEF g
  <2>. QED BY <2>1, <2>2, FS_Surjection
<1>7. Distinct(set, H)
  BY <1>4, <1>5, <1>6 DEF Distinct
<1>8. \A key \in keys : list[first(key)] \in set /\ Key(list[first(key)]) = key
  BY <1>0, <1>1 DEF Keys, FirstRoutes
<1>. HIDE DEF set, keys
<1>9. \A a \in set : a = list[first(Key(a))]
  BY <1>4, <1>5, <1>8
<1>10. Cardinality(set) = Cardinality(keys)
  <2>. DEFINE g == [a \in set |-> Key(a)]
  <2>1. g \in [set -> keys]
    BY <1>4
  <2>2. g \in Surjection(set, keys)
    <3>1. \A key \in keys : \E a \in set : g[a] = key
      BY <1>8
    <3>. QED BY <2>1, <3>1 DEF Surjection
  <2>3. g \in Injection(set, keys)
    BY <1>5, <2>1 DEF Injection, IsInjective
  <2>. HIDE DEF g
  <2>4. ExistsBijection(set, keys)
    BY <2>2, <2>3 DEF ExistsBijection, Bijection
  <2>. QED BY <1>6, <2>4, FS_Bijection
<1>. QED BY <1>4, <1>7, <1>8, <1>9, <1>10 DEF first, set, keys, FirstOf

\* Whatever the walk has found, in any number and order, the catalog is
\* canonical (finalize, scan/scan.go:109-139).
THEOREM CatalogIsCanonical ==
  ASSUME NEW H, routes \in Seq(Routes(H))
  PROVE  CatalogCanonical
<1>. DEFINE first(key) == FirstOf(routes, key)
            out == finalize(routes)
<1>0. PICK set, keys : set = FirstRoutes(routes) /\ keys = Keys(routes)
  OBVIOUS
<1>1. /\ Distinct(set, H) /\ Cardinality(set) = Cardinality(keys)
      /\ \A a \in set : Key(a) \in keys /\ a = first(Key(a))
      /\ \A key \in keys : first(key) \in set /\ Key(first(key)) = key
  BY <1>0, FirstRoutesFacts
<1>1a. PICK n, m, all : n = Cardinality(set) /\ m = Min({n, MaxRoutes}) /\ all = sorted(set)
  OBVIOUS
<1>2. /\ n \in Nat /\ all \in [1 .. n -> set]
      /\ \A i, j \in 1 .. n : i < j => Less(all[i], all[j])
      /\ \A a \in set : \E i \in 1 .. n : all[i] = a
  BY <1>1, <1>1a, SortedFacts
<1>3. all \in Seq(set) /\ Len(all) = n
  BY <1>2, IsASeq, LenProperties
<1>4. out = SubSeq(all, 1, m)
  BY <1>0, <1>1a, <1>3 DEF finalize, Capped, FirstRoutes
<1>. HIDE DEF out, first
<1>5. m \in Nat /\ m <= n /\ m <= MaxRoutes /\ (m = n \/ m = MaxRoutes)
  <2>1. n \in Int /\ MaxRoutes \in Int
    BY <1>2, CatalogAssumption
  <2>2. m = IF n <= MaxRoutes THEN n ELSE MaxRoutes
    BY <1>1a, <2>1, MinOfTwo
  <2>. QED BY <1>2, <2>2, CatalogAssumption
<1>5a. m = Min({MaxRoutes, Cardinality(keys)})
  <2>1. {n, MaxRoutes} = {MaxRoutes, n}
    OBVIOUS
  <2>. QED BY <1>1, <1>1a, <2>1
<1>6. /\ out \in Seq(set) /\ Len(out) = m /\ \A i \in 1 .. m : out[i] = all[i]
  <2>1. \A i \in 1 .. m : all[i] \in set
    BY <1>2, <1>5
  <2>2. /\ SubSeq(all, 1, m) \in Seq(set)
        /\ Len(SubSeq(all, 1, m)) = IF 1 <= m THEN m - 1 + 1 ELSE 0
        /\ \A i \in 1 .. (m - 1 + 1) : SubSeq(all, 1, m)[i] = all[1 + i - 1]
    BY <1>3, <1>5, <2>1, SubSeqProperties
  <2>3. \A i \in 1 .. m : i \in 1 .. (m - 1 + 1) /\ 1 + i - 1 = i
    BY <1>5
  <2>. QED BY <1>4, <1>5, <2>2, <2>3
<1>7. DOMAIN out = 1 .. m
  BY <1>6
<1>8. \A i, j \in DOMAIN out : i < j => Less(out[i], out[j])
  BY <1>2, <1>5, <1>6, <1>7
<1>9. Len(out) = Min({MaxRoutes, Cardinality(Keys(routes))})
  BY <1>0, <1>5a, <1>6
<1>10. \A i \in DOMAIN out : out[i] = first(Key(out[i]))
  BY <1>1, <1>2, <1>5, <1>6, <1>7
<1>11. ASSUME NEW key \in Keys(routes) \ Keys(out), NEW i \in DOMAIN out
       PROVE  Less(out[i], first(key))
  <2>1. PICK j \in 1 .. n : all[j] = first(key)
    BY <1>0, <1>1, <1>2
  <2>2. j \notin 1 .. m
    <3>. SUFFICES ASSUME j \in 1 .. m PROVE FALSE
      OBVIOUS
    <3>1. out[j] = first(key) /\ j \in DOMAIN out
      BY <1>6, <1>7, <2>1
    <3>2. Key(out[j]) = key
      BY <1>0, <1>1, <3>1
    <3>. QED BY <3>1, <3>2 DEF Keys
  <2>3. i \in 1 .. n /\ i < j
    BY <1>2, <1>5, <1>7, <2>2
  <2>. QED BY <1>2, <1>6, <1>7, <2>1, <2>3
<1>. QED BY <1>8, <1>9, <1>10, <1>11 DEF CatalogCanonical, out, first, FirstOf, Keys

-----------------------------------------------------------------------------

\* LogRecords: maps of entries, one map on top of a result, and whole calls.

Maps(K) == UNION {[D -> Int] : D \in SUBSET K}

\* Putting an entry into a map.
LEMMA PutFacts ==
  ASSUME NEW K, NEW m \in Maps(K), NEW k \in K, NEW v \in Int
  PROVE  /\ put(m, k, v) \in Maps(K)
         /\ \A l : l \in DOMAIN put(m, k, v) <=> l \in DOMAIN m \/ l = k
         /\ put(m, k, v)[k] = v
         /\ \A l \in DOMAIN m : l # k => put(m, k, v)[l] = m[l]
<1>. DEFINE t == put(m, k, v)
<1>0. PICK D \in SUBSET K : m \in [D -> Int]
  BY DEF Maps
<1>1. t = [l \in D \cup {k} |-> IF l = k THEN v ELSE m[l]]
  BY <1>0 DEF put
<1>. HIDE DEF t
<1>2. t \in [D \cup {k} -> Int] /\ D \cup {k} \in SUBSET K
  BY <1>0, <1>1
<1>3. t \in Maps(K)
  BY <1>2 DEF Maps
<1>. QED BY <1>0, <1>1, <1>2, <1>3 DEF t

\* The empty map is one, and the domain of a map is a set of keys.
LEMMA MapFacts ==
  ASSUME NEW K
  PROVE  /\ <<>> \in Maps(K) /\ DOMAIN <<>> = {}
         /\ \A m \in Maps(K) : DOMAIN m \subseteq K /\ \A k \in DOMAIN m : m[k] \in Int
<1>1. <<>> \in [{} -> Int] /\ {} \in SUBSET K
  OBVIOUS
<1>2. <<>> \in Maps(K)
  BY <1>1 DEF Maps
<1>. QED BY <1>2 DEF Maps

Entries(K) == Seq(K \X Int)

\* The loop of toMap, entry by entry.
LEMMA ToMapLoop ==
  ASSUME NEW K, NEW es \in Entries(K)
  PROVE  \E f : /\ toMap(es) = f[Len(es)] /\ f[0] = <<>>
                /\ \A i \in 0 .. Len(es) : f[i] \in Maps(K)
                /\ \A i \in 1 .. Len(es) : f[i] = put(f[i - 1], es[i][1], es[i][2])
<1>. DEFINE n == Len(es)
            S == Maps(K)
            step == [i \in 1 .. n |-> [m \in S |-> put(m, es[i][1], es[i][2])]]
            loop(g) == g = [i \in 0 .. n |-> IF i = 0 THEN <<>> ELSE put(g[i - 1], es[i][1], es[i][2])]
<1>1. n \in Nat /\ \A i \in 1 .. n : es[i][1] \in K /\ es[i][2] \in Int
  BY DEF Entries
<1>2. \A i \in 1 .. n, m \in S : put(m, es[i][1], es[i][2]) \in S
  BY <1>1, PutFacts
<1>3. step \in [1 .. n -> [S -> S]]
  BY <1>2
<1>4. <<>> \in S
  BY MapFacts
<1>5. PICK f : f \in [0 .. n -> S] /\ f[0] = <<>> /\ \A i \in 1 .. n : f[i] = step[i][f[i - 1]]
  <2>1. n \in Nat
    BY <1>1
  <2>. HIDE DEF S, step, n
  <2>2. PICK f : Iterates(S, <<>>, n, step, f)
    BY <1>3, <1>4, <2>1, Iteration
  <2>. QED BY <2>2 DEF Iterates
<1>6. ASSUME NEW i \in 1 .. n PROVE f[i] = put(f[i - 1], es[i][1], es[i][2])
  <2>1. i - 1 \in 0 .. n
    BY <1>1
  <2>. QED BY <1>5, <2>1
<1>7. f = [i \in 0 .. n |-> IF i = 0 THEN <<>> ELSE put(f[i - 1], es[i][1], es[i][2])]
  <2>1. \A i \in 0 .. n : i # 0 => i \in 1 .. n
    BY <1>1
  <2>. HIDE DEF step
  <2>2. \A i \in 0 .. n : f[i] = IF i = 0 THEN <<>> ELSE put(f[i - 1], es[i][1], es[i][2])
    BY <1>5, <1>6, <2>1
  <2>. QED BY <1>5, <2>2
<1>. DEFINE g == CHOOSE g : loop(g)
<1>8. loop(g)
  <2>1. \E h : loop(h)
    BY <1>7
  <2>. HIDE DEF loop
  <2>. QED BY <2>1
<1>9. toMap(es) = g[n]
  BY DEF toMap
<1>. HIDE DEF g, step
<1>10. 0 \in 0 .. n /\ \A i \in 1 .. n : i \in 0 .. n /\ i # 0
  BY <1>1
<1>11. g[0] = <<>> /\ \A i \in 1 .. n : g[i] = put(g[i - 1], es[i][1], es[i][2])
  BY <1>8, <1>10
<1>. DEFINE T == {i \in 0 .. n : g[i] \in S}
<1>12. 0 \in T
  BY <1>4, <1>10, <1>11
<1>13. \A i \in 1 .. n : i - 1 \in T => i \in T
  BY <1>2, <1>10, <1>11
<1>. HIDE DEF T
<1>14. \A i \in 0 .. n : i \in T
  BY <1>1, <1>12, <1>13, Upto
<1>. QED BY <1>9, <1>11, <1>14 DEF T

\* What the map of some entries holds: of each key the value given last.
LEMMA ToMapFacts ==
  ASSUME NEW K, NEW es \in Entries(K)
  PROVE  /\ toMap(es) \in Maps(K) /\ IsFiniteSet(DOMAIN toMap(es))
         /\ \A i \in DOMAIN es : es[i][1] \in DOMAIN toMap(es)
         /\ \A k \in DOMAIN toMap(es) :
              \E j \in DOMAIN es : /\ es[j][1] = k /\ toMap(es)[k] = es[j][2]
                                   /\ \A l \in DOMAIN es : es[l][1] = k => l <= j
<1>. DEFINE n == Len(es)
<1>0. /\ n \in Nat /\ DOMAIN es = 1 .. n /\ \A i \in 1 .. n : es[i][1] \in K /\ es[i][2] \in Int
  BY DEF Entries
<1>1. PICK f : /\ toMap(es) = f[n] /\ f[0] = <<>>
               /\ \A i \in 0 .. n : f[i] \in Maps(K)
               /\ \A i \in 1 .. n : f[i] = put(f[i - 1], es[i][1], es[i][2])
  BY ToMapLoop
<1>. DEFINE last(i, k) == \E j \in 1 .. i : /\ es[j][1] = k /\ f[i][k] = es[j][2]
                                            /\ \A l \in 1 .. i : es[l][1] = k => l <= j
            T == {i \in 0 .. n : /\ IsFiniteSet(DOMAIN f[i])
                                 /\ \A l \in 1 .. i : es[l][1] \in DOMAIN f[i]
                                 /\ \A k \in DOMAIN f[i] : last(i, k)}
<1>2. 0 \in T
  <2>1. DOMAIN f[0] = {} /\ 0 \in 0 .. n /\ 1 .. 0 = {}
    BY <1>0, <1>1, MapFacts
  <2>. HIDE DEF last
  <2>. QED BY <2>1, FS_EmptySet
<1>3. ASSUME NEW i \in 1 .. n, i - 1 \in T PROVE i \in T
  <2>0. i \in Nat /\ i - 1 \in 0 .. n /\ i \in 0 .. n
    BY <1>0
  <2>1. f[i - 1] \in Maps(K) /\ f[i] = put(f[i - 1], es[i][1], es[i][2])
    BY <1>1, <2>0
  <2>2. /\ DOMAIN f[i] = DOMAIN f[i - 1] \cup {es[i][1]}
        /\ f[i][es[i][1]] = es[i][2]
        /\ \A l \in DOMAIN f[i - 1] : l # es[i][1] => f[i][l] = f[i - 1][l]
    <3>1. es[i][1] \in K /\ es[i][2] \in Int
      BY <1>0
    <3>2. \A m \in Maps(K), k \in K, v \in Int :
            /\ \A l : l \in DOMAIN put(m, k, v) <=> l \in DOMAIN m \/ l = k
            /\ put(m, k, v)[k] = v
            /\ \A l \in DOMAIN m : l # k => put(m, k, v)[l] = m[l]
      BY PutFacts
    <3>3. PICK m \in Maps(K), k \in K, v \in Int : m = f[i - 1] /\ k = es[i][1] /\ v = es[i][2]
      BY <2>1, <3>1
    <3>4. /\ \A l : l \in DOMAIN put(m, k, v) <=> l \in DOMAIN m \/ l = k
          /\ put(m, k, v)[k] = v
          /\ \A l \in DOMAIN m : l # k => put(m, k, v)[l] = m[l]
      BY <3>2
    <3>5. f[i] = put(m, k, v)
      BY <2>1, <3>3
    <3>6. DOMAIN f[i] = DOMAIN f[i - 1] \cup {es[i][1]}
      BY <3>3, <3>4, <3>5
    <3>. QED BY <3>3, <3>4, <3>5, <3>6
  <2>3. IsFiniteSet(DOMAIN f[i])
    <3>1. IsFiniteSet(DOMAIN f[i - 1])
      BY <1>3
    <3>. QED BY <2>2, <3>1, FS_AddElement
  <2>4. ASSUME NEW l \in 1 .. i PROVE es[l][1] \in DOMAIN f[i]
    <3>1. l = i \/ l \in 1 .. i - 1
      BY <2>0
    <3>. QED BY <1>3, <2>2, <3>1
  <2>5. ASSUME NEW k \in DOMAIN f[i] PROVE last(i, k)
    <3>1. CASE k = es[i][1]
      <4>1. i \in 1 .. i /\ \A l \in 1 .. i : l <= i
        BY <2>0
      <4>. QED BY <2>2, <3>1, <4>1
    <3>2. CASE k # es[i][1]
      <4>1. k \in DOMAIN f[i - 1] /\ f[i][k] = f[i - 1][k]
        BY <2>2, <3>2
      <4>2. PICK j \in 1 .. i - 1 : /\ es[j][1] = k /\ f[i - 1][k] = es[j][2]
                                    /\ \A l \in 1 .. i - 1 : es[l][1] = k => l <= j
        BY <1>3, <4>1
      <4>3. j \in 1 .. i /\ \A l \in 1 .. i : l = i \/ l \in 1 .. i - 1
        BY <2>0
      <4>. QED BY <3>2, <4>1, <4>2, <4>3
    <3>. QED BY <3>1, <3>2
  <2>. HIDE DEF last
  <2>. QED BY <2>0, <2>3, <2>4, <2>5
<1>. HIDE DEF T, last
<1>4. \A i \in 0 .. n : i \in T
  BY <1>0, <1>2, <1>3, Upto
<1>5. n \in T /\ n \in 0 .. n
  BY <1>0, <1>4
<1>. QED BY <1>0, <1>1, <1>5 DEF T, last

\* Clipping a value gives a value.
LEMMA TruncateType == \A v \in Int : truncateString(v) \in Int
<1>1. MaxValue \in Int
  BY LogRecordsAssumption
<1>. QED BY <1>1, MinOfTwo DEF truncateString

\* An entry of a map, left out or put in.
LEMMA AddEntryFacts ==
  ASSUME NEW K, NEW map \in Maps(K), NEW m \in Maps(K), NEW k \in DOMAIN map
  PROVE  /\ addField(m, k, map[k]) \in Maps(K)
         /\ k = <<"">> \/ Cardinality(DOMAIN m) >= MaxFields => addField(m, k, map[k]) = m
         /\ k # <<"">> /\ ~(Cardinality(DOMAIN m) >= MaxFields)
              => addField(m, k, map[k]) = put(m, k, truncateString(map[k]))
<1>1. k \in K
  BY MapFacts
<1>2. map[k] \in Int
  BY MapFacts
<1>3. PICK v \in Int : v = truncateString(map[k])
  BY <1>2, TruncateType
<1>4. put(m, k, v) \in Maps(K)
  BY <1>1, PutFacts
<1>. QED BY <1>3, <1>4 DEF addField

\* The loop over one map, key by key.
LEMMA AddInOrderLoop ==
  ASSUME NEW K, NEW out \in Maps(K), NEW map \in Maps(K),
         NEW order \in Seq(DOMAIN map)
  PROVE  \E f : /\ addInOrder(out, map, order) = f[Len(order)] /\ f[0] = out
                /\ \A i \in 0 .. Len(order) : f[i] \in Maps(K)
                /\ \A i \in 1 .. Len(order) : f[i] = addField(f[i - 1], order[i], map[order[i]])
<1>. DEFINE n == Len(order)
            S == Maps(K)
            step == [i \in 1 .. n |-> [m \in S |-> addField(m, order[i], map[order[i]])]]
            loop(g) == g = [i \in 0 .. n |-> IF i = 0 THEN out ELSE addField(g[i - 1], order[i], map[order[i]])]
<1>1. n \in Nat /\ \A i \in 1 .. n : order[i] \in DOMAIN map
  OBVIOUS
<1>2. \A i \in 1 .. n, m \in S : addField(m, order[i], map[order[i]]) \in S
  BY <1>1, AddEntryFacts
<1>3. step \in [1 .. n -> [S -> S]]
  BY <1>2
<1>5. PICK f : f \in [0 .. n -> S] /\ f[0] = out /\ \A i \in 1 .. n : f[i] = step[i][f[i - 1]]
  <2>1. n \in Nat
    BY <1>1
  <2>2. out \in S
    OBVIOUS
  <2>. HIDE DEF S, step, n
  <2>3. PICK f : Iterates(S, out, n, step, f)
    BY <1>3, <2>1, <2>2, Iteration
  <2>. QED BY <2>3 DEF Iterates
<1>6. ASSUME NEW i \in 1 .. n PROVE f[i] = addField(f[i - 1], order[i], map[order[i]])
  <2>1. i - 1 \in 0 .. n
    BY <1>1
  <2>. QED BY <1>5, <2>1
<1>7. f = [i \in 0 .. n |-> IF i = 0 THEN out ELSE addField(f[i - 1], order[i], map[order[i]])]
  <2>1. \A i \in 0 .. n : i # 0 => i \in 1 .. n
    BY <1>1
  <2>. HIDE DEF step
  <2>2. \A i \in 0 .. n : f[i] = IF i = 0 THEN out ELSE addField(f[i - 1], order[i], map[order[i]])
    BY <1>5, <1>6, <2>1
  <2>. QED BY <1>5, <2>2
<1>. DEFINE g == CHOOSE g : loop(g)
<1>8. loop(g)
  <2>1. \E h : loop(h)
    BY <1>7
  <2>. HIDE DEF loop
  <2>. QED BY <2>1
<1>9. addInOrder(out, map, order) = g[n]
  BY DEF addInOrder
<1>. HIDE DEF g, step
<1>10. 0 \in 0 .. n /\ \A i \in 1 .. n : i \in 0 .. n /\ i # 0
  BY <1>1
<1>11. g[0] = out /\ \A i \in 1 .. n : g[i] = addField(g[i - 1], order[i], map[order[i]])
  BY <1>8, <1>10
<1>. DEFINE T == {i \in 0 .. n : g[i] \in S}
<1>12. 0 \in T
  BY <1>10, <1>11
<1>13. \A i \in 1 .. n : i - 1 \in T => i \in T
  BY <1>2, <1>10, <1>11
<1>. HIDE DEF T
<1>14. \A i \in 0 .. n : i \in T
  BY <1>1, <1>12, <1>13, Upto
<1>. QED BY <1>9, <1>11, <1>14 DEF T

\* A record within the limit, without the empty key.
Bounded(m) ==
  IsFiniteSet(DOMAIN m) /\ Cardinality(DOMAIN m) <= MaxFields /\ <<"">> \notin DOMAIN m

\* What the loop over a map has made of out when it has seen some of the keys.
Merged(out, map, seen, r) ==
  /\ Bounded(r)
  /\ \A k \in DOMAIN out : k \in DOMAIN r
  /\ \A k \in DOMAIN r : \/ k \in DOMAIN out /\ r[k] = out[k]
                         \/ k \in seen /\ r[k] = truncateString(map[k])
  /\ Cardinality(DOMAIN r) < MaxFields =>
       \A k \in seen : k # <<"">> => k \in DOMAIN r /\ r[k] = truncateString(map[k])

\* One round of the loop.
LEMMA MergedStep ==
  ASSUME NEW K, NEW out \in Maps(K), NEW map \in Maps(K), NEW seen,
         NEW r \in Maps(K), Merged(out, map, seen, r), NEW key \in DOMAIN map,
         NEW seen2, \A k : k \in seen2 <=> k \in seen \/ k = key
  PROVE  Merged(out, map, seen2, addField(r, key, map[key]))
<1>. DEFINE t == addField(r, key, map[key])
<1>0. key \in K /\ map[key] \in Int /\ truncateString(map[key]) \in Int
  BY MapFacts, TruncateType
<1>1. IsFiniteSet(DOMAIN r) /\ Cardinality(DOMAIN r) \in Nat /\ MaxFields \in Nat
  BY FS_CardinalityType, LogRecordsAssumption DEF Merged, Bounded
<1>2. CASE key = <<"">>
  <2>1. t = r
    BY <1>2, AddEntryFacts
  <2>. HIDE DEF t
  <2>2. Merged(out, map, seen2, t)
    BY <1>2, <2>1 DEF Merged
  <2>. QED BY <2>2 DEF t
<1>3. CASE Cardinality(DOMAIN r) >= MaxFields
  <2>1. t = r
    BY <1>3, AddEntryFacts
  <2>. HIDE DEF t
  <2>2. ~(Cardinality(DOMAIN t) < MaxFields)
    BY <1>1, <1>3, <2>1
  <2>3. Merged(out, map, seen2, t)
    BY <2>1, <2>2 DEF Merged
  <2>. QED BY <2>3 DEF t
<1>4. CASE key # <<"">> /\ ~(Cardinality(DOMAIN r) >= MaxFields)
  <2>1. t = put(r, key, truncateString(map[key]))
    BY <1>4, AddEntryFacts
  <2>2. PICK v \in Int : v = truncateString(map[key])
    BY <1>0
  <2>3. /\ \A l : l \in DOMAIN put(r, key, v) <=> l \in DOMAIN r \/ l = key
        /\ put(r, key, v)[key] = v
        /\ \A l \in DOMAIN r : l # key => put(r, key, v)[l] = r[l]
    <3>1. key \in K
      BY <1>0
    <3>. QED BY <3>1, PutFacts
  <2>. HIDE DEF t
  <2>4. /\ \A l : l \in DOMAIN t <=> l \in DOMAIN r \/ l = key
        /\ t[key] = truncateString(map[key])
        /\ \A l \in DOMAIN r : l # key => t[l] = r[l]
    BY <2>1, <2>2, <2>3
  <2>5. DOMAIN t = DOMAIN r \cup {key}
    BY <2>4
  <2>6. IsFiniteSet(DOMAIN t) /\ Cardinality(DOMAIN t) <= Cardinality(DOMAIN r) + 1
    <3>1. IsFiniteSet(DOMAIN r \cup {key})
      BY <1>1, FS_AddElement
    <3>2. Cardinality(DOMAIN r \cup {key}) =
            IF key \in DOMAIN r THEN Cardinality(DOMAIN r) ELSE Cardinality(DOMAIN r) + 1
      BY <1>1, FS_AddElement
    <3>. QED BY <1>1, <2>5, <3>1, <3>2
  <2>7. Cardinality(DOMAIN t) \in Nat
    BY <2>6, FS_CardinalityType
  <2>8. \A c, d, e \in Int : ~(c >= e) /\ d <= c + 1 => d <= e /\ c < e
    OBVIOUS
  <2>9. Cardinality(DOMAIN t) <= MaxFields /\ Cardinality(DOMAIN r) < MaxFields
    <3>1. PICK c \in Int, d \in Int, e \in Int :
            c = Cardinality(DOMAIN r) /\ d = Cardinality(DOMAIN t) /\ e = MaxFields
      BY <1>1, <2>7
    <3>. QED BY <1>4, <2>6, <2>8, <3>1
  <2>11. Bounded(t)
    BY <1>4, <2>4, <2>6, <2>9 DEF Merged, Bounded
  <2>10. Merged(out, map, seen2, t)
    <3>1. \A k \in DOMAIN out : k \in DOMAIN t
      BY <2>4 DEF Merged
    <3>2. ASSUME NEW k \in DOMAIN t
          PROVE  \/ k \in DOMAIN out /\ t[k] = out[k]
                 \/ k \in seen2 /\ t[k] = truncateString(map[k])
      BY <2>4 DEF Merged
    <3>3. ASSUME NEW k \in seen2, k # <<"">>
          PROVE  k \in DOMAIN t /\ t[k] = truncateString(map[k])
      BY <2>4, <2>9, <3>3 DEF Merged
    <3>. QED BY <2>11, <3>1, <3>2, <3>3 DEF Merged
  <2>. QED BY <2>10 DEF t
<1>. QED BY <1>2, <1>3, <1>4

\* One map, in any order of its keys.
LEMMA MergeMapFacts ==
  ASSUME NEW K, NEW outs, NEW map \in Maps(K), IsFiniteSet(DOMAIN map),
         \A out \in outs : out \in Maps(K) /\ Bounded(out),
         NEW r \in mergeMap(outs, map)
  PROVE  \E out \in outs : r \in Maps(K) /\ Merged(out, map, DOMAIN map, r)
<1>1. PICK out \in outs, order \in SetToSeqs(DOMAIN map) : r = addInOrder(out, map, order)
  BY DEF mergeMap
<1>. DEFINE n == Cardinality(DOMAIN map)
<1>2. n \in Nat /\ out \in Maps(K) /\ Bounded(out)
  BY FS_CardinalityType
<1>3. order \in [1 .. n -> DOMAIN map] /\ \A i, j \in 1 .. n : i # j => order[i] # order[j]
  BY DEF SetToSeqs
<1>. HIDE DEF n
<1>4. \A k \in DOMAIN map : \E i \in 1 .. n : order[i] = k
  <2>1. order \in Injection(1 .. n, DOMAIN map)
    BY <1>3 DEF Injection, IsInjective
  <2>2. IsFiniteSet(1 .. n) /\ Cardinality(1 .. n) = n
    BY <1>2, FS_Interval
  <2>3. Cardinality(DOMAIN map) = n
    BY DEF n
  <2>4. order \in Surjection(1 .. n, DOMAIN map)
    BY <2>1, <2>2, <2>3, FS_Injection
  <2>. QED BY <2>4 DEF Surjection
<1>5. PICK f : /\ addInOrder(out, map, order) = f[n] /\ f[0] = out
               /\ \A i \in 0 .. n : f[i] \in Maps(K)
               /\ \A i \in 1 .. n : f[i] = addField(f[i - 1], order[i], map[order[i]])
  <2>1. out \in Maps(K)
    BY <1>2
  <2>2. order \in Seq(DOMAIN map) /\ Len(order) = n
    BY <1>2, <1>3, IsASeq, LenProperties
  <2>3. \E f : /\ addInOrder(out, map, order) = f[Len(order)] /\ f[0] = out
               /\ \A i \in 0 .. Len(order) : f[i] \in Maps(K)
               /\ \A i \in 1 .. Len(order) : f[i] = addField(f[i - 1], order[i], map[order[i]])
    BY <2>1, <2>2, AddInOrderLoop
  <2>. QED BY <2>2, <2>3
<1>. DEFINE seen(i) == {order[j] : j \in 1 .. i}
            T == {i \in 0 .. n : Merged(out, map, seen(i), f[i])}
<1>6. 0 \in T
  <2>1. seen(0) = {} /\ 0 \in 0 .. n
    BY <1>2
  <2>. HIDE DEF seen
  <2>2. Merged(out, map, seen(0), f[0])
    BY <1>2, <1>5, <2>1 DEF Merged
  <2>. QED BY <2>1, <2>2
<1>7. ASSUME NEW i \in 1 .. n, i - 1 \in T PROVE i \in T
  <2>1. i \in 0 .. n /\ i - 1 \in 0 .. n /\ i \in Nat
    BY <1>2
  <2>2. \A k : k \in seen(i) <=> k \in seen(i - 1) \/ k = order[i]
    <3>1. \A j \in 1 .. i : j = i \/ j \in 1 .. i - 1
      BY <2>1
    <3>2. i \in 1 .. i /\ \A j \in 1 .. i - 1 : j \in 1 .. i
      BY <2>1
    <3>. QED BY <3>1, <3>2
  <2>. HIDE DEF seen
  <2>3. Merged(out, map, seen(i - 1), f[i - 1]) /\ f[i - 1] \in Maps(K) /\ order[i] \in DOMAIN map
    BY <1>3, <1>5, <1>7, <2>1
  <2>4. Merged(out, map, seen(i), addField(f[i - 1], order[i], map[order[i]]))
    BY <1>2, <2>2, <2>3, MergedStep
  <2>. QED BY <1>5, <2>1, <2>4
<1>. HIDE DEF T
<1>8. \A i \in 0 .. n : i \in T
  BY <1>2, <1>6, <1>7, Upto
<1>9. n \in 0 .. n /\ Merged(out, map, seen(n), f[n])
  <2>1. n \in 0 .. n
    BY <1>2
  <2>2. n \in T
    BY <1>8, <2>1
  <2>. HIDE DEF seen
  <2>. QED BY <2>1, <2>2 DEF T
<1>10. seen(n) = DOMAIN map
  <2>1. \A k : k \in seen(n) <=> \E i \in 1 .. n : order[i] = k
    OBVIOUS
  <2>2. \A i \in 1 .. n : order[i] \in DOMAIN map
    BY <1>3
  <2>. HIDE DEF seen
  <2>3. \A k : k \in seen(n) <=> k \in DOMAIN map
    BY <1>4, <2>1, <2>2
  <2>. QED BY <2>3
<1>. HIDE DEF seen
<1>. QED BY <1>1, <1>5, <1>9, <1>10

GivenKeys(given) == {given[i][1] : i \in DOMAIN given} \ {<<"">>}

\* r tells a value given of each of its keys.
Given(given, r) ==
  \A k \in DOMAIN r : \E i \in DOMAIN given : given[i][1] = k /\ r[k] = truncateString(given[i][2])

\* r tells the value given last of each of its keys.
GivenLast(given, r) ==
  \A k \in DOMAIN r :
    \E i \in DOMAIN given : /\ given[i][1] = k /\ r[k] = truncateString(given[i][2])
                            /\ \A l \in DOMAIN given : given[l][1] = k => l <= i

\* r has each key that was given.
Complete(given, r) ==
  \A i \in DOMAIN given : given[i][1] # <<"">> => given[i][1] \in DOMAIN r

\* What FieldsMerged says of a record r of entries from n maps.
MergedFrom(given, n, r) ==
  LET at(key) == {i \in DOMAIN given : given[i][1] = key}
      value(i) == truncateString(given[i][2])
  IN  /\ Cardinality(DOMAIN r) = Min({MaxFields, Cardinality(GivenKeys(given))})
      /\ \A key \in DOMAIN r : key \in GivenKeys(given) /\ \E i \in at(key) : r[key] = value(i)
      /\ Cardinality(GivenKeys(given)) + n <= MaxFields + 1
           => r = [key \in GivenKeys(given) |-> value(Max(at(key)))]

\* The keys given are finitely many.
LEMMA FiniteKeys ==
  ASSUME NEW K, NEW given \in Entries(K)
  PROVE  IsFiniteSet(GivenKeys(given)) /\ Cardinality(GivenKeys(given)) \in Nat
<1>. DEFINE n == Len(given)
            all == {given[i][1] : i \in 1 .. n}
            f == [i \in 1 .. n |-> given[i][1]]
<1>1. n \in Nat /\ DOMAIN given = 1 .. n
  BY DEF Entries
<1>2. f \in Surjection(1 .. n, all)
  BY DEF Surjection
<1>3. IsFiniteSet(1 .. n)
  BY <1>1, FS_Interval
<1>4. IsFiniteSet(all)
  <2>. HIDE DEF all, f, n
  <2>. QED BY <1>2, <1>3, FS_Surjection
<1>5. GivenKeys(given) \in SUBSET all
  BY <1>1 DEF GivenKeys
<1>6. IsFiniteSet(GivenKeys(given))
  <2>. HIDE DEF all
  <2>. QED BY <1>4, <1>5, FS_Subset
<1>. QED BY <1>6, FS_CardinalityType

\* A result within the limit that is full or complete is what FieldsMerged asks for.
LEMMA FieldsFrom ==
  ASSUME NEW K, NEW given \in Entries(K), NEW n \in Nat, n = 0 => given = <<>>,
         NEW r \in Maps(K), Bounded(r), Given(given, r),
         Cardinality(DOMAIN r) < MaxFields => Complete(given, r),
         n = 1 \/ Cardinality(DOMAIN r) < MaxFields => GivenLast(given, r)
  PROVE  MergedFrom(given, n, r)
<1>. DEFINE keys == GivenKeys(given)
            at(key) == {i \in DOMAIN given : given[i][1] = key}
            value(i) == truncateString(given[i][2])
<1>1. MaxFields \in Nat \ {0}
  BY LogRecordsAssumption
<1>2. IsFiniteSet(keys) /\ Cardinality(keys) \in Nat
  BY FiniteKeys
<1>3. \A k \in DOMAIN r : k \in keys
  BY DEF Given, GivenKeys, Bounded
<1>4. Cardinality(DOMAIN r) < MaxFields => keys = DOMAIN r
  <2>. SUFFICES ASSUME Cardinality(DOMAIN r) < MaxFields PROVE \A k \in keys : k \in DOMAIN r
    BY <1>3
  <2>. QED BY DEF Complete, GivenKeys
<1>5. /\ Cardinality(DOMAIN r) \in Nat /\ Cardinality(DOMAIN r) <= MaxFields
      /\ Cardinality(DOMAIN r) <= Cardinality(keys)
      /\ Cardinality(DOMAIN r) = Cardinality(keys) => DOMAIN r = keys
  <2>1. DOMAIN r \in SUBSET keys
    BY <1>3
  <2>. HIDE DEF keys
  <2>. QED BY <1>2, <2>1, FS_Subset, FS_CardinalityType DEF Bounded
<1>6. Cardinality(DOMAIN r) = Min({MaxFields, Cardinality(keys)})
  <2>1. PICK c \in Nat, d \in Nat, e \in Nat :
          c = Cardinality(DOMAIN r) /\ d = Cardinality(keys) /\ e = MaxFields
    BY <1>1, <1>2, <1>5
  <2>. HIDE DEF keys
  <2>2. c <= e /\ c <= d /\ (c < e => c = d)
    BY <1>4, <1>5, <2>1
  <2>3. Min({e, d}) = IF e <= d THEN e ELSE d
    BY MinOfTwo
  <2>4. c = IF e <= d THEN e ELSE d
    BY <2>2
  <2>. QED BY <2>1, <2>3, <2>4
<1>7. \A key \in DOMAIN r : key \in keys /\ \E i \in at(key) : r[key] = value(i)
  BY <1>3 DEF Given
<1>8. ASSUME Cardinality(keys) + n <= MaxFields + 1
      PROVE  r = [key \in keys |-> value(Max(at(key)))]
  <2>1. DOMAIN r = keys /\ (n = 1 \/ n = 0 \/ Cardinality(DOMAIN r) < MaxFields)
    <3>1. PICK c \in Nat, d \in Nat, e \in Nat :
            c = Cardinality(DOMAIN r) /\ d = Cardinality(keys) /\ e = MaxFields
      BY <1>1, <1>2, <1>5
    <3>. HIDE DEF keys
    <3>2. c <= e /\ c <= d /\ d + n <= e + 1
      BY <1>5, <1>8, <3>1
    <3>3. n = 1 \/ n = 0 \/ c < e
      BY <3>2
    <3>4. n = 0 => keys = {}
      BY DEF keys, GivenKeys
    <3>5. n = 0 => DOMAIN r = keys
      BY <1>3, <3>4
    <3>6. n # 0 => c = d \/ c < e
      BY <3>2
    <3>7. DOMAIN r = keys
      BY <1>4, <1>5, <3>1, <3>5, <3>6
    <3>. QED BY <3>1, <3>3, <3>7
  <2>2. GivenLast(given, r)
    <3>1. CASE n = 0
      <4>1. DOMAIN r = {}
        BY <2>1, <3>1 DEF GivenKeys
      <4>. QED BY <4>1 DEF GivenLast
    <3>. QED BY <2>1, <3>1
  <2>3. ASSUME NEW k \in keys PROVE r[k] = value(Max(at(k)))
    <3>1. PICK i \in DOMAIN given :
            /\ given[i][1] = k /\ r[k] = value(i)
            /\ \A l \in DOMAIN given : given[l][1] = k => l <= i
      BY <2>1, <2>2 DEF GivenLast
    <3>2. at(k) \subseteq Int /\ i \in at(k) /\ \A l \in at(k) : l <= i
      BY <3>1 DEF Entries
    <3>3. Max(at(k)) = i
      <4>. HIDE DEF at
      <4>. QED BY <3>2, MaxIs
    <3>. QED BY <3>1, <3>3
  <2>4. \E D : r \in [D -> Int]
    BY DEF Maps
  <2>. HIDE DEF keys, at, value
  <2>. QED BY <2>1, <2>3, <2>4
<1>. QED BY <1>6, <1>7, <1>8 DEF MergedFrom

\* A record of one map of entries.
LEMMA OneMap ==
  ASSUME NEW K, NEW es \in Entries(K), NEW r \in Maps(K),
         Merged(<<>>, toMap(es), DOMAIN toMap(es), r)
  PROVE  MergedFrom(es, 1, r)
<1>. DEFINE m == toMap(es)
<1>1. /\ \A i \in DOMAIN es : es[i][1] \in DOMAIN m
      /\ \A k \in DOMAIN m : \E j \in DOMAIN es : /\ es[j][1] = k /\ m[k] = es[j][2]
                                                  /\ \A l \in DOMAIN es : es[l][1] = k => l <= j
  BY ToMapFacts
<1>. HIDE DEF m
<1>2. /\ Bounded(r)
      /\ \A k \in DOMAIN r : k \in DOMAIN m /\ r[k] = truncateString(m[k])
      /\ Cardinality(DOMAIN r) < MaxFields => \A k \in DOMAIN m : k # <<"">> => k \in DOMAIN r
  <2>1. DOMAIN <<>> = {}
    OBVIOUS
  <2>. QED BY <2>1 DEF Merged, m
<1>3. GivenLast(es, r)
  BY <1>1, <1>2 DEF GivenLast
<1>4. Given(es, r)
  BY <1>3 DEF Given, GivenLast
<1>5. Cardinality(DOMAIN r) < MaxFields => Complete(es, r)
  BY <1>1, <1>2 DEF Complete
<1>6. 1 \in Nat /\ 1 # 0
  OBVIOUS
<1>. QED BY <1>2, <1>3, <1>4, <1>5, <1>6, FieldsFrom

\* A record of two maps of entries, the second on top of the first.
LEMMA TwoMaps ==
  ASSUME NEW K, NEW es1 \in Entries(K), NEW es2 \in Entries(K),
         NEW r1 \in Maps(K), Merged(<<>>, toMap(es1), DOMAIN toMap(es1), r1),
         NEW r \in Maps(K), Merged(r1, toMap(es2), DOMAIN toMap(es2), r)
  PROVE  MergedFrom(es1 \o es2, 2, r)
<1>. DEFINE m1 == toMap(es1)
            m2 == toMap(es2)
            es == es1 \o es2
            n1 == Len(es1)
            n2 == Len(es2)
<1>1. /\ \A i \in DOMAIN es1 : es1[i][1] \in DOMAIN m1
      /\ \A k \in DOMAIN m1 : \E j \in DOMAIN es1 : /\ es1[j][1] = k /\ m1[k] = es1[j][2]
                                                    /\ \A l \in DOMAIN es1 : es1[l][1] = k => l <= j
  BY ToMapFacts
<1>2. /\ \A i \in DOMAIN es2 : es2[i][1] \in DOMAIN m2
      /\ \A k \in DOMAIN m2 : \E j \in DOMAIN es2 : /\ es2[j][1] = k /\ m2[k] = es2[j][2]
                                                    /\ \A l \in DOMAIN es2 : es2[l][1] = k => l <= j
  BY ToMapFacts
<1>3. /\ n1 \in Nat /\ n2 \in Nat /\ DOMAIN es1 = 1 .. n1 /\ DOMAIN es2 = 1 .. n2
      /\ es \in Entries(K) /\ DOMAIN es = 1 .. n1 + n2
      /\ \A i \in 1 .. n1 : es[i] = es1[i]
      /\ \A i \in 1 .. n2 : es[n1 + i] = es2[i]
  BY DEF Entries
<1>. HIDE DEF m1, m2, es, n1, n2
<1>4. \A i \in 1 .. n1 + n2 : \/ i \in 1 .. n1
                              \/ i - n1 \in 1 .. n2 /\ i = n1 + (i - n1) /\ ~(i <= n1)
  BY <1>3
<1>5. /\ \A i \in 1 .. n1 : i \in 1 .. n1 + n2
      /\ \A i \in 1 .. n2 : n1 + i \in 1 .. n1 + n2
  BY <1>3
<1>6. /\ Bounded(r1)
      /\ \A k \in DOMAIN r1 : k \in DOMAIN m1 /\ r1[k] = truncateString(m1[k])
      /\ Cardinality(DOMAIN r1) < MaxFields => \A k \in DOMAIN m1 : k # <<"">> => k \in DOMAIN r1
  <2>1. DOMAIN <<>> = {}
    OBVIOUS
  <2>. QED BY <2>1 DEF Merged, m1
<1>7. /\ Bounded(r)
      /\ \A k \in DOMAIN r1 : k \in DOMAIN r
      /\ \A k \in DOMAIN r : \/ k \in DOMAIN r1 /\ r[k] = r1[k]
                             \/ k \in DOMAIN m2 /\ r[k] = truncateString(m2[k])
      /\ Cardinality(DOMAIN r) < MaxFields =>
           \A k \in DOMAIN m2 : k # <<"">> => k \in DOMAIN r /\ r[k] = truncateString(m2[k])
  BY DEF Merged, m2
<1>8. Cardinality(DOMAIN r) < MaxFields => Cardinality(DOMAIN r1) < MaxFields
  <2>1. DOMAIN r1 \in SUBSET DOMAIN r
    BY <1>7
  <2>2. Cardinality(DOMAIN r1) <= Cardinality(DOMAIN r)
    BY <1>7, <2>1, FS_Subset DEF Bounded
  <2>3. Cardinality(DOMAIN r) \in Nat /\ Cardinality(DOMAIN r1) \in Nat /\ MaxFields \in Nat
    BY <1>6, <1>7, FS_CardinalityType, LogRecordsAssumption DEF Bounded
  <2>. QED BY <2>2, <2>3
<1>9. Given(es, r)
  <2>. SUFFICES ASSUME NEW k \in DOMAIN r
                PROVE  \E i \in DOMAIN es : es[i][1] = k /\ r[k] = truncateString(es[i][2])
    BY DEF Given
  <2>1. CASE k \in DOMAIN r1 /\ r[k] = r1[k]
    <3>0. k \in DOMAIN m1 /\ r[k] = truncateString(m1[k])
      BY <1>6, <2>1
    <3>1. PICK j \in DOMAIN es1 : es1[j][1] = k /\ r[k] = truncateString(es1[j][2])
      BY <1>1, <3>0
    <3>. QED BY <1>3, <1>5, <3>1
  <2>2. CASE k \in DOMAIN m2 /\ r[k] = truncateString(m2[k])
    <3>1. PICK j \in DOMAIN es2 : es2[j][1] = k /\ r[k] = truncateString(es2[j][2])
      BY <1>2, <2>2
    <3>2. n1 + j \in DOMAIN es /\ es[n1 + j] = es2[j]
      BY <1>3, <1>5
    <3>. QED BY <3>1, <3>2
  <2>. QED BY <1>7, <2>1, <2>2
<1>10. ASSUME Cardinality(DOMAIN r) < MaxFields PROVE Complete(es, r) /\ GivenLast(es, r)
  <2>1. \A k \in DOMAIN m1 : k # <<"">> => k \in DOMAIN r
    BY <1>6, <1>7, <1>8, <1>10
  <2>2. \A k \in DOMAIN m2 : k # <<"">> => k \in DOMAIN r /\ r[k] = truncateString(m2[k])
    BY <1>7, <1>10
  <2>3. ASSUME NEW i \in DOMAIN es, es[i][1] # <<"">> PROVE es[i][1] \in DOMAIN r
    <3>1. CASE i \in 1 .. n1
      BY <1>1, <1>3, <2>1, <2>3, <3>1
    <3>2. CASE i - n1 \in 1 .. n2 /\ i = n1 + (i - n1)
      <4>1. es[i] = es2[i - n1]
        BY <1>3, <3>2
      <4>2. es2[i - n1][1] \in DOMAIN m2
        BY <1>2, <1>3, <3>2
      <4>. QED BY <2>2, <2>3, <4>1, <4>2
    <3>. QED BY <1>3, <1>4, <3>1, <3>2
  <2>4. ASSUME NEW k \in DOMAIN r
        PROVE  \E i \in DOMAIN es : /\ es[i][1] = k /\ r[k] = truncateString(es[i][2])
                                    /\ \A l \in DOMAIN es : es[l][1] = k => l <= i
    <3>0. k # <<"">>
      BY <1>7 DEF Bounded
    <3>1. CASE k \in DOMAIN m2
      <4>1. PICK j \in DOMAIN es2 : /\ es2[j][1] = k /\ r[k] = truncateString(es2[j][2])
                                    /\ \A l \in DOMAIN es2 : es2[l][1] = k => l <= j
        BY <1>2, <2>2, <3>0, <3>1
      <4>2. n1 + j \in DOMAIN es /\ es[n1 + j] = es2[j]
        BY <1>3, <1>5
      <4>3. ASSUME NEW l \in DOMAIN es, es[l][1] = k PROVE l <= n1 + j
        <5>1. CASE l \in 1 .. n1
          BY <1>3, <5>1
        <5>2. CASE l - n1 \in 1 .. n2 /\ l = n1 + (l - n1)
          <6>1. es[l] = es2[l - n1] /\ l - n1 \in DOMAIN es2
            BY <1>3, <5>2
          <6>2. l - n1 <= j
            BY <4>1, <4>3, <6>1
          <6>. QED BY <1>3, <6>2
        <5>. QED BY <1>3, <1>4, <5>1, <5>2
      <4>. QED BY <4>1, <4>2, <4>3
    <3>2. CASE k \notin DOMAIN m2
      <4>1. k \in DOMAIN r1 /\ r[k] = r1[k]
        BY <1>7, <3>2
      <4>2. PICK j \in DOMAIN es1 : /\ es1[j][1] = k /\ r[k] = truncateString(es1[j][2])
                                    /\ \A l \in DOMAIN es1 : es1[l][1] = k => l <= j
        BY <1>1, <1>6, <4>1
      <4>3. j \in DOMAIN es /\ es[j] = es1[j]
        BY <1>3, <1>5
      <4>4. ASSUME NEW l \in DOMAIN es, es[l][1] = k PROVE l <= j
        <5>1. CASE l \in 1 .. n1
          BY <1>3, <4>2, <4>4, <5>1
        <5>2. CASE l - n1 \in 1 .. n2 /\ l = n1 + (l - n1)
          <6>1. es[l] = es2[l - n1] /\ l - n1 \in DOMAIN es2
            BY <1>3, <5>2
          <6>. QED BY <1>2, <3>2, <4>4, <6>1
        <5>. QED BY <1>3, <1>4, <5>1, <5>2
      <4>. QED BY <4>2, <4>3, <4>4
    <3>. QED BY <3>1, <3>2
  <2>. QED BY <2>3, <2>4 DEF Complete, GivenLast
<1>11. MergedFrom(es, 2, r)
  <2>1. 2 \in Nat /\ 2 # 0 /\ 2 # 1
    OBVIOUS
  <2>. QED BY <1>3, <1>7, <1>9, <1>10, <2>1, FieldsFrom
<1>. QED BY <1>11 DEF es

\* What stringifyFields makes of one map.
LEMMA StringifyOne ==
  ASSUME NEW m
  PROVE  stringifyFields(<<m>>) = mergeMap({<<>>}, m)
<1>. DEFINE loop(g) == g = [i \in 0 .. 1 |-> IF i = 0 THEN {<<>>} ELSE mergeMap(g[i - 1], <<m>>[i])]
            f == [i \in 0 .. 1 |-> IF i = 0 THEN {<<>>} ELSE mergeMap({<<>>}, m)]
            g == CHOOSE g : loop(g)
<1>1. \A i \in 0 .. 1 : i = 0 \/ i = 1
  OBVIOUS
<1>2. loop(f)
  <2>1. f[0] = {<<>>} /\ <<m>>[1] = m
    OBVIOUS
  <2>2. \A i \in 0 .. 1 : i # 0 => mergeMap({<<>>}, m) = mergeMap(f[i - 1], <<m>>[i])
    BY <1>1, <2>1
  <2>. QED BY <2>2
<1>3. loop(g)
  <2>1. \E h : loop(h)
    BY <1>2
  <2>. HIDE DEF loop
  <2>. QED BY <2>1
<1>4. stringifyFields(<<m>>) = g[1]
  BY DEF stringifyFields
<1>. HIDE DEF g
<1>5. g[0] = {<<>>} /\ g[1] = mergeMap(g[0], m)
  BY <1>3
<1>. QED BY <1>4, <1>5

\* What it makes of two.
LEMMA StringifyTwo ==
  ASSUME NEW m1, NEW m2
  PROVE  stringifyFields(<<m1, m2>>) = mergeMap(mergeMap({<<>>}, m1), m2)
<1>. DEFINE ms == <<m1, m2>>
            loop(g) == g = [i \in 0 .. 2 |-> IF i = 0 THEN {<<>>} ELSE mergeMap(g[i - 1], ms[i])]
            f == [i \in 0 .. 2 |-> IF i = 0 THEN {<<>>}
                                   ELSE IF i = 1 THEN mergeMap({<<>>}, m1)
                                   ELSE mergeMap(mergeMap({<<>>}, m1), m2)]
            g == CHOOSE g : loop(g)
<1>1. \A i \in 0 .. 2 : i = 0 \/ i = 1 \/ i = 2
  OBVIOUS
<1>2. loop(f)
  <2>1. f[0] = {<<>>} /\ f[1] = mergeMap({<<>>}, m1) /\ ms[1] = m1 /\ ms[2] = m2
    OBVIOUS
  <2>2. f[1] = mergeMap(f[0], ms[1]) /\ f[2] = mergeMap(f[1], ms[2])
    BY <2>1
  <2>3. \A i \in 0 .. 2 : f[i] = IF i = 0 THEN {<<>>} ELSE mergeMap(f[i - 1], ms[i])
    BY <1>1, <2>1, <2>2
  <2>4. DOMAIN f = 0 .. 2 /\ f = [i \in 0 .. 2 |-> f[i]]
    OBVIOUS
  <2>. HIDE DEF f, ms
  <2>. QED BY <2>3, <2>4
<1>3. loop(g)
  <2>1. \E h : loop(h)
    BY <1>2
  <2>. HIDE DEF loop
  <2>. QED BY <2>1
<1>4. stringifyFields(ms) = g[2]
  BY DEF stringifyFields
<1>. HIDE DEF g
<1>5. g[0] = {<<>>} /\ g[1] = mergeMap(g[0], m1) /\ g[2] = mergeMap(g[1], m2)
  BY <1>3
<1>. QED BY <1>4, <1>5

\* The keys of records: the names of groups, then a name.
FieldKeys == Seq(Names \union {Group})

Loggers == [kind : {"slog", "zap", "wrapped"}, attrs : Seq(Attrs), groups : Seq({Group})]

\* The attributes with a name are attributes.
LEMMA WithNamesType ==
  ASSUME NEW attrs \in Seq(Attrs)
  PROVE  withNames(attrs) \in Seq(Attrs)
<1>. DEFINE n == Len(attrs)
            S == Seq(Attrs)
            next(kept, i) == IF attrs[i][1] = "" THEN kept ELSE Append(kept, attrs[i])
            step == [i \in 1 .. n |-> [kept \in S |-> next(kept, i)]]
            loop(g) == g = [i \in 0 .. n |-> IF i = 0 THEN <<>>
                                             ELSE IF attrs[i][1] = "" THEN g[i - 1]
                                             ELSE Append(g[i - 1], attrs[i])]
<1>1. n \in Nat /\ \A i \in 1 .. n : attrs[i] \in Attrs
  OBVIOUS
<1>2. \A i \in 1 .. n, kept \in S : next(kept, i) \in S
  <2>. SUFFICES ASSUME NEW i \in 1 .. n, NEW kept \in Seq(Attrs) PROVE next(kept, i) \in Seq(Attrs)
    OBVIOUS
  <2>1. attrs[i] \in Attrs
    BY <1>1
  <2>2. Append(kept, attrs[i]) \in Seq(Attrs)
    BY <2>1
  <2>. QED BY <2>2
<1>3. step \in [1 .. n -> [S -> S]] /\ <<>> \in S
  <2>. HIDE DEF next
  <2>. QED BY <1>2
<1>4. PICK f : f \in [0 .. n -> S] /\ f[0] = <<>> /\ \A i \in 1 .. n : f[i] = step[i][f[i - 1]]
  <2>1. n \in Nat
    BY <1>1
  <2>. HIDE DEF S, step, n
  <2>2. PICK f : Iterates(S, <<>>, n, step, f)
    BY <1>3, <2>1, Iteration
  <2>. QED BY <2>2 DEF Iterates
<1>5. ASSUME NEW i \in 1 .. n PROVE f[i] = next(f[i - 1], i)
  <2>1. i - 1 \in 0 .. n
    BY <1>1
  <2>. HIDE DEF next
  <2>. QED BY <1>4, <2>1
<1>6. loop(f)
  <2>1. \A i \in 0 .. n : i # 0 => i \in 1 .. n
    BY <1>1
  <2>. HIDE DEF step
  <2>2. \A i \in 0 .. n : f[i] = IF i = 0 THEN <<>>
                                 ELSE IF attrs[i][1] = "" THEN f[i - 1]
                                 ELSE Append(f[i - 1], attrs[i])
    BY <1>4, <1>5, <2>1
  <2>. QED BY <1>4, <2>2
<1>. DEFINE g == CHOOSE g : loop(g)
<1>7. loop(g)
  <2>1. \E h : loop(h)
    BY <1>6
  <2>. HIDE DEF loop
  <2>. QED BY <2>1
<1>8. withNames(attrs) = g[n]
  BY DEF withNames
<1>. HIDE DEF g, step
<1>9. 0 \in 0 .. n /\ \A i \in 1 .. n : i \in 0 .. n /\ i # 0
  BY <1>1
<1>10. g[0] = <<>> /\ \A i \in 1 .. n : g[i] = next(g[i - 1], i)
  BY <1>7, <1>9
<1>. DEFINE T == {i \in 0 .. n : g[i] \in S}
<1>11. 0 \in T
  BY <1>3, <1>9, <1>10
<1>12. \A i \in 1 .. n : i - 1 \in T => i \in T
  <2>. HIDE DEF next, S
  <2>. QED BY <1>2, <1>9, <1>10
<1>. HIDE DEF T
<1>13. \A i \in 0 .. n : i \in T
  BY <1>1, <1>11, <1>12, Upto
<1>14. n \in 0 .. n
  BY <1>1
<1>. QED BY <1>8, <1>13, <1>14 DEF T

\* An attribute is a name and a number.
LEMMA AttrFacts == \A a \in Attrs : a[1] \in Names /\ a[2] \in Int
<1>1. MaxValue - 1 \in Int /\ MaxValue + 1 \in Int
  BY LogRecordsAssumption
<1>. QED BY <1>1 DEF Attrs

\* Attributes become entries, under their name alone or with groups before it.
LEMMA EntryFacts ==
  ASSUME NEW attrs \in Seq(Attrs), NEW groups \in Seq({Group})
  PROVE  named(attrs) \in Entries(FieldKeys) /\ prefixed(groups, attrs) \in Entries(FieldKeys)
<1>. DEFINE n == Len(attrs)
            bare(i) == <<attrs[i][1]>>
            full(i) == groups \o <<attrs[i][1]>>
<1>1. n \in Nat /\ DOMAIN attrs = 1 .. n /\ \A i \in 1 .. n : attrs[i] \in Attrs
  OBVIOUS
<1>2. ASSUME NEW i \in 1 .. n
      PROVE  bare(i) \in FieldKeys /\ full(i) \in FieldKeys /\ attrs[i][2] \in Int
  <2>1. attrs[i][1] \in Names /\ attrs[i][2] \in Int
    BY <1>1, AttrFacts
  <2>2. groups \in Seq(Names \union {Group}) /\ <<attrs[i][1]>> \in Seq(Names \union {Group})
    BY <2>1
  <2>. QED BY <2>1, <2>2 DEF FieldKeys
<1>. HIDE DEF n, bare, full
<1>3. [i \in 1 .. n |-> <<bare(i), attrs[i][2]>>] \in Seq(FieldKeys \X Int)
  <2>1. \A i \in 1 .. n : <<bare(i), attrs[i][2]>> \in FieldKeys \X Int
    BY <1>2
  <2>. QED BY <1>1, <2>1, IsASeq
<1>4. [i \in 1 .. n |-> <<full(i), attrs[i][2]>>] \in Seq(FieldKeys \X Int)
  <2>1. \A i \in 1 .. n : <<full(i), attrs[i][2]>> \in FieldKeys \X Int
    BY <1>2
  <2>. QED BY <1>1, <2>1, IsASeq
<1>. QED BY <1>1, <1>3, <1>4 DEF named, prefixed, Entries, bare, full

\* The names of two lists of attributes, one after the other.
LEMMA NamedConcat ==
  ASSUME NEW a \in Seq(Attrs), NEW b \in Seq(Attrs)
  PROVE  named(a \o b) = named(a) \o named(b)
<1>. DEFINE na == Len(a)
            nb == Len(b)
<1>1. na \in Nat /\ nb \in Nat /\ DOMAIN a = 1 .. na /\ DOMAIN b = 1 .. nb
  OBVIOUS
<1>2. /\ DOMAIN (a \o b) = 1 .. na + nb
      /\ \A i \in 1 .. na + nb : (a \o b)[i] = IF i <= na THEN a[i] ELSE b[i - na]
  OBVIOUS
<1>3. named(a) \in Seq(FieldKeys \X Int) /\ named(b) \in Seq(FieldKeys \X Int)
  <2>1. <<>> \in Seq({Group})
    OBVIOUS
  <2>. QED BY <2>1, EntryFacts DEF Entries
<1>4. Len(named(a)) = na /\ Len(named(b)) = nb
  <2>1. DOMAIN named(a) = 1 .. na /\ DOMAIN named(b) = 1 .. nb
    BY <1>1 DEF named
  <2>. HIDE DEF na, nb
  <2>. QED BY <1>1, <1>3, <2>1
<1>5. /\ DOMAIN (named(a) \o named(b)) = 1 .. na + nb
      /\ \A i \in 1 .. na + nb :
           (named(a) \o named(b))[i] = IF i <= na THEN named(a)[i] ELSE named(b)[i - na]
  <2>. HIDE DEF na, nb
  <2>. QED BY <1>1, <1>3, <1>4
<1>6. \A i \in 1 .. na + nb : IF i <= na THEN i \in 1 .. na ELSE i - na \in 1 .. nb
  <2>. HIDE DEF na, nb
  <2>. QED BY <1>1
<1>7. \A i \in 1 .. na + nb : (named(a) \o named(b))[i] = <<<<(a \o b)[i][1]>>, (a \o b)[i][2]>>
  <2>. HIDE DEF na, nb
  <2>1. \A i \in 1 .. na : named(a)[i] = <<<<a[i][1]>>, a[i][2]>>
    BY <1>1 DEF named
  <2>2. \A i \in 1 .. nb : named(b)[i] = <<<<b[i][1]>>, b[i][2]>>
    BY <1>1 DEF named
  <2>. QED BY <1>2, <1>5, <1>6, <2>1, <2>2
<1>8. named(a) \o named(b) = [i \in 1 .. na + nb |-> <<<<(a \o b)[i][1]>>, (a \o b)[i][2]>>]
  <2>. DEFINE t == named(a) \o named(b)
              ab == a \o b
  <2>1. t \in Seq(FieldKeys \X Int)
    BY <1>3
  <2>2. t = [i \in DOMAIN t |-> t[i]]
    <3>. HIDE DEF t
    <3>. QED BY <2>1
  <2>3. DOMAIN t = 1 .. na + nb /\ \A i \in 1 .. na + nb : t[i] = <<<<ab[i][1]>>, ab[i][2]>>
    BY <1>5, <1>7
  <2>. HIDE DEF t, ab, na, nb
  <2>4. t = [i \in 1 .. na + nb |-> <<<<ab[i][1]>>, ab[i][2]>>]
    BY <2>2, <2>3
  <2>. QED BY <2>4 DEF t, ab
<1>. QED BY <1>2, <1>8 DEF named

\* The empty record of a loop that has not begun.
LEMMA NothingYet == <<>> \in Maps(FieldKeys) /\ Bounded(<<>>)
<1>1. DOMAIN <<>> = {} /\ <<>> \in Maps(FieldKeys)
  BY MapFacts
<1>2. MaxFields \in Nat
  BY LogRecordsAssumption
<1>. QED BY <1>1, <1>2, FS_EmptySet DEF Bounded

\* A call with one map ships a record of its entries.
LEMMA OneShipped ==
  ASSUME NEW es \in Entries(FieldKeys), Shipped(es, <<toMap(es)>>)
  PROVE  MergedFrom(record'.given, record'.maps, record'.fields)
<1>. DEFINE m == toMap(es)
<1>1. m \in Maps(FieldKeys) /\ IsFiniteSet(DOMAIN m)
  BY ToMapFacts
<1>2. PICK r \in stringifyFields(<<m>>) :
        record' = [given |-> es, maps |-> Len(<<m>>), fields |-> r]
  BY DEF Shipped
<1>3. r \in mergeMap({<<>>}, m)
  <2>. HIDE DEF m
  <2>. QED BY <1>2, StringifyOne
<1>4. \A out \in {<<>>} : out \in Maps(FieldKeys) /\ Bounded(out)
  BY NothingYet
<1>5. \E out \in {<<>>} : r \in Maps(FieldKeys) /\ Merged(out, m, DOMAIN m, r)
  <2>. HIDE DEF m
  <2>. QED BY <1>1, <1>3, <1>4, MergeMapFacts
<1>6. r \in Maps(FieldKeys) /\ Merged(<<>>, toMap(es), DOMAIN toMap(es), r)
  BY <1>5
<1>7. MergedFrom(es, 1, r)
  BY <1>6, OneMap
<1>8. record'.given = es /\ record'.maps = 1 /\ record'.fields = r
  BY <1>2
<1>. QED BY <1>7, <1>8

\* A call with two maps ships a record of the entries of both.
LEMMA TwoShipped ==
  ASSUME NEW es1 \in Entries(FieldKeys), NEW es2 \in Entries(FieldKeys),
         Shipped(es1 \o es2, <<toMap(es1), toMap(es2)>>)
  PROVE  MergedFrom(record'.given, record'.maps, record'.fields)
<1>. DEFINE m1 == toMap(es1)
            m2 == toMap(es2)
<1>1. /\ m1 \in Maps(FieldKeys) /\ IsFiniteSet(DOMAIN m1)
      /\ m2 \in Maps(FieldKeys) /\ IsFiniteSet(DOMAIN m2)
  BY ToMapFacts
<1>2. PICK r \in stringifyFields(<<m1, m2>>) :
        record' = [given |-> es1 \o es2, maps |-> Len(<<m1, m2>>), fields |-> r]
  BY DEF Shipped
<1>3. r \in mergeMap(mergeMap({<<>>}, m1), m2)
  <2>. HIDE DEF m1, m2
  <2>. QED BY <1>2, StringifyTwo
<1>4. \A out \in {<<>>} : out \in Maps(FieldKeys) /\ Bounded(out)
  BY NothingYet
<1>5. ASSUME NEW r1 \in mergeMap({<<>>}, m1)
      PROVE  r1 \in Maps(FieldKeys) /\ Merged(<<>>, m1, DOMAIN m1, r1)
  <2>1. \E out \in {<<>>} : r1 \in Maps(FieldKeys) /\ Merged(out, m1, DOMAIN m1, r1)
    <3>. HIDE DEF m1
    <3>. QED BY <1>1, <1>4, <1>5, MergeMapFacts
  <2>. QED BY <2>1
<1>6. \A r1 \in mergeMap({<<>>}, m1) : r1 \in Maps(FieldKeys) /\ Bounded(r1)
  BY <1>5 DEF Merged
<1>7. PICK r1 \in mergeMap({<<>>}, m1) : r \in Maps(FieldKeys) /\ Merged(r1, m2, DOMAIN m2, r)
  <2>. HIDE DEF m1, m2
  <2>. QED BY <1>1, <1>3, <1>6, MergeMapFacts
<1>8. r1 \in Maps(FieldKeys) /\ Merged(<<>>, toMap(es1), DOMAIN toMap(es1), r1)
  BY <1>5
<1>9. MergedFrom(es1 \o es2, 2, r)
  BY <1>7, <1>8, TwoMaps
<1>10. record'.given = es1 \o es2 /\ record'.maps = 2 /\ record'.fields = r
  BY <1>2
<1>. QED BY <1>9, <1>10

\* Before the call, the record is the empty one of no entries.
LEMMA NothingShipped == MergedFrom(<<>>, 0, <<>>)
<1>1. <<>> \in Entries(FieldKeys) /\ 0 \in Nat /\ 0 # 1
  BY DEF Entries
<1>2. <<>> \in Maps(FieldKeys) /\ Bounded(<<>>) /\ DOMAIN <<>> = {}
  BY NothingYet
<1>3. Given(<<>>, <<>>) /\ GivenLast(<<>>, <<>>) /\ Complete(<<>>, <<>>)
  BY <1>2 DEF Given, GivenLast, Complete
<1>. QED BY <1>1, <1>2, <1>3, FieldsFrom

LogsOK == loggers \in Seq(Loggers) /\ FieldsMerged

\* Lists of attributes are sequences.
LEMMA AttrListTypes == AttrLists \subseteq Seq(Attrs)
<1>1. MaxAttrs \in Nat
  BY LogRecordsAssumption
<1>. SUFFICES ASSUME NEW n \in 0 .. MaxAttrs, NEW a \in [1 .. n -> Attrs] PROVE a \in Seq(Attrs)
  BY DEF AttrLists
<1>2. n \in Nat
  BY <1>1
<1>. QED BY <1>2, IsASeq

\* A call, whichever way it is made, ships what FieldsMerged asks for.
LEMMA EmitFacts ==
  ASSUME loggers \in Seq(Loggers), Emit
  PROVE  MergedFrom(record'.given, record'.maps, record'.fields) /\ loggers' = loggers
<1>0. \A attrs \in Seq(Attrs) : named(attrs) \in Entries(FieldKeys)
  <2>1. <<>> \in Seq({Group})
    OBVIOUS
  <2>. QED BY <2>1, EntryFacts
<1>1. ASSUME NEW first \in AttrLists, NEW second \in AttrLists, logAt(first, second)
      PROVE  MergedFrom(record'.given, record'.maps, record'.fields) /\ loggers' = loggers
  <2>1. first \in Seq(Attrs) /\ second \in Seq(Attrs)
    BY AttrListTypes
  <2>2. named(first \o second) = named(first) \o named(second)
    BY <2>1, NamedConcat
  <2>3. Shipped(named(first) \o named(second), <<toMap(named(first)), toMap(named(second))>>)
    BY <1>1, <2>2 DEF logAt
  <2>4. named(first) \in Entries(FieldKeys) /\ named(second) \in Entries(FieldKeys)
    BY <1>0, <2>1
  <2>5. loggers' = loggers
    BY <1>1 DEF logAt
  <2>. QED BY <2>3, <2>4, <2>5, TwoShipped
<1>2. ASSUME NEW h \in Range(loggers), NEW attrs \in AttrLists,
             Handle(h, attrs) \/ LogZap(h, attrs) \/ LogWrapped(h, attrs)
      PROVE  MergedFrom(record'.given, record'.maps, record'.fields) /\ loggers' = loggers
  <2>0. h \in Loggers
    BY DEF Range
  <2>1. h.attrs \in Seq(Attrs) /\ h.groups \in Seq({Group})
    BY <2>0 DEF Loggers
  <2>2. attrs \in Seq(Attrs)
    BY AttrListTypes
  <2>3. h.attrs \o attrs \in Seq(Attrs)
    BY <2>1, <2>2
  <2>4. CASE Handle(h, attrs)
    <3>. DEFINE all == prefixed(h.groups, withNames(h.attrs \o attrs))
    <3>1. all \in Entries(FieldKeys)
      BY <2>1, <2>3, WithNamesType, EntryFacts
    <3>2. Shipped(all, <<toMap(all)>>) /\ loggers' = loggers
      BY <2>4 DEF Handle
    <3>. HIDE DEF all
    <3>. QED BY <3>1, <3>2, OneShipped
  <2>5. CASE LogZap(h, attrs) \/ LogWrapped(h, attrs)
    <3>. DEFINE all == named(h.attrs \o attrs)
    <3>1. all \in Entries(FieldKeys)
      BY <1>0, <2>3
    <3>2. Shipped(all, <<toMap(all)>>) /\ loggers' = loggers
      BY <2>5 DEF LogZap, LogWrapped, Write
    <3>. HIDE DEF all
    <3>. QED BY <3>1, <3>2, OneShipped
  <2>. QED BY <1>2, <2>4, <2>5
<1>. QED BY <1>1, <1>2 DEF Emit

\* A derived logger is one: the handler or core it is made from, and what it adds.
LEMMA DerivedLoggers ==
  ASSUME loggers \in Seq(Loggers), NEW h \in Range(loggers),
         (\E attr \in Attrs : WithAttrs(h, <<attr>>)) \/ WithGroup(h)
  PROVE  loggers' \in Seq(Loggers) /\ UNCHANGED record
<1>1. h \in Loggers
  BY DEF Range
<1>2. ASSUME NEW attr \in Attrs, WithAttrs(h, <<attr>>)
      PROVE  loggers' \in Seq(Loggers) /\ UNCHANGED record
  <2>1. PICK attrs \in Seq(Attrs) : attrs = h.attrs \o <<attr>>
    <3>1. h.attrs \in Seq(Attrs) /\ <<attr>> \in Seq(Attrs)
      BY <1>1 DEF Loggers
    <3>2. \A s, t \in Seq(Attrs) : s \o t \in Seq(Attrs)
      OBVIOUS
    <3>3. h.attrs \o <<attr>> \in Seq(Attrs)
      BY <3>1, <3>2
    <3>. QED BY <3>3
  <2>2. [h EXCEPT !.attrs = attrs] \in Loggers
    BY <1>1 DEF Loggers
  <2>3. [h EXCEPT !.attrs = @ \o <<attr>>] \in Loggers
    BY <2>1, <2>2
  <2>. QED BY <1>2, <2>3 DEF WithAttrs
<1>3. ASSUME WithGroup(h) PROVE loggers' \in Seq(Loggers) /\ UNCHANGED record
  <2>1. PICK groups \in Seq({Group}) : groups = Append(h.groups, Group)
    <3>1. h.groups \in Seq({Group})
      BY <1>1 DEF Loggers
    <3>2. \A s \in Seq({Group}) : Append(s, Group) \in Seq({Group})
      OBVIOUS
    <3>3. Append(h.groups, Group) \in Seq({Group})
      BY <3>1, <3>2
    <3>. QED BY <3>3
  <2>2. [h EXCEPT !.groups = groups] \in Loggers
    BY <1>1 DEF Loggers
  <2>3. [h EXCEPT !.groups = Append(@, Group)] \in Loggers
    BY <2>1, <2>2
  <2>. QED BY <1>3, <2>3 DEF WithGroup
<1>. QED BY <1>2, <1>3

\* Whatever attributes and groups loggers collect and in whatever order Go walks
\* the maps of a call, its record is filled up to the limits and no further,
\* and has of each key a value that was given, below the limits the last one.
THEOREM RecordsMerged == LogSpec => []FieldsMerged
<1>1. FieldsMerged <=> MergedFrom(record.given, record.maps, record.fields)
  BY DEF FieldsMerged, MergedFrom, GivenKeys
<1>2. FieldsMerged' <=> MergedFrom(record'.given, record'.maps, record'.fields)
  BY DEF FieldsMerged, MergedFrom, GivenKeys
<1>3. LogInit => LogsOK
  <2>. SUFFICES ASSUME LogInit PROVE LogsOK
    OBVIOUS
  <2>1. loggers \in Seq(Loggers)
    <3>1. \A kind \in {"slog", "zap", "wrapped"} : [kind |-> kind, attrs |-> <<>>, groups |-> <<>>] \in Loggers
      BY DEF Loggers
    <3>. QED BY <3>1 DEF LogInit
  <2>2. record.given = <<>> /\ record.maps = 0 /\ record.fields = <<>>
    BY DEF LogInit, None
  <2>. QED BY <1>1, <2>1, <2>2, NothingShipped DEF LogsOK
<1>4. LogsOK /\ [LogNext]_logVars => LogsOK'
  <2>. SUFFICES ASSUME LogsOK, [LogNext]_logVars PROVE LogsOK'
    OBVIOUS
  <2>1. CASE Emit
    BY <1>2, <2>1, EmitFacts DEF LogsOK
  <2>2. ASSUME NEW h \in Range(loggers),
               (\E attr \in Attrs : WithAttrs(h, <<attr>>)) \/ WithGroup(h)
        PROVE  LogsOK'
    <3>1. loggers' \in Seq(Loggers) /\ record' = record
      BY <2>2, DerivedLoggers DEF LogsOK
    <3>. QED BY <1>1, <1>2, <3>1 DEF LogsOK
  <2>3. CASE UNCHANGED logVars
    BY <1>1, <1>2, <2>3 DEF LogsOK, logVars
  <2>. QED BY <2>1, <2>2, <2>3 DEF LogNext
<1>5. LogsOK => FieldsMerged
  BY DEF LogsOK
<1>. QED BY <1>3, <1>4, <1>5, PTL DEF LogSpec
=============================================================================
