---------------------------- MODULE MCAlgorithms ----------------------------
(***************************************************************************)
(* The pure parts of the SDK on bounded inputs: a behaviour grows a source *)
(* tree, or sets an environment, or derives loggers and logs once.         *)
(***************************************************************************)
EXTENDS RouteScan, Settings, LogRecords

r == Ident("r")
g == Ident("g")
Literal(name) == Lit(<<name>>)
GroupOf(x, e) == Invoke(x, "Group", <<e>>)

Stmt(code, needs, declares, plain) ==
  [code |-> code, needs |-> needs, declares |-> declares, plain |-> plain]

MCStatements == {
  \* r.GET("/a", h1)
  Stmt(Do(Invoke(r, "GET", <<Literal("a"), Ident("h1")>>)), {"r"}, {}, TRUE),
  \* g := r.Group("/v1")
  Stmt(Assign("g", GroupOf(r, Literal("v1"))), {"r"}, {"g"}, TRUE),
  \* g.POST("/b", h2)
  Stmt(Do(Invoke(g, "POST", <<Literal("b"), Ident("h2")>>)), {"g"}, {}, TRUE),
  \* r.Route("/v2", func(r) { r.Get("/a", h3); r.Group(func(g) { g.Get("/", h4) }) })
  Stmt(Do(Invoke(r, "Route", <<Literal("v2"), Func(<<"r">>,
            <<Do(Invoke(r, "Get", <<Literal("a"), Ident("h3")>>)),
              Do(GroupOf(r, Func(<<"g">>, <<Do(Invoke(g, "Get", <<Literal(""), Ident("h4")>>))>>)))>>)>>)),
       {"r"}, {}, TRUE),
  \* r.HandleFunc("GET /b", h5)
  Stmt(Do(Invoke(r, "HandleFunc", <<Pattern("GET", <<"b">>), Ident("h5")>>)), {"r"}, {}, TRUE),
  \* g.HandleFunc("/a", h6).Methods("PUT")
  Stmt(Do(Invoke(Invoke(g, "HandleFunc", <<Literal("a"), Ident("h6")>>),
                 "Methods", <<Pattern("PUT", <<>>)>>)), {"g"}, {}, TRUE),
  \* if c { n := g.Group("/v2"); n.GET("/b", h7) }
  Stmt(Nest(<<Tree(<<>>)>>,
            <<Assign("n", GroupOf(g, Literal("v2"))), Do(Invoke(Ident("n"), "GET", <<Literal("b"), Ident("h7")>>))>>),
       {"g"}, {}, TRUE),
  \* x := []any{r.GET(path, h8), each(func() { g.All("/a", func(c) {}) })}
  Stmt(Assign("x", Tree(<<Invoke(r, "GET", <<Dynamic, Ident("h8")>>),
            Invoke(Ident("each"), "", <<Func(<<>>, <<Do(Invoke(g, "All", <<Literal("a"), Func(<<"c">>, <<>>)>>))>>)>>)>>)),
       {"r", "g"}, {"x"}, TRUE),
  \* r.Group("/v2").GET("/a", h1)
  Stmt(Do(Invoke(GroupOf(r, Literal("v2")), "GET", <<Literal("a"), Ident("h1")>>)), {"r"}, {}, FALSE),
  \* g := r.Group(path)
  Stmt(Assign("g", GroupOf(r, Dynamic)), {"r"}, {"g"}, FALSE),
  \* g := r.Group("/")
  Stmt(Assign("g", GroupOf(r, Literal(""))), {"r"}, {"g"}, FALSE)}

MCSignatures == {{}, {"r"}, {"r", "g"}}
MCSegments == <<"", "a", "b", "v1", "v2">>

AlgInit == ScanInit /\ SettingsInit /\ LogInit

AlgNext ==
  \/ env = Unset /\ Len(loggers) = 3 /\ record = None /\ ScanNext /\ UNCHANGED <<env, logVars>>
  \/ sources = <<>> /\ Len(loggers) = 3 /\ record = None /\ SetEnv /\ UNCHANGED <<scanVars, logVars>>
  \/ sources = <<>> /\ env = Unset /\ LogNext /\ UNCHANGED <<scanVars, env>>

AlgSpec == AlgInit /\ [][AlgNext]_<<scanVars, env, logVars>>
=============================================================================
