----------------------------- MODULE RouteScan -----------------------------
(***************************************************************************)
(* The route scanner (scan/scan.go): what it extracts from a source tree,  *)
(* against what the routers of that source serve.                          *)
(*                                                                         *)
(* A program is abstract syntax.  A path is the sequence of the segments   *)
(* between its slashes: "/" is <<"">> and "/v1/a" is <<"v1", "a">>; the    *)
(* prefix of a router without a group is the empty sequence.               *)
(*                                                                         *)
(* The scanner's walk threads its state through the syntax: the scopes,    *)
(* innermost last, and the routes found.  Served is the reference: the     *)
(* same syntax read as Go reads it.                                        *)
(***************************************************************************)
EXTENDS Catalog, SequencesExt

CONSTANTS Statements,  \* what a function of the source may say: records of the
                       \* code, the names it needs in scope, those it declares,
                       \* and whether it is plain (see Plain)
          Signatures,  \* the names a function may have as parameters
          MaxStmts     \* bound of the model: statements in the source tree

ASSUME StatementsAssumption == MaxStmts \in Nat

VARIABLE sources  \* the files: whether the walk skips it, and its functions

scanVars == <<sources, routes>>

-----------------------------------------------------------------------------
(* Syntax.                                                                 *)

Ident(name) == [k |-> "ident", name |-> name]
Dynamic == [k |-> "other"]
\* A string literal: a path, after a verb in a ServeMux pattern.
Pattern(verb, path) == [k |-> "lit", verb |-> verb, path |-> path]
Lit(path) == Pattern("", path)
Func(params, body) == [k |-> "func", params |-> params, body |-> body]
\* x.name(args); a call of a function has the name "".
Invoke(x, name, args) == [k |-> "call", x |-> x, name |-> name, args |-> args]
\* Operators, literals and the like, which are only walked through.
Tree(parts) == [k |-> "tree", parts |-> parts]

Do(x) == [k |-> "do", x |-> x]
Assign(name, rhs) == [k |-> "assign", name |-> name, rhs |-> rhs]
\* if, for, switch, select, a block: the expressions walked, and the body.
Nest(head, body) == [k |-> "nest", head |-> head, body |-> body]

-----------------------------------------------------------------------------
(* Helpers.                                                                *)

stringLit(e) == e.k = "lit" /\ e.verb = ""

handlerName(e) == CASE e.k = "ident" -> e.name [] e.k = "func" -> "<func>" [] OTHER -> ""

joinPath(prefix, path) ==
  IF prefix = <<>> THEN path ELSE IF path = <<"">> THEN prefix ELSE prefix \o path

routeMethods == [GET |-> "GET", POST |-> "POST", Get |-> "GET", Any |-> "ANY", All |-> "ANY"]

\* Seeded bug: only the innermost scope.
lookupInner(scopes, name) ==
  LET sc == scopes[Len(scopes)] IN IF name \in DOMAIN sc THEN sc[name] ELSE <<>>

\* The innermost scope that binds the name; none has no prefix.
lookup(scopes, name) ==
  LET binding == {i \in DOMAIN scopes : name \in DOMAIN scopes[i]}
  IN  IF binding = {} THEN <<>> ELSE scopes[Max(binding)][name]

\* Chained or computed receivers have no prefix.
prefixOf(scopes, x) == IF x.k = "ident" THEN lookup(scopes, x.name) ELSE <<>>

bind(scopes, name, prefix) ==
  [scopes EXCEPT ![Len(scopes)] = [n \in DOMAIN @ \union {name} |-> IF n = name THEN prefix ELSE @[n]]]

isGroup(e) == e.k = "call" /\ e.name = "Group" /\ Len(e.args) = 1 /\ stringLit(e.args[1])

groupPrefix(e, scopes) == joinPath(prefixOf(scopes, e.x), e.args[1].path)

Route(verb, prefix, path, handler) ==
  [method |-> verb, path |-> joinPath(prefix, path), handler |-> handlerName(handler)]

isMux(e) == e.k = "call" /\ e.name \in {"Handle", "HandleFunc"}

\* The routes of a HandleFunc, with the method of a Methods chained to it or none.
muxRoute(e, chained, prefix) ==
  IF Len(e.args) < 2 \/ e.args[1].k # "lit" THEN <<>>
  ELSE LET verb == CASE chained # "" -> chained [] e.args[1].verb # "" -> e.args[1].verb [] OTHER -> "ANY"
       IN  <<Route(verb, prefix, e.args[1].path, e.args[Len(e.args)])>>

\* The method of Methods("GET") is a literal without a path.
firstMethod(args) == IF args # <<>> /\ args[1].k = "lit" THEN args[1].verb ELSE ""

-----------------------------------------------------------------------------
(* The walk.                                                               *)

RECURSIVE walkStmts(_, _), walkExprs(_, _)

found(st, more) == [st EXCEPT !.routes = @ \o more]

\* A function literal: a scope of its own, gone at its end.
walkInside(body, params, prefix, st) ==
  [st EXCEPT !.routes =
     walkStmts(body, [st EXCEPT !.scopes = Append(@, [n \in Range(params) |-> prefix])]).routes]

call(e, st) ==
  LET prefix == prefixOf(st.scopes, e.x)
      n == Len(e.args)
      walkOn(s) == walkExprs(<<e.x>> \o e.args, s)
      callback(i) == e.args[i].k = "func" /\ e.args[i].params # <<>>
  IN  CASE e.name = "Route" /\ n = 2 /\ stringLit(e.args[1]) /\ callback(2) ->
             walkInside(e.args[2].body, e.args[2].params, joinPath(prefix, e.args[1].path), st)
        [] e.name = "Group" /\ n > 0 /\ callback(1) ->
             walkInside(e.args[1].body, e.args[1].params, prefix, st)
        [] e.name = "" -> walkExprs(e.args, st)
        [] isMux(e) -> walkOn(found(st, muxRoute(e, "", prefix)))
        [] e.name = "Methods" ->
             IF isMux(e.x) /\ firstMethod(e.args) # ""
             THEN found(st, muxRoute(e.x, firstMethod(e.args), prefixOf(st.scopes, e.x.x))) ELSE st
        [] e.name \in DOMAIN routeMethods /\ n >= 2 /\ stringLit(e.args[1]) ->
             walkOn(found(st, <<Route(routeMethods[e.name], prefix, e.args[1].path, e.args[n])>>))
        [] OTHER -> walkOn(st)

walkExpr(e, st) ==
  CASE e.k = "call" -> call(e, st)
    [] e.k = "func" -> walkInside(e.body, <<>>, <<>>, st)
    [] e.k = "tree" -> walkExprs(e.parts, st)
    [] OTHER -> st

walkExprs(es, st) == IF es = <<>> THEN st ELSE walkExprs(Tail(es), walkExpr(Head(es), st))

\* The bodies of if, for and switch share the scope of the function.
walkStmt(s, st) ==
  CASE s.k = "do" -> walkExpr(s.x, st)
    [] s.k = "nest" -> walkStmts(s.body, walkExprs(s.head, st))
    [] s.k = "assign" /\ isGroup(s.rhs) ->
         walkExpr(s.rhs, [st EXCEPT !.scopes = bind(@, s.name, groupPrefix(s.rhs, @))])
    [] OTHER -> walkExpr(s.rhs, st)

walkStmts(stmts, st) == IF stmts = <<>> THEN st ELSE walkStmts(Tail(stmts), walkStmt(Head(stmts), st))

Body(func) == [i \in DOMAIN func.body |-> func.body[i].code]

\* One scope for all the functions of a file.
extractFile(funcs) ==
  walkStmts(FlattenSeq([i \in DOMAIN funcs |-> Body(funcs[i])]), [scopes |-> <<<<>>>>, routes |-> <<>>]).routes

\* Tests, vendored code and test data are skipped.
Scanned(files) == SelectSeq(files, LAMBDA f : ~f.skipped)

Extracted(files) ==
  LET scanned == Scanned(files)
  IN  FlattenSeq([i \in DOMAIN scanned |-> extractFile(scanned[i].funcs)])

-----------------------------------------------------------------------------
(* The reference: lexical scopes, any expression as a receiver.            *)

Unknown == <<"?">>  \* the prefix of a group with a dynamic path

clean(path) == SelectSeq(path, LAMBDA segment : segment # "")

under(prefix, e) ==
  IF prefix = Unknown \/ ~stringLit(e) THEN Unknown ELSE prefix \o clean(e.path)

RECURSIVE Router(_, _)
Router(x, env) ==
  CASE x.k = "ident" -> env[x.name]
    [] x.k = "call" /\ x.name = "Group" -> under(Router(x.x, env), x.args[1])
    [] OTHER -> <<>>

declare(env, names, prefix) ==
  [n \in DOMAIN env \union names |-> IF n \in names THEN prefix ELSE env[n]]

Registered(verb, prefix, e, handler) ==
  <<[method |-> verb, path |-> under(prefix, e), handler |-> handlerName(handler)]>>

RECURSIVE servedStmts(_, _), servedExprs(_, _)

servedCall(e, env) ==
  LET router == Router(e.x, env)
      more == servedExprs(<<e.x>> \o e.args, env)
      inside(f, prefix) == servedStmts(f.body, declare(env, Range(f.params), prefix))
  IN  CASE e.name = "Route" -> inside(e.args[2], under(router, e.args[1]))
        [] e.name = "Group" /\ e.args[1].k = "func" -> inside(e.args[1], router)
        [] isMux(e) ->
             Registered(IF e.args[1].verb = "" THEN "ANY" ELSE e.args[1].verb, router,
                        Lit(e.args[1].path), e.args[2]) \o more
        [] e.name = "Methods" ->
             Registered(e.args[1].verb, Router(e.x.x, env), e.x.args[1], e.x.args[2])
        [] e.name \in DOMAIN routeMethods /\ stringLit(e.args[1]) ->
             Registered(routeMethods[e.name], router, e.args[1], e.args[2]) \o more
        [] OTHER -> more

servedExpr(e, env) ==
  CASE e.k = "call" -> servedCall(e, env)
    [] e.k = "func" -> servedStmts(e.body, declare(env, Range(e.params), <<>>))
    [] e.k = "tree" -> servedExprs(e.parts, env)
    [] OTHER -> <<>>

servedExprs(es, env) == FlattenSeq([i \in DOMAIN es |-> servedExpr(es[i], env)])

servedStmts(stmts, env) ==
  IF stmts = <<>> THEN <<>>
  ELSE LET s == Head(stmts)
       IN  CASE s.k = "do" -> servedExpr(s.x, env) \o servedStmts(Tail(stmts), env)
             [] s.k = "nest" -> servedExprs(s.head, env) \o servedStmts(s.body, env)
                                  \o servedStmts(Tail(stmts), env)
             [] OTHER -> servedExpr(s.rhs, env)
                           \o servedStmts(Tail(stmts), declare(env, {s.name}, Router(s.rhs, env)))

servedFile(funcs) ==
  FlattenSeq([i \in DOMAIN funcs |-> servedStmts(Body(funcs[i]), [n \in funcs[i].params |-> <<>>])])

Served(files) == FlattenSeq([i \in DOMAIN files |-> servedFile(files[i].funcs)])

-----------------------------------------------------------------------------
(* Source trees grow by a statement, a function or a file, and are scanned *)
(* anew.                                                                   *)

ScanInit == sources = <<>> /\ routes = <<>>

Size == FoldLeft(LAMBDA n, f : n + FoldLeft(LAMBDA m, func : m + Len(func.body), 0, f.funcs), 0, sources)

\* Functions that say nothing add nothing, so the next one waits for a statement.
Started == sources # <<>> => Last(Last(sources).funcs).body # <<>>

AddFile(skipped, params) ==
  /\ Started /\ Size < MaxStmts
  /\ Len(sources) < 2
  /\ sources' = Append(sources, [skipped |-> skipped, funcs |-> <<[params |-> params, body |-> <<>>]>>])

AddFunc(params) ==
  /\ Started /\ Size < MaxStmts
  /\ sources # <<>> /\ Len(Last(sources).funcs) < 2
  /\ sources' = [sources EXCEPT ![Len(sources)].funcs = Append(@, [params |-> params, body |-> <<>>])]

InScope(func) == func.params \union UNION {func.body[i].declares : i \in DOMAIN func.body}

AddStmt(stmt) ==
  /\ Size < MaxStmts
  /\ sources # <<>>
  /\ stmt.needs \subseteq InScope(Last(Last(sources).funcs))
  /\ sources' = [sources EXCEPT ![Len(sources)].funcs[Len(Last(sources).funcs)].body = Append(@, stmt)]

ScanNext ==
  /\ \/ \E skipped \in BOOLEAN, params \in Signatures : AddFile(skipped, params)
     \/ \E params \in Signatures : AddFunc(params)
     \/ \E stmt \in Statements : AddStmt(stmt)
  /\ routes' = Extracted(sources')

-----------------------------------------------------------------------------
(* Properties.                                                             *)

\* In a plain file no name is declared twice, as a variable in one function
\* and as anything in another, and plain statements name the router they use
\* and give groups literal paths other than "/".
Plain(file) ==
  LET at == {<<i, j>> : i \in DOMAIN file.funcs, j \in 1 .. MaxStmts}
      used == {x \in at : x[2] \in DOMAIN file.funcs[x[1]].body}
      stmt(x) == file.funcs[x[1]].body[x[2]]
  IN  /\ \A x \in used : stmt(x).plain
      /\ \A x, y \in used : x # y => stmt(x).declares \cap stmt(y).declares = {}
      /\ \A x \in used, i \in DOMAIN file.funcs : stmt(x).declares \cap file.funcs[i].params = {}

\* The scan finds every registration that the sources make, in their order
\* and none else, and in plain files each with the path the router serves it
\* at: group prefixes are carried through assignments, closures and callbacks
\* that rebind a name, and forgotten where those end.
RoutesExact ==
  LET scanned == Scanned(sources)
      served == Served(scanned)
      registrations(list) == [i \in DOMAIN list |-> <<list[i].method, list[i].handler>>]
  IN  /\ registrations(routes) = registrations(served)
      /\ (\A i \in DOMAIN scanned : Plain(scanned[i])) => routes = served
=============================================================================
