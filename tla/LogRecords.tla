----------------------------- MODULE LogRecords -----------------------------
(***************************************************************************)
(* How a log call becomes a record (logs.go): the maps of the helpers      *)
(* (Debug .. Logf), the slog handler with the handlers derived from it,    *)
(* and the zap cores of contrib/zap, alone or around the host's core.      *)
(*                                                                         *)
(* Go iterates over a map in any order, so a record is one of several.     *)
(* A key is a sequence: the names of the groups around it, then its own.   *)
(***************************************************************************)
EXTENDS Integers, Sequences, SequencesExt, FiniteSetsExt

CONSTANTS Names,       \* the keys a caller may give; "" is a legal one
          MaxFields,   \* maxLogFields
          MaxValue,    \* maxLogFieldValue, in characters
          MaxAttrs,    \* bound of the model: attributes given to a logger or a call
          MaxLoggers   \* bound of the model: loggers, the three first ones included

ASSUME LogRecordsAssumption ==
  MaxFields \in Nat \ {0} /\ MaxValue \in Nat /\ MaxAttrs \in Nat /\ MaxLoggers \in Nat

Group == "g"            \* the name every WithGroup gives

VARIABLES loggers,      \* the handlers and cores made so far, the derived ones last
          record,       \* the last call: what it was given, and the record shipped
          hostLog       \* how often the wrapped core of the host wrote that call

logVars == <<loggers, record, hostLog>>

None == [given |-> <<>>, maps |-> 0, fields |-> <<>>]

\* An attribute: a name, and the length of its value; two values of one name
\* that the model tells apart have different lengths.
Attrs == Names \X {MaxValue - 1, MaxValue + 1}

AttrLists == UNION {[1 .. n -> Attrs] : n \in 0 .. MaxAttrs}

LogInit ==
  /\ loggers = <<[kind |-> "slog", attrs |-> <<>>, groups |-> <<>>],
                 [kind |-> "zap", attrs |-> <<>>, groups |-> <<>>],
                 [kind |-> "wrapped", attrs |-> <<>>, groups |-> <<>>]>>
  /\ record = None
  /\ hostLog = 0

-----------------------------------------------------------------------------
truncateString(value) == Min({value, MaxValue})

\* A later entry of a map replaces an earlier one of its key.
put(map, key, value) == [k \in DOMAIN map \union {key} |-> IF k = key THEN value ELSE map[k]]

toMap(entries) ==
  LET map[i \in 0 .. Len(entries)] ==
        IF i = 0 THEN <<>> ELSE put(map[i - 1], entries[i][1], entries[i][2])
  IN  map[Len(entries)]

\* Seeded bug: full or not, the first value of a key stays.
addFieldKeepsFirst(out, key, value) ==
  IF key = <<"">> \/ Cardinality(DOMAIN out) >= MaxFields \/ key \in DOMAIN out
  THEN out ELSE put(out, key, truncateString(value))

\* One entry of a map; a full record takes nothing more, whatever the key.
addField(out, key, value) ==
  IF key = <<"">> \/ Cardinality(DOMAIN out) >= MaxFields
  THEN out ELSE put(out, key, truncateString(value))

\* The entries of a map on top of a result, in some order of its keys.
addInOrder(out, map, order) ==
  LET outs[i \in 0 .. Len(order)] ==
        IF i = 0 THEN out ELSE addField(outs[i - 1], order[i], map[order[i]])
  IN  outs[Len(order)]

\* The results of one map on top of each of the results so far, in any order.
mergeMap(outs, map) ==
  {addInOrder(out, map, order) : out \in outs, order \in SetToSeqs(DOMAIN map)}

stringifyFields(maps) ==
  LET outs[i \in 0 .. Len(maps)] == IF i = 0 THEN {<<>>} ELSE mergeMap(outs[i - 1], maps[i])
  IN  outs[Len(maps)]

\* The entries of a call, each with the key it has in the record.
named(attrs) == [i \in DOMAIN attrs |-> <<<<attrs[i][1]>>, attrs[i][2]>>]

prefixed(groups, attrs) == [i \in DOMAIN attrs |-> <<groups \o <<attrs[i][1]>>, attrs[i][2]>>]

\* The attributes that have a name.
withNames(attrs) ==
  LET kept[i \in 0 .. Len(attrs)] ==
        IF i = 0 THEN <<>>
        ELSE IF attrs[i][1] = "" THEN kept[i - 1] ELSE Append(kept[i - 1], attrs[i])
  IN  kept[Len(attrs)]

Shipped(given, maps) ==
  \E out \in stringifyFields(maps) :
    record' = [given |-> given, maps |-> Len(maps), fields |-> out]

-----------------------------------------------------------------------------
\* Info("msg", m1, m2): each argument is a map of its own.  Loggers do not
\* matter to it, so the model calls it before it derives any.
logAt(first, second) ==
  /\ Len(loggers) = 3
  /\ Shipped(named(first \o second), <<toMap(named(first)), toMap(named(second))>>)
  /\ UNCHANGED <<loggers, hostLog>>

\* slogHandler.Handle: the attributes of the handler, then those of the record,
\* all under the groups of the handler.
Handle(h, attrs) ==
  LET all == prefixed(h.groups, withNames(h.attrs \o attrs))
  IN  /\ h.kind = "slog"
      /\ Shipped(all, <<toMap(all)>>)
      /\ UNCHANGED <<loggers, hostLog>>

\* core.write: one map of the fields of the core and of the entry.
Write(core, attrs) ==
  LET all == named(core.attrs \o attrs)
  IN  Shipped(all, <<toMap(all)>>)

LogZap(core, attrs) ==
  /\ core.kind = "zap"
  /\ Write(core, attrs)
  /\ UNCHANGED <<loggers, hostLog>>

\* wrapped.Check registers the wrapped core and lets the host's core register
\* itself.
Checked == <<"wrapped", "next">>

\* zap writes the entry to each core that Check registered; wrapped.Write ships
\* it and passes it on to the host's core.
LogWrapped(core, attrs) ==
  /\ core.kind = "wrapped"
  /\ Write(core, attrs)
  /\ hostLog' = Len(Checked)
  /\ UNCHANGED loggers

\* WithAttrs of the handler and With of the cores: a copy; the original stays.
WithAttrs(h, attrs) ==
  /\ Len(loggers) < MaxLoggers
  /\ loggers' = Append(loggers, [h EXCEPT !.attrs = @ \o attrs])
  /\ UNCHANGED <<record, hostLog>>

WithGroup(h) ==
  /\ h.kind = "slog" /\ Len(loggers) < MaxLoggers
  /\ loggers' = Append(loggers, [h EXCEPT !.groups = Append(@, Group)])
  /\ UNCHANGED <<record, hostLog>>

Emit ==
  \/ \E first, second \in AttrLists : logAt(first, second)
  \/ \E h \in Range(loggers), attrs \in AttrLists :
       Handle(h, attrs) \/ LogZap(h, attrs) \/ LogWrapped(h, attrs)

\* What a call ships depends on its logger only: a behaviour ends with a call.
LogNext ==
  \/ record = None /\ Emit
  \/ record = None /\ \E h \in Range(loggers) : (\E attr \in Attrs : WithAttrs(h, <<attr>>)) \/ WithGroup(h)

LogSpec == LogInit /\ [][LogNext]_logVars

-----------------------------------------------------------------------------
\* A record never exceeds the server's limits, is filled up to them, and tells
\* of each key a value it was given (stringifyFields).  Below the limit, and at
\* it when one map holds the fields, it has exactly the keys given, each with
\* the value given last, in whatever order Go walks the maps.
FieldsMerged ==
  LET given == record.given
      keys == {given[i][1] : i \in DOMAIN given} \ {<<"">>}
      at(key) == {i \in DOMAIN given : given[i][1] = key}
      value(i) == truncateString(given[i][2])
      fields == record.fields
  IN  /\ Cardinality(DOMAIN fields) = Min({MaxFields, Cardinality(keys)})
      /\ \A key \in DOMAIN fields : key \in keys /\ \E i \in at(key) : fields[key] = value(i)
      /\ Cardinality(keys) + record.maps <= MaxFields + 1
           => fields = [key \in keys |-> value(Max(at(key)))]

\* An entry logged through Wrap reaches the core of the host once ("records
\* keep going wherever next writes them, and a copy lands in the Dataflow Logs
\* tab", contrib/zap/zaptrace.go:31-33).
HostWritesOnce == hostLog <= 1
=============================================================================
