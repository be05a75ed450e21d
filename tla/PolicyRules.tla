----------------------------- MODULE PolicyRules -----------------------------
(***************************************************************************)
(* The decisions ai-daemon computes rather than keeps: who a caller is     *)
(* (identity.rs, identity_of), the configuration a directory of drop-ins   *)
(* amounts to (config.rs), the limits a session opens with (limits_for and *)
(* attenuate), the attachments it may send and the text its model is shown *)
(* (framed_messages, defang).                                              *)
(*                                                                         *)
(* An optional value is a sequence of at most one.  A name is a sequence   *)
(* of pieces: the dash-separated parts of a cgroup component, or the       *)
(* tokens of an identity key.                                              *)
(***************************************************************************)
EXTENDS Integers, Sequences, SequencesExt, FiniteSetsExt, Functions

None == << >>
Some(v) == <<v>>
Or(option, default) == IF option = None THEN default ELSE option[1]

-----------------------------------------------------------------------------
(* The unit of a process: normalise_unit over the components of its        *)
(* cgroup, innermost first.  A component is [suffix, parts].               *)

Dotted == {"org.a", "org.b", "snap.a"}
LongHex == {"8 hex", "12 hex"}
Uuid == <<"8 hex", "4 hex", "4 hex", "4 hex", "12 hex">>

is_launch_token(part) == part \in LongHex \cup {"77", "78"}

strip_launch_uuid(parts) ==
  LET cut == Len(parts) - Len(Uuid)
  IN  IF cut > 0 /\ SubSeq(parts, cut + 1, Len(parts)) = Uuid
      THEN SubSeq(parts, 1, cut) ELSE parts

DropLaunchGreedily(parts) ==
  LET names == {k \in DOMAIN parts : ~ is_launch_token(parts[k])}
  IN  IF names = {} THEN parts ELSE SubSeq(parts, 1, Max(names))

DropLaunch(parts) ==
  IF Len(parts) > 1 /\ is_launch_token(Last(parts)) THEN Front(parts) ELSE parts

DropLauncher(parts) ==
  IF /\ Len(parts) > 1
     /\ Head(parts) \notin Dotted
     /\ ToSet(Tail(parts)) \cap Dotted # {}
  THEN Tail(parts) ELSE parts

Begins(parts, prefix) == Len(parts) > Len(prefix) /\ IsPrefix(prefix, parts)

normalise_unit(component) ==
  LET parts == component.parts
      drop(n) == SubSeq(parts, n + 1, Len(parts))
  IN  CASE component.suffix = "service" ->
             IF Head(parts) = "user@1000" THEN None ELSE Some(parts \o <<".service">>)
        [] component.suffix = "slice" -> None
        [] component.suffix = "scope" ->
             CASE \/ Begins(parts, <<"vte", "spawn">>)
                  \/ Begins(parts, <<"session">>)
                  \/ parts = <<"init">> -> None
               [] Head(parts) = "snap.a" -> Some(strip_launch_uuid(parts))
               [] Begins(parts, <<"app", "airun">>) -> Some(DropLaunch(drop(2)))
               [] Begins(parts, <<"app">>) /\ ~ Begins(parts, <<"app", "airun">>) ->
                    Some(DropLauncher(DropLaunch(drop(1))))
               [] OTHER -> Some(parts \o <<".scope">>)

unit_from_cgroup(path) ==
  LET named == {k \in DOMAIN path : normalise_unit(path[k]) # None}
  IN  IF named = {} THEN None ELSE normalise_unit(path[Max(named)])

\* The unit of a process started in the given scope of a desktop session.
UnitOf(parts) ==
  unit_from_cgroup(<<[suffix |-> "service", parts |-> <<"user@1000">>],
                     [suffix |-> "slice", parts |-> <<"app">>],
                     [suffix |-> "scope", parts |-> parts]>>)

\* The unit names the application and not the launch: two launches of one
\* name share a unit, an application id is the unit exactly, `ai-run --as`
\* gives exactly the name it was given, a snap loses its uuid, and a terminal
\* tab names nothing.
UnitNamesApp(name, launcher) ==
  LET launch(token) == UnitOf(<<"app">> \o launcher \o name \o <<token>>)
  IN  /\ launch("77") = launch("8 hex")
      /\ Head(name) \in Dotted /\ launcher # <<"airun">> => launch("77") = Some(name)
      /\ UnitOf(<<"app", "airun">> \o name \o <<"77">>) = Some(name)
      /\ UnitOf(<<"snap.a">> \o name \o Uuid) = Some(<<"snap.a">> \o name)
      /\ UnitOf(<<"vte", "spawn">> \o name) = None

-----------------------------------------------------------------------------
(* Who a caller is.  A caller is [uid, unit, exe] as the bus and /proc     *)
(* describe it, and what it says about itself is a record of options; peer *)
(* is the process behind a shim_peer_pid.                                  *)

Identity(class, caller) ==
  [class |-> class, uid |-> caller.uid, unit |-> caller.unit, exe |-> caller.exe,
   app_id |-> None, client |-> None, attested |-> FALSE]

is_trusted_introducer(allowed, caller) ==
  \E name \in allowed : \E said \in ToSet(caller.unit \o caller.exe) :
    said \in {name, name \o <<".service">>}

\* Characters that could spell another key.
Marks == {":", "@", "uid:", "unit:"}

AnyClient(name) == name # << >>

GoodClient(name) == name # << >> /\ ToSet(name) \cap Marks = {}

\* The identity, or none when the caller claims what it may not.
identity_of(config, caller, options) ==
  LET own == Identity("native", caller)
      is_shim == \/ caller.uid = config.shim_uid
                 \/ caller.unit = Some(<<"shim", ".service">>)
      named == IF options.shim_client # None /\ GoodClient(options.shim_client[1])
               THEN options.shim_client ELSE None
  IN  CASE options.portal_app_id # None ->
             IF is_trusted_introducer(config.portal_units, caller)
             THEN Some([own EXCEPT !.class = "portal", !.app_id = options.portal_app_id])
             ELSE None
        [] options.portal_app_id = None
           /\ (options.shim_client # None \/ options.peer # None) /\ ~ is_shim -> None
        [] options.portal_app_id = None /\ options.peer # None /\ is_shim ->
             Some([Identity("shim", options.peer[1]) EXCEPT
                     !.attested = options.attested, !.client = named])
        [] OTHER -> Some(own)

key(i) ==
  LET at == <<"@", i.uid>>
  IN  CASE i.class = "portal" -> <<"portal:">> \o i.app_id[1]
        [] i.class = "native" ->
             IF i.unit # None THEN <<"unit:">> \o i.unit[1] \o at
             ELSE IF i.exe # None THEN <<"exe:">> \o i.exe[1] \o at
             ELSE <<"uid:", i.uid>>
        [] i.class = "shim" ->
             IF i.client # None THEN <<"shim:">> \o i.client[1]
             ELSE IF i.attested /\ i.unit # None THEN <<"shim:", "unit:">> \o i.unit[1] \o at
             ELSE IF i.attested /\ i.exe # None THEN <<"shim:">> \o i.exe[1] \o at
             ELSE <<"shim:", "uid:", i.uid>>

\* A name the shim vouches for is nobody else's key, and only the shim makes
\* one: whoever answers to it was introduced under that very name.
ClientKeyIsOwn(config, a, b) ==
  LET who(x) == identity_of(config, x.caller, x.options)
  IN  who(a) # None /\ who(b) # None /\ who(a)[1].client # None
        /\ key(who(a)[1]) = key(who(b)[1])
      => /\ who(b)[1].client = who(a)[1].client
         /\ b.options.shim_client = who(a)[1].client

-----------------------------------------------------------------------------
(* The configuration.  A file is [tables, list]: the whole tables it sets, *)
(* and the entries (backends, identities, prices) it declares, each        *)
(* [name, value].  A drop-in also has its name and whether it is a .conf.  *)

merge(config, file) ==
  [tables |-> [t \in DOMAIN config.tables |->
                 IF t \in DOMAIN file.tables THEN file.tables[t] ELSE config.tables[t]],
   list |-> config.list \o file.list]

last_declared(list, name) ==
  list[Max({k \in DOMAIN list : list[k].name = name})]

FirstWins(items) ==
  FoldLeft(LAMBDA kept, item :
             IF \E k \in DOMAIN kept : kept[k].name = item.name THEN kept
             ELSE Append(kept, item),
           << >>, items)

last_wins(items) ==
  FoldLeft(LAMBDA kept, item :
             IF \E k \in DOMAIN kept : kept[k].name = item.name
             THEN [k \in DOMAIN kept |-> IF kept[k].name = item.name THEN item ELSE kept[k]]
             ELSE Append(kept, item),
           << >>, items)

load(base, dropins) ==
  LET names == SetToSortSeq({d.name : d \in {e \in dropins : e.conf}}, <)
      file(n) == CHOOSE d \in dropins : d.name = n
      merged == FoldLeft(LAMBDA config, n : merge(config, file(n)), base, names)
  IN  [merged EXCEPT !.list = last_wins(@)]

rule_for(config, name) ==
  LET hits == {k \in DOMAIN config.list : config.list[k].name = name}
  IN  IF hits = {} THEN None ELSE Some(config.list[Min(hits)])

\* What the last file in name order to mention a thing says is what holds,
\* and an entry keeps the place it was first declared in.
LastFileWins(base, dropins) ==
  LET config == load(base, dropins)
      read == {d \in dropins : d.conf}
      said(n) == {d \in read : \E k \in DOMAIN d.list : d.list[k].name = n}
      last(S) == CHOOSE d \in S : \A e \in S : e.name <= d.name
      all == base.list \o FlattenSeq([k \in 1..Cardinality(read) |->
               (CHOOSE d \in read : Cardinality({e \in read : e.name < d.name}) = k - 1).list])
      first(n) == Min({k \in DOMAIN all : all[k].name = n})
      names == {all[k].name : k \in DOMAIN all}
  IN  /\ \A n \in names : rule_for(config, n) =
           Some(last_declared(IF said(n) = {} THEN base.list ELSE last(said(n)).list, n))
      /\ Len(config.list) = Cardinality(names)
      /\ \A j, k \in DOMAIN config.list :
           j < k => first(config.list[j].name) < first(config.list[k].name)
      /\ \A t \in DOMAIN base.tables :
           LET by == {d \in read : t \in DOMAIN d.tables}
           IN  config.tables[t] = IF by = {} THEN base.tables[t] ELSE last(by).tables[t]

-----------------------------------------------------------------------------
(* Limits.  Zero spend is no ceiling; an unasked option is none.           *)

limits_for(defaults, rule) ==
  [f \in DOMAIN defaults |-> IF f \in DOMAIN rule THEN rule[f] ELSE defaults[f]]

permits_model(limits, model) == limits.models \cap {"*", model} # {}

NarrowSpendEither(spend, asked) == IF asked > 0 THEN asked ELSE spend

NarrowSpend(spend, asked) ==
  IF asked = 0 THEN spend
  ELSE IF spend = 0 THEN asked ELSE Min({spend, asked})

attenuate(limits, ask) ==
  LET rate == Or(ask.rate, limits.rate)
      models == Or(ask.models, {})
  IN  [limits EXCEPT
        !.session_rate = IF rate < limits.rate THEN Some(rate) ELSE @,
        !.rate = Min({@, rate}),
        !.max_sessions = Min({@, Or(ask.max_sessions, @)}),
        !.spend = NarrowSpend(@, Or(ask.spend, 0)),
        !.no_tools = @ \/ ask.no_tools,
        !.models = CASE ask.models = None -> @
                     [] ask.models # None /\ "*" \in @ -> models
                     [] ask.models # None /\ "*" \notin @ ->
                          {m \in models : m = "*" \/ m \in limits.models},
        !.prelude = @ \o ask.prelude,
        !.mark_provenance = @ \/ ask.mark_provenance]

TwoModels == {"a", "b"}

\* No field of the second is wider than the same field of the first.
Narrower(limits, given) ==
  /\ given.rate <= limits.rate
  /\ given.session_rate # None => given.session_rate[1] = given.rate
  /\ given.max_sessions <= limits.max_sessions
  /\ limits.spend # 0 => given.spend \in 1..limits.spend
  /\ limits.no_tools => given.no_tools
  /\ \A m \in TwoModels : permits_model(given, m) => permits_model(limits, m)
  /\ IsPrefix(limits.prelude, given.prelude)
  /\ limits.mark_provenance => given.mark_provenance

-----------------------------------------------------------------------------
(* Attachments.  A configuration validate accepts lets through none that   *)
(* does not fit a frame; products saturate at the top of a u64.            *)

Saturating(top, n) == Min({top, n})

ValidateThree(c) == /\ Saturating(c.top, c.max_pixels * 3) <= c.ceiling
                    /\ Saturating(c.top, c.max_samples * 4) <= c.ceiling

validate(c) == /\ Saturating(c.top, c.max_pixels * 4) <= c.ceiling
               /\ Saturating(c.top, c.max_samples * 4) <= c.ceiling

check_attachment_budget(c, raw) ==
  \/ /\ raw.kind = "image"
     /\ raw.w > 0 /\ raw.h > 0
     /\ Saturating(c.top, raw.w * raw.h) <= c.max_pixels
     /\ raw.len = Saturating(c.top, raw.w * raw.h * (IF raw.fmt = "rgb8" THEN 3 ELSE 4))
  \/ /\ raw.kind = "audio"
     /\ raw.rate > 0
     /\ raw.len \div 4 <= c.max_samples
     /\ raw.len % 4 = 0

FitsFrame(c, raw) ==
  validate(c) /\ check_attachment_budget(c, raw) => raw.len <= c.ceiling

-----------------------------------------------------------------------------
(* Provenance.  A character is a string; the tags are "<p" and "<q" with   *)
(* their closing forms, in either case, and the nonce is two characters.   *)
(* Text the daemon itself writes is one of the Ours tokens.                *)

Nonce == <<"0", "1">>
Ours == {"<policy>", "</policy>", "<from-app>", "</from-app>",
         "<tool-output>", "</tool-output>", "removed"}

Lower(c) == IF c = "P" THEN "p" ELSE c

Matches(text, k, what) ==
  /\ k + Len(what) - 1 <= Len(text)
  /\ \A j \in DOMAIN what : Lower(text[k + j - 1]) = what[j]

\* Replace every match, left to right, by one token.
RECURSIVE Replace(_, _, _, _)
Replace(text, k, whats, by) ==
  IF k > Len(text) THEN << >>
  ELSE LET hits == {w \in whats : Matches(text, k, w)}
       IN  IF hits = {} THEN <<text[k]>> \o Replace(text, k + 1, whats, by)
           ELSE by \o Replace(text, k + Len(CHOOSE w \in hits : TRUE), whats, by)

StripWhole(text, name) ==
  Replace(text, 1, {<<"<", name>>, <<"<", "/", name>>}, << >>)

strip_tag(text, name) ==
  Replace(text, 1, {<<"<", name>>, <<"<", "/", name>>}, <<"removed">>)

defang(text) ==
  strip_tag(strip_tag(Replace(text, 1, {Nonce}, <<"removed">>), "p"), "q")

framed_messages(limits, history) ==
  LET mark == limits.mark_provenance
      framed(m) ==
        CASE ~ mark \/ m.role = "assistant" -> m
          [] mark /\ m.role = "tool" ->
               [m EXCEPT !.content = <<"<tool-output>">> \o defang(@) \o <<"</tool-output>">>]
          [] mark /\ m.role \notin {"tool", "assistant"} ->
               [m EXCEPT !.content = <<"<from-app>">> \o defang(@) \o <<"</from-app>">>]
      policy == IF mark THEN <<"<policy>">> \o limits.prelude \o <<"</policy>">>
                ELSE limits.prelude
  IN  (IF limits.prelude = << >> THEN << >>
       ELSE <<[role |-> "system", content |-> policy]>>)
      \o [k \in DOMAIN history |-> framed(history[k])]

\* What a model is shown of an application's or a tool's text, once marked,
\* holds the daemon's own pair of markers and nothing else that could pass
\* for one: no tag in any case, no nonce.
MarkersAreOurs(limits, history) ==
  LET shown == framed_messages(limits, history)
      first == Len(shown) - Len(history)
      spells(text, what) == \E k \in DOMAIN text : Matches(text, k, what)
  IN  limits.mark_provenance =>
        \A k \in DOMAIN history : history[k].role # "assistant" =>
          LET text == shown[first + k].content
          IN  /\ \A what \in {Nonce, <<"<", "p">>, <<"<", "/", "p">>,
                              <<"<", "q">>, <<"<", "/", "q">>} : ~ spells(text, what)
              /\ {j \in DOMAIN text : text[j] \in Ours \ {"removed"}} = {1, Len(text)}
=============================================================================
