---------------------------- MODULE PatchSource ----------------------------
(***************************************************************************)
(* PatchSource (exons.patch.go): typed edits of the frontmatter text of a   *)
(* document, line by line, checked against the same edits of the parsed     *)
(* document.                                                               *)
(*                                                                         *)
(* The text is a sequence of lines.  Of a line the indentation, the key and *)
(* the way its value is written are kept; values, comments and the lines of *)
(* a scalar are names.  What yaml.v3 makes of the lines is Decode.          *)
(***************************************************************************)
EXTENDS Integers, Sequences, FiniteSets, SequencesExt

CONSTANTS
  Documents,   (* the frontmatters considered: sequences of lines           *)
  Edits,       (* the edits considered: [path |-> keys, value |-> tokens]   *)
  MaxPatchEdits

(* A value is a sequence of tokens: <<"v">> is a scalar, <<"list", ...>> a  *)
(* list, <<"text", ...>> a scalar of several lines, Map a block of keys.    *)
(* To set nothing is to remove the key.                                     *)
Map == <<"map">>
Nothing == <<>>

(* Lines.  form: how the value of a key is written                          *)
(*   "plain"  on the line of the key        "nest"   on the lines below     *)
(*   "bar"    | and lines below             "keep"   |+ and lines below     *)
(*   "quote"  quoted, closed on a later line                                *)
(*   "flow"   {...}: the paths below the key and their values               *)
(*   "alias"  an anchor or an alias                                         *)
NoFlow == [p \in {} |-> <<>>]
Line(ind, is, key, form, val, flow, note) ==
  [ind |-> ind, is |-> is, key |-> key, form |-> form, val |-> val, flow |-> flow, note |-> note]
KeyLine(ind, key, form, val, note) == Line(ind, "key", key, form, val, NoFlow, note)
FlowLine(ind, key, flow, note) == Line(ind, "key", key, "flow", <<>>, flow, note)
Item(ind, v) == Line(ind, "item", "", "", <<v>>, NoFlow, "")
Hash(ind, note) == Line(ind, "hash", "", "", <<note>>, NoFlow, note)
Text(ind, v) == Line(ind, "text", "", "", <<v>>, NoFlow, "")
Close(ind, v) == Line(ind, "close", "", "", <<v>>, NoFlow, "")
Blank == Line(0, "blank", "", "", <<"">>, NoFlow, "")

(* Any text of such lines is considered; only what a line of a kind cannot  *)
(* have is excluded.                                                        *)
IsLine(l) ==
  /\ l.ind \in Nat /\ l.val \in Seq(STRING)
  /\ l.is = "key" => l.key \in STRING
  /\ l.is \in {"key", "item", "hash", "text", "close", "blank"}
  /\ l.form \in {"", "plain", "nest", "bar", "keep", "quote", "flow", "alias"}
  /\ l.is = "blank" => l.note = ""
  /\ \A p \in DOMAIN l.flow : l.form = "flow" /\ p \in Seq(STRING) /\ p # <<>>
IsText(t) == Len(t) \in Nat /\ DOMAIN t = 1..Len(t) /\ \A n \in 1..Len(t) : IsLine(t[n])

ASSUME MaxPatchEditsAssumption == MaxPatchEdits \in Nat
(* No edit has an empty path, and none sets or removes the name.            *)
ASSUME DocumentsAssumption == \A d \in Documents : d \in Seq(Range(d)) /\ IsText(d)
ASSUME EditsAssumption ==
  \A e \in Edits : /\ e.path \in Seq(STRING) /\ e.path # <<>> /\ e.path[1] # "name"
                   /\ e.value \in Seq(STRING)

VARIABLES
  source,    (* the frontmatter PatchSource was given                       *)
  text,      (* fm: what the edits so far have made of it                   *)
  edits,     (* the edits so far                                            *)
  pruned,    (* the blocks each of them removed because it emptied them     *)
  status     (* "editing", "done", or why it was refused                    *)

vars == <<source, text, edits, pruned, status>>

-----------------------------------------------------------------------------
(* What yaml.v3 reads.                                                      *)

(* The line whose scalar line n continues, or 0.                            *)
Opened(t) ==
  LET opened[n \in DOMAIN t] ==
        LET b == IF n = 1 THEN 0
                 ELSE IF opened[n - 1] # 0 THEN opened[n - 1]
                 ELSE IF t[n - 1].is = "key" /\ t[n - 1].form \in {"bar", "keep", "quote"} THEN n - 1
                 ELSE 0
            more == IF t[b].form = "quote" THEN n - 1 = b \/ t[n - 1].is # "close"
                    ELSE t[n].is = "blank" \/ t[n].ind > t[b].ind
        IN  IF b # 0 /\ more THEN b ELSE 0
  IN  opened

LiveKeys(t) == LET o == Opened(t) IN {n \in DOMAIN t : t[n].is = "key" /\ o[n] = 0}
Greatest(S) == CHOOSE n \in S : \A m \in S : m <= n
GreatestOr0(S) == IF S = {} THEN 0 ELSE Greatest(S)

Parent(t, keys, n) == GreatestOr0({m \in keys : m < n /\ t[m].ind < t[n].ind})
Children(t, keys, n) == {m \in keys : Parent(t, keys, m) = n}

(* The key a list item belongs to.                                          *)
ItemsOf(t, keys, n) ==
  LET o == Opened(t)
  IN  {m \in DOMAIN t : t[m].is = "item" /\ o[m] = 0 /\ GreatestOr0({k \in keys : k < m}) = n}

Paths(t, keys) ==
  LET path[n \in keys] ==
        LET p == Parent(t, keys, n)
        IN  IF p = 0 THEN <<t[n].key>> ELSE Append(path[p], t[n].key)
  IN  path

(* The text is YAML: every line belongs somewhere, no key is given twice.   *)
WellFormed(t) ==
  LET o == Opened(t)
      keys == LiveKeys(t)
      path == Paths(t, keys)
  IN  /\ \A n \in DOMAIN t : t[n].is \in {"text", "close"} => o[n] # 0
      /\ \A n \in DOMAIN t : t[n].is = "item" /\ o[n] = 0 =>
            LET k == GreatestOr0({m \in keys : m < n})
            IN  /\ k # 0 /\ t[k].form = "nest" /\ t[k].ind <= t[n].ind
                /\ \A m \in ItemsOf(t, keys, k) : t[m].ind = t[n].ind
      /\ \A n \in keys :
            LET p == Parent(t, keys, n)
            IN  /\ p = 0 => t[n].ind = 0
                /\ p # 0 => t[p].form = "nest" /\ ItemsOf(t, keys, p) = {}
                /\ \A m \in Children(t, keys, p) : t[m].ind = t[n].ind
                /\ \A m \in keys : path[m] = path[n] => m = n
      /\ \A n \in keys : t[n].form = "quote" =>
            \E m \in DOMAIN t : t[m].is = "close" /\ o[m] = n

(* The lines of the scalar opened at n; only |+ keeps the blank ones at its *)
(* end.                                                                     *)
ScalarLines(t, n) ==
  LET o == Opened(t)
      last == GreatestOr0({m \in DOMAIN t : o[m] = n /\ (t[n].form = "keep" \/ t[m].is # "blank")})
  IN  IF last = 0 THEN <<>> ELSE SubSeq(t, n + 1, last)

ItemValues(t, items) ==
  LET upTo[n \in 0..Len(t)] ==
        IF n = 0 THEN <<>>
        ELSE IF n \in items THEN Append(upTo[n - 1], t[n].val[1]) ELSE upTo[n - 1]
  IN  upTo[Len(t)]

(* The value of the key at n; Nothing for null.                             *)
ValueAt(t, keys, n) ==
  IF t[n].form \in {"plain", "alias"} THEN t[n].val
  ELSE IF t[n].form \in {"bar", "keep", "quote"} THEN <<"text">> \o ScalarLines(t, n)
  ELSE IF t[n].form = "flow" \/ Children(t, keys, n) # {} THEN Map
  ELSE IF ItemsOf(t, keys, n) # {} THEN <<"list">> \o ItemValues(t, ItemsOf(t, keys, n))
  ELSE Nothing

(* The document: its paths and their values.                                *)
Decode(t) ==
  LET keys == LiveKeys(t)
      path == Paths(t, keys)
      block == {<<path[n], ValueAt(t, keys, n)>> : n \in keys}
      flow == UNION {{<<path[n] \o p, t[n].flow[p]>> : p \in DOMAIN t[n].flow} : n \in keys}
  IN  {f \in block \cup flow : f[2] # Nothing}

(* The canonical encoding sameDocument compares: an empty list or map with  *)
(* omitempty is as good as none.                                            *)
Requirements == <<"requirements">>
Resources == <<"requirements", "resources">>
Modes == <<"requirements", "resource_modes">>
Canonical(spec) ==
  {f \in spec : /\ f # <<Resources, <<"list">>>>
                /\ f = <<Modes, Map>> => \E g \in spec : Len(g[1]) = 3 /\ IsPrefix(Modes, g[1])}

(* commentLines, and the notes behind a key that is edited.                 *)
Comments(t) ==
  LET o == Opened(t)
  IN  {t[n].note : n \in {m \in DOMAIN t : o[m] = 0}} \ {""}

-----------------------------------------------------------------------------
(* What the program makes of the lines.                                     *)

(* Spec.Validate and ValidateStrict: what the edits can get wrong.          *)
Kinds(spec) ==
  UNION {{f[2][i] : i \in 2..Len(f[2])} : f \in {g \in spec : g[1] = Resources /\ g[2] # Map}}
Valid(spec) ==
  /\ \E f \in spec : f[1] = <<"name">>
  /\ <<<<"type">>, <<"prompt">>>> \in spec => \A f \in spec : f[1] # Modes
  /\ \A f \in spec : Len(f[1]) = 3 /\ IsPrefix(Modes, f[1]) =>
        /\ f[2] \in {<<"all">>, <<"listed">>, <<"none">>}
        /\ f[2] = <<"listed">> => f[1][3] \in Kinds(spec)
        /\ f[2] = <<"none">> => f[1][3] \notin Kinds(spec)

Parses(t) == WellFormed(t) /\ Valid(Decode(t))

(* Mutant: what looks like a comment is left where it is.                   *)
EntryEndOnHash(t, n, compact) ==
  LET breaks == {m \in DOMAIN t : /\ m > n /\ t[m].is \notin {"blank", "hash"}
                                  /\ \/ t[m].ind < t[n].ind
                                     \/ t[m].ind = t[n].ind /\ ~ (compact /\ t[m].is = "item")}
      before == IF breaks = {} THEN Len(t) ELSE (CHOOSE m \in breaks : \A k \in breaks : m <= k) - 1
  IN  Greatest({n} \cup {m \in (n + 1)..before : t[m].is \notin {"blank", "hash"}})

(* Mutant: a line at the key's own column always ends the entry.            *)
EntryEndAtColumn(t, n, compact) ==
  LET shallow(m) == t[m].is = "hash" /\ t[m].ind <= t[n].ind
      breaks == {m \in DOMAIN t : m > n /\ t[m].is # "blank" /\ ~ shallow(m) /\ t[m].ind <= t[n].ind}
      before == IF breaks = {} THEN Len(t) ELSE (CHOOSE m \in breaks : \A k \in breaks : m <= k) - 1
  IN  Greatest({n} \cup {m \in (n + 1)..before : t[m].is # "blank" /\ ~ shallow(m)})

(* entryLines: the last line that belongs to the entry of line n.  Lines    *)
(* deeper than the key do, those of a compact list too; a comment at or     *)
(* left of the key neither does nor ends it.                                *)
EntryEnd(t, n, compact) ==
  LET shallow(m) == t[m].is = "hash" /\ t[m].ind <= t[n].ind
      breaks == {m \in DOMAIN t : /\ m > n /\ t[m].is # "blank" /\ ~ shallow(m)
                                  /\ \/ t[m].ind < t[n].ind
                                     \/ t[m].ind = t[n].ind /\ ~ (compact /\ t[m].is = "item")}
      before == IF breaks = {} THEN Len(t) ELSE (CHOOSE m \in breaks : \A k \in breaks : m <= k) - 1
  IN  Greatest({n} \cup {m \in (n + 1)..before : t[m].is # "blank" /\ ~ shallow(m)})

End(t, keys, n) == EntryEnd(t, n, ItemsOf(t, keys, n) # {})

(* hasMultiLineQuotedScalar, hasAnchorOrAlias: in the value of line n.      *)
Below(t, keys, n) == LET path == Paths(t, keys) IN {m \in keys : IsPrefix(path[n], path[m])}
HasForm(t, keys, n, form) == \E m \in Below(t, keys, n) : t[m].form = form

(* renderEntry and nestValue                                                *)
Rendered(ind, keys, value, note) ==
  LET key(i, form, val) == KeyLine(ind + i - 1, keys[i], form, val, IF i = 1 THEN note ELSE "")
      last == Len(keys)
      items == IF value[1] = "list" THEN Tail(value) ELSE <<>>
  IN  [i \in 1..(last - 1) |-> key(i, "nest", <<>>)]
      \o (IF items = <<>> THEN <<key(last, "plain", value)>>
          ELSE <<key(last, "nest", <<>>)>> \o [i \in DOMAIN items |-> Item(ind + last, items[i])])

(* fmLines.replace                                                          *)
Replaced(t, from, to, lines) == SubSeq(t, 1, from - 1) \o lines \o SubSeq(t, to + 1, Len(t))

-----------------------------------------------------------------------------
(* patchFrontmatter, case by case.                                          *)

Comparable(p, q) == IsPrefix(p, q) \/ IsPrefix(q, p)
Outcome(t, blocks) == [ok |-> TRUE, text |-> t, pruned |-> blocks]
Refused(t) == [ok |-> FALSE, text |-> t, pruned |-> {}]

(* Mutant: every block above goes with the entry, whatever else it holds.   *)
RemoveEntryAndAbove(t, keys, n) ==
  LET path == Paths(t, keys)
      above == {m \in keys : IsStrictPrefix(path[m], path[n])}
      top == CHOOSE m \in above \cup {n} : \A k \in above \cup {n} : m <= k
  IN  Outcome(Replaced(t, top, End(t, keys, top), <<>>), {path[m] : m \in above})

(* removeEntry: the entry, or the largest block that holds nothing else.    *)
RemoveEntry(t, keys, n) ==
  LET path == Paths(t, keys)
      above == {m \in keys : IsStrictPrefix(path[m], path[n])}
      emptied == {m \in above : \A k \in keys :
                     IsStrictPrefix(path[m], path[k]) => Comparable(path[k], path[n])}
      top == CHOOSE m \in emptied \cup {n} : \A k \in emptied \cup {n} : m <= k
  IN  IF HasForm(t, keys, top, "quote") \/ HasForm(t, keys, top, "alias") THEN Refused(t)
      ELSE Outcome(Replaced(t, top, End(t, keys, top), <<>>), {path[m] : m \in emptied})

(* Mutant: the new entry is written after the old one.                      *)
PatchLeafAfter(t, keys, n, e) ==
  LET end == End(t, keys, n)
  IN  IF e.value = Nothing THEN RemoveEntry(t, keys, n)
      ELSE Outcome(Replaced(t, end + 1, end, Rendered(t[n].ind, <<t[n].key>>, e.value, t[n].note)), {})

(* The entry itself is there.                                               *)
PatchLeaf(t, keys, n, e) ==
  LET end == End(t, keys, n)
  IN  IF HasForm(t, keys, n, "alias") THEN Refused(t)
      ELSE IF e.value = Nothing THEN RemoveEntry(t, keys, n)
      ELSE IF HasForm(t, keys, n, "quote") THEN Refused(t)
      ELSE Outcome(Replaced(t, n, end, Rendered(t[n].ind, <<t[n].key>>, e.value, t[n].note)), {})

(* It is not, nor is anything at the next key: after the last entry of its  *)
(* block.                                                                   *)
InsertInto(t, keys, siblings, keysBelow, e) ==
  LET last == Greatest(siblings)
  IN  IF e.value = Nothing THEN Outcome(t, {})
      ELSE IF HasForm(t, keys, last, "quote") THEN Refused(t)
      ELSE LET end == End(t, keys, last)
           IN  Outcome(Replaced(t, end + 1, end, Rendered(t[last].ind, keysBelow, e.value, "")), {})

(* setInNode: within {...}, on the paths below the key.                     *)
SetInFlow(flow, path, value) ==
  LET kept == {p \in DOMAIN flow : ~ IsPrefix(path, p)}
      blocks == {SubSeq(path, 1, i) : i \in 1..(Len(path) - 1)}
  IN  IF value = Nothing THEN [p \in kept |-> flow[p]]
      ELSE [p \in kept \cup blocks \cup {path} |->
              IF p = path THEN value ELSE IF p \in blocks THEN Map ELSE flow[p]]

PatchFlow(t, keys, n, below, e) ==
  LET blocks == {SubSeq(below, 1, i) : i \in 1..(Len(below) - 1)}
  IN  IF \E p \in blocks \cap DOMAIN t[n].flow : t[n].flow[p] \notin {Map, Nothing} THEN Refused(t)
      ELSE Outcome(Replaced(t, n, End(t, keys, n),
                            <<FlowLine(t[n].ind, t[n].key, SetInFlow(t[n].flow, below, e.value), t[n].note)>>), {})

PatchFrontmatter(t, e) ==
  LET keys == LiveKeys(t)
      path == Paths(t, keys)
      found == {n \in keys : IsPrefix(path[n], e.path)}
      n == GreatestOr0(found)
      below == SubSeq(e.path, IF n = 0 THEN 1 ELSE Len(path[n]) + 1, Len(e.path))
      siblings == Children(t, keys, n)
  IN  IF keys = {} THEN Refused(t)
      ELSE IF n # 0 /\ below = <<>> THEN PatchLeaf(t, keys, n, e)
      ELSE IF n = 0 \/ siblings # {} THEN InsertInto(t, keys, siblings, below, e)
      ELSE IF t[n].form = "nest" /\ ValueAt(t, keys, n) = Nothing THEN
        IF e.value = Nothing THEN Outcome(t, {})
        ELSE Outcome(Replaced(t, n, End(t, keys, n),
                              Rendered(t[n].ind, <<t[n].key>> \o below, e.value, t[n].note)), {})
      ELSE IF t[n].form = "flow" THEN PatchFlow(t, keys, n, below, e)
      ELSE Refused(t)

-----------------------------------------------------------------------------
(* SourceEdit.apply and pruneContainer, on the parsed document.             *)
Without(spec, path) == {f \in spec : ~ IsPrefix(path, f[1])}
Apply(spec, e) ==
  LET blocks == {<<SubSeq(e.path, 1, i), Map>> : i \in 1..(Len(e.path) - 1)}
  IN  IF e.value = Nothing THEN Without(spec, e.path)
      ELSE Without(spec, e.path) \cup blocks \cup {<<e.path, e.value>>}
Prune(spec, blocks) == {f \in spec : \A p \in blocks : ~ IsPrefix(p, f[1])}

Want(spec, es, ps) ==
  LET want[i \in 0..Len(es)] == IF i = 0 THEN spec ELSE Prune(Apply(want[i - 1], es[i]), ps[i])
  IN  want[Len(es)]

Init ==
  /\ source \in Documents
  /\ text = source
  /\ edits = <<>>
  /\ pruned = <<>>
  /\ status = IF Parses(source) THEN "editing" ELSE "source"

PatchOneEdit(e) ==
  /\ status = "editing"
  /\ Len(edits) < MaxPatchEdits
  /\ \E r \in {PatchFrontmatter(text, e)} :
       /\ text' = r.text
       /\ pruned' = Append(pruned, r.pruned)
       /\ status' = IF r.ok THEN "editing" ELSE "shape"
  /\ edits' = Append(edits, e)
  /\ UNCHANGED source

(* The verdict on the result, once, at the end.                             *)
Verdict ==
  IF ~ Parses(text) THEN "result"
  ELSE IF Canonical(Decode(text)) # Canonical(Want(Decode(source), edits, pruned)) THEN "selfcheck"
  ELSE IF ~ Comments(text) \subseteq Comments(source) THEN "selfcheck"
  ELSE "done"

Finish ==
  /\ status = "editing"
  /\ status' = Verdict
  /\ UNCHANGED <<source, text, edits, pruned>>

Next == Finish \/ \E e \in Edits : PatchOneEdit(e)

Spec == Init /\ [][Next]_vars

-----------------------------------------------------------------------------
Statuses == {"editing", "done", "source", "shape", "result", "selfcheck"}

(* The variables have their types.                                          *)
TypeOK ==
  /\ source \in Documents
  /\ IsText(text)
  /\ edits \in BoundedSeq(Edits, MaxPatchEdits)
  /\ Len(pruned) = Len(edits)
  /\ status \in Statuses

Judged == status = "editing"

(* A scalar that keeps the blank lines at its end.                          *)
KeepsBlanks == \E n \in DOMAIN source : source[n].form = "keep"

(* The text edits are the document edits: only a scalar that keeps its      *)
(* trailing blank lines makes the self-check refuse what was asked.         *)
SelfCheckOnlyForKeep == Judged => Verdict # "selfcheck" \/ KeepsBlanks

(* No value ends up as text that does not parse or as a comment, though     *)
(* every line of it may look like one.                                      *)
StaysWellFormed == Judged => WellFormed(text) /\ Comments(text) \subseteq Comments(source)

(* An edit of what is at a path replaces one span of lines, all of entries   *)
(* on that path; no entry beside it begins in the span or reaches into it.  *)
KeptBeside(t, u, p) ==
  LET keys == LiveKeys(t)
      path == Paths(t, keys)
      own == {n \in keys : Comparable(path[n], p)}
      moved == Len(u) - Len(t)
  IN  \E from \in 1..(Len(t) + 1) : \E to \in (from - 1)..Len(t) :
        /\ \A k \in 1..(from - 1) : k \in DOMAIN u /\ u[k] = t[k]
        /\ \A k \in (to + 1)..Len(t) : from <= k + moved /\ k + moved \in DOMAIN u /\ u[k + moved] = t[k]
        /\ \A k \in from..to : \E n \in own : n <= k /\ k <= End(t, keys, n)
        /\ \A n \in keys \ own : End(t, keys, n) < from \/ to < n

(* Every line outside the edited entry is kept, in its order.               *)
KeepsOtherLines ==
  [][edits' # edits /\ status' = "editing" => KeptBeside(text, text', Last(edits').path)]_vars

(* One edit after another, unless the first was refused.                    *)
PatchNext(r, e) == IF r.ok THEN PatchFrontmatter(r.text, e) ELSE r
PatchBoth(d, e) == PatchNext(PatchFrontmatter(text, d), e)

(* A retried edit changes nothing.                                          *)
SameAgain(once, e) ==
  once.ok /\ once.text # <<>> => \E twice \in {PatchNext(once, e)} : twice.ok /\ twice.text = once.text
RetryChangesNothing == Judged => \A e \in Edits : SameAgain(PatchFrontmatter(text, e), e)

(* Edits of different entries may come in either order.                     *)
SameDocument(r, s) == r.ok /\ s.ok => Canonical(Decode(r.text)) = Canonical(Decode(s.text))
OrderIsIrrelevant ==
  edits = <<>> /\ Judged /\ ~ KeepsBlanks =>
    \A d, e \in Edits : ~ Comparable(d.path, e.path) => SameDocument(PatchBoth(d, e), PatchBoth(e, d))
=============================================================================
