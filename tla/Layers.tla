------------------------------- MODULE Layers -------------------------------
(***************************************************************************)
(* Execution configurations in use: the layers of an agent are merged and  *)
(* copied in any order, their owners change them in place, requests are    *)
(* made from them for the providers, and clients change what they were     *)
(* given.                                                                  *)
(*                                                                         *)
(* A configuration is a Go struct of pointers, lists and maps.  Where each *)
(* of its fields is kept is a cell, <<the configuration that made it, the  *)
(* field>>; what no copy reaches is kept in a cell of the layer it is      *)
(* from, <<the layer, the field, the part of it>>.  A write in place       *)
(* changes a cell for everyone who holds it.                               *)
(***************************************************************************)
EXTENDS Config

CONSTANTS
  Stacks,        (* sequences of layers, the least specific first             *)
  MaxMade,       (* bound: configurations merged or copied                    *)
  MaxWrites      (* bound: writes in place                                    *)

\* A map from names to values; so is what the options of a configuration are.
IsMap(m) == m = [key \in DOMAIN m |-> m[key]]
IsConfig(set) == IsMap(set) /\ (Has(set, "options") => IsMap(set.options))

ASSUME LayersAssumption ==
  /\ \A stack \in Stacks :
       /\ stack \in Seq(Range(stack)) \ {<<>>}
       /\ \A n \in DOMAIN stack : IsConfig(stack[n])
  /\ MaxMade \in Nat
  /\ MaxWrites \in Nat

VARIABLES
  configs,       (* what each configuration sets, where, and the layers it is of *)
  written,       (* the configurations changed in place, themselves or through   *)
                 (* a request made from them                                     *)
  touched        (* the cells that were written                                  *)

vars == <<configs, written, touched>>

\* The layers, and not what is made of them.
Layer == {k \in DOMAIN configs : configs[k].from = <<k>>}

\* Where a configuration that is copied or merged keeps its fields: nowhere an older one does.
CopiedCells(new, a) == [f \in DOMAIN a.set |-> <<new, f>>]

\* Variant: what only the more specific configuration sets is taken over as it stands.
MergedCellsOver(new, a, b) ==
  [f \in DOMAIN Merge(a.set, b.set) |-> IF Has(a.set, f) THEN <<new, f>> ELSE b.cell[f]]

MergedCells(new, a, b) == [f \in DOMAIN Merge(a.set, b.set) |-> <<new, f>>]

\* What no copy reaches is taken over as it stands, from the more specific one where both have it.
MergedHeld(a, b) ==
  [part \in HeldIn(Merge(a.set, b.set)) |->
     IF part \in DOMAIN b.held THEN b.held[part] ELSE a.held[part]]

NewLayer(k, set) ==
  [set |-> set, from |-> <<k>>, cell |-> [f \in DOMAIN set |-> <<k, f>>],
   held |-> [part \in HeldIn(set) |-> <<k, part[1], part[2]>>]]

Cells(config) == Range(config.cell)
HeldCells(config) == Range(config.held)

-----------------------------------------------------------------------------
Init ==
  /\ \E stack \in Stacks : configs = [k \in DOMAIN stack |-> NewLayer(k, stack[k])]
  /\ written = {}
  /\ touched = {}

Made == Cardinality(DOMAIN configs \ Layer)

Make(config) ==
  /\ Made < MaxMade
  /\ configs' = Append(configs, config)
  /\ UNCHANGED <<written, touched>>

MergeTwo(a, b) ==
  Make([set |-> Merge(a.set, b.set), from |-> a.from \o b.from,
        cell |-> MergedCells(Len(configs) + 1, a, b), held |-> MergedHeld(a, b)])

Clone(a) == Make([a EXCEPT !.cell = CopiedCells(Len(configs) + 1, a)])

Write(k, cells) ==
  /\ Cardinality(touched) < MaxWrites
  /\ \E cell \in cells : touched' = touched \cup {cell}
  /\ written' = written \cup {k}
  /\ UNCHANGED configs

\* The owner of a configuration changes what one of its fields, an option or a schema holds.
WriteField(k) == Write(k, Cells(configs[k]) \cup HeldCells(configs[k]))

\* A client asks for a request and changes what it was given.
WriteRequest(k, provider) ==
  /\ ~Panics(provider, configs[k].set)
  /\ Write(k, {configs[k].cell[f] : f \in Lent(provider, configs[k].set)}
                \cup {configs[k].held[part] : part \in HeldSent(provider, configs[k].set)})

Next ==
  \/ \E a, b \in Range(configs) : MergeTwo(a, b)
  \/ \E a \in Range(configs) : Clone(a)
  \/ \E k \in DOMAIN configs : WriteField(k)
  \/ \E k \in DOMAIN configs, provider \in Providers : WriteRequest(k, provider)

Spec == Init /\ [][Next]_vars

-----------------------------------------------------------------------------
(* Configurations are appended and what they set never changes, so the properties of what they set
   are stated of the one made last. *)

\* The layers a configuration is of, the least specific first.
Sets(config) == [n \in DOMAIN config.from |-> configs[config.from[n]].set]

\* What the last of the layers to set it says.
LastOf(layers, Gives(_), Value(_)) ==
  Value(layers[CHOOSE n \in DOMAIN layers :
                 Gives(layers[n]) /\ \A later \in n + 1 .. Len(layers) : ~Gives(layers[later])])

Layered(layers) ==
  [f \in UNION {DOMAIN layers[n] : n \in DOMAIN layers} |->
     IF f = "options"
       THEN [o \in UNION {OptionsOf(layers[n]) : n \in DOMAIN layers} |->
               LastOf(layers, LAMBDA set : o \in OptionsOf(set), LAMBDA set : set.options[o])]
       ELSE LastOf(layers, LAMBDA set : Has(set, f), LAMBDA set : set[f])]

(* A merge of any shape, of merges and copies, sets for each field what the last of its layers to
   set it sets, and for each option what the last of its layers to give it gives; and it is valid
   when its layers are.  Config.Merge is promised to let the rightmost value win, and a Spec's
   execution is validated when it is parsed, before it is merged.
   (execution/exons.config.merge.go:3-12, execution/exons.config.validate.go:3) *)
MergeIsLayered ==
  LET layers == Sets(Last(configs)) IN
  /\ Last(configs).set = Layered(layers)
  /\ (\A n \in DOMAIN layers : Validate(layers[n])) => Validate(Last(configs).set)

(* Nothing is sent that is half of one layer and half of another: whatever stands under a key of
   a request, one field of one layer asks for by itself.  And what the most specific layer asks
   for is sent, but for a key that another field is sent under as well (an option of an earlier
   layer, the number of images and the number of answers, the format of an audio file and that
   of the answer), and for Gemini when an option stands in for the whole generation config.
   (execution/exons.config.provider.go:101-597) *)
SentIsLayered ==
  \A provider \in {p \in Providers : ~Panics(p, Last(configs).set)} :
    LET layers == Sets(Last(configs))
        request == ToProvider(provider, Last(configs).set)
        last == ToProvider(provider, layers[Len(layers)])
        Asked(set) == LET alone == ToProvider(provider, set) IN {<<key, alone[key]>> : key \in DOMAIN alone}
        ofOneField == UNION {UNION {Asked([g \in {f} |-> layer[f]]) : f \in DOMAIN layer} : layer \in Range(layers)}
    IN  /\ \A key \in DOMAIN request : <<key, request[key]>> \in ofOneField
        /\ \A key \in DOMAIN last :
             \/ key \in DOMAIN request /\ (request[key] = last[key] \/ request[key][1] # last[key][1])
             \/ provider = "gemini" /\ Replaced(Last(configs).set)

(* A configuration is nobody else's: whatever the owners of others write in place, and whatever
   clients do with requests made from others, none of its fields changes.  What no copy reaches is
   shared, although Clone is promised to be a deep copy: what the value of an option holds, and
   the typed lists and maps of a schema ("required" as a list of strings).  That is changed for
   relatives only, the configurations with a layer in common with the one that was written.
   (execution/exons.config.clone.go:3-135, execution/exons.config.merge.go:5,
   execution/exons.config.types.go:696-759) *)
LayersStayTheirOwn ==
  \A k \in DOMAIN configs \ written :
    /\ Cells(configs[k]) \cap touched = {}
    /\ HeldCells(configs[k]) \cap touched # {} =>
         \E w \in written : Range(configs[w].from) \cap Range(configs[k].from) # {}

=============================================================================
