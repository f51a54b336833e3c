------------------------------- MODULE Inputs -------------------------------
(***************************************************************************)
(* The inputs a document declares (exons.inputs.go): what a caller binds is *)
(* validated and merged with the declared defaults, values from outside are *)
(* sealed, and tags read the result, in several renders at once.            *)
(*                                                                         *)
(* Of a value its kind is kept; of a list or a map, which can be changed in *)
(* place, the owner of the copy at hand, so that a list read by one party   *)
(* and owned by another is one they share; and of a sealed value which seal *)
(* it is, because a seal counts its own placements.                         *)
(***************************************************************************)
EXTENDS Naturals, FiniteSets

CONSTANTS
  Names,      (* names of inputs                                            *)
  Renders,    (* renders in progress                                        *)
  Depth,      (* documents in a chain of extends                            *)
  Chains,     (* the chains of declarations considered                      *)
  Bags,       (* the bindings a caller may start from                       *)
  Flats,      (* what it may have under the names themselves                *)
  NoDef       (* a document says nothing of a name                          *)

Collections == {"emptylist", "list", "map"}

(* "absent"  the key is missing                                             *)
(* "odd"     a string that is not one of the declared options               *)
(* "sealed"  an UntrustedValue                                              *)
Kinds == {"absent", "nil", "blank", "text", "odd", "sealed"} \cup Collections

Parties == Renders \cup {"spec", "caller", "bound", "form"}

(* InputDef.  A declaration may be null: inputs: {name: ~}.                 *)
Def == [null : BOOLEAN, required : BOOLEAN, untrusted : BOOLEAN,
        closed : BOOLEAN, default : {"nil", "blank", "text"} \cup Collections]

Document == [Names -> Def \cup {NoDef}]
Binding == [Names -> Kinds]

ASSUME InputsAssumption ==
  /\ Depth \in Nat \ {0}
  /\ Chains \subseteq [1..Depth -> Document]
  /\ Bags \subseteq Binding /\ Flats \subseteq Binding
  /\ NoDef \notin Def
  /\ Renders \cap {"spec", "caller", "bound", "form", "none"} = {}

(* A seal: who made it, of which input, and under which of its two names.   *)
(* A render makes at most one of each.                                      *)
Seals == Parties \X Names \X {"input", "flat"}

Value == [kind : Kinds, owner : Parties \cup {"none"}, seal : Seals \cup {<<>>}]

VARIABLES
  chain,     (* the documents, the rendered one first, its parents after it *)
  root,      (* what the caller has under `input`: a "map", or a value of   *)
             (* the document's own ("other")                                *)
  above,     (* the caller's data is held by a parent of the given context  *)
  bag,       (* the map the caller binds                                    *)
  given,     (* what it held before BindInputs (history)                    *)
  flat,      (* the caller's data under the names themselves                *)
  accepted,  (* ValidateInputBinding found nothing wrong with the bag       *)
  form,      (* the defaults in the host's copy of the declarations         *)
  ctx,       (* the context of each render                                  *)
  changed    (* lists changed in place: the owner and who changed it        *)
             (* (history)                                                   *)

vars == <<chain, root, above, bag, given, flat, accepted, form, ctx, changed>>

Of(kind, party) ==
  [kind |-> kind, owner |-> IF kind \in Collections THEN party ELSE "none", seal |-> <<>>]
Absent == Of("absent", "none")
SealedAs(seal) == [kind |-> "sealed", owner |-> "none", seal |-> seal]

-----------------------------------------------------------------------------
(* Mutant: every value is handed on as it is.                               *)
Alias(v, party) == v

(* deepCopyValue: a list is copied; a sealed value is handed on as it is.   *)
Copy(v, party) == IF v.kind \in Collections THEN Of(v.kind, party) ELSE v

(* mergeWithAncestors: the nearer document has the last word, whatever it   *)
(* says of the name: a child that repeats a parent's input without          *)
(* untrusted, or with null, takes back what the parent declares.            *)
Nearest(declaring) == CHOOSE i \in declaring : \A j \in declaring : i <= j

Declaring(n) == {i \in 1..Depth : chain[i][n] # NoDef}
Declared == {n \in Names : Declaring(n) # {}}
DefOf(n) == chain[Nearest(Declaring(n))][n]

(* The names whose nearest declaration is not null, and those where it says *)
(* untrusted.                                                               *)
Named == {n \in Declared : ~ DefOf(n).null}
Untrusted == {n \in Named : DefOf(n).untrusted}

(* isUnboundInputValue                                                      *)
IsUnbound(v) == v.kind \in {"absent", "nil", "blank"}

(* satisfiesRequired: an emptied list does not answer a required input.     *)
Satisfies(kind) == kind \notin {"absent", "nil", "blank", "emptylist"}

(* BindInputs and mergeInputBinding: only what is unbound gets the default. *)
Defaulted(v, d, party) ==
  IF IsUnbound(v) THEN Copy(Of(d.default, "spec"), party) ELSE v

(* NewUntrustedValue: a sealed value is not sealed again.                   *)
Sealed(v, seal) == IF v.kind = "sealed" THEN v ELSE SealedAs(seal)

(* Mutant: the declarations of the parents are not looked at.               *)
MergedOwn(binding, party) ==
  [n \in Names |->
     LET v == Copy(binding[n], party)
         d == chain[1][n]
     IN  IF d = NoDef \/ n \notin Named THEN v
         ELSE IF d.untrusted THEN Sealed(Defaulted(v, d, party), <<party, n, "input">>)
         ELSE Defaulted(v, d, party)]

(* mergeInputBinding                                                        *)
Merged(binding, party) ==
  [n \in Names |->
     LET v == Copy(binding[n], party)
     IN  IF n \notin Named THEN v
         ELSE IF n \in Untrusted
              THEN Sealed(Defaulted(v, DefOf(n), party), <<party, n, "input">>)
         ELSE Defaulted(v, DefOf(n), party)]

-----------------------------------------------------------------------------
Nothing == [n \in Names |-> Absent]
Idle == [on |-> FALSE, input |-> Nothing, flat |-> Nothing, behind |-> Nothing]

(* What the caller has under each name; it may seal a value itself.         *)
Callers(kinds, where) ==
  [n \in Names |-> IF kinds[n] = "sealed" THEN SealedAs(<<"caller", n, where>>)
                                          ELSE Of(kinds[n], "caller")]

Init ==
  /\ chain \in Chains
  /\ root \in {"map", "other"}
  /\ above \in BOOLEAN
  /\ \E b \in Bags : bag = Callers(b, "input")
  /\ given = bag
  /\ \E f \in Flats : flat = Callers(f, "flat")
  /\ accepted = FALSE
  /\ form = Nothing
  /\ ctx = [r \in Renders |-> Idle]
  /\ changed = {}

-----------------------------------------------------------------------------
(* What the host does before, between and during renders.                   *)

(* Mutant: a bound value is replaced with the default as well.              *)
BindAll(n) == Of(chain[1][n].default, "bound")

(* Spec.BindInputs: the defaults of the document itself, not of its parents.*)
Bind(n) == Defaulted(Copy(bag[n], "bound"), chain[1][n], "bound")

BindInputs ==
  /\ root = "map"
  /\ bag' = [n \in Names |-> IF chain[1][n] # NoDef /\ ~ chain[1][n].null
                               THEN Bind(n) ELSE Copy(bag[n], "bound")]
  /\ UNCHANGED <<chain, root, above, given, flat, accepted, form, ctx, changed>>

(* validateInputValue: one of the options, when there are any.              *)
Allowed(d, kind) == d.closed => kind # "odd"

(* Mutant: what is bound answers, a list that was emptied included.         *)
ViolatesUnbound(n) ==
  LET d == DefOf(n)
  IN  IF IsUnbound(bag[n]) THEN d.required /\ d.default = "nil"
                           ELSE ~ Allowed(d, bag[n].kind)

(* ValidateInputBinding, over the declarations of the whole chain.          *)
Violates(n) ==
  LET d == DefOf(n)
  IN  IF Satisfies(bag[n].kind) THEN ~ Allowed(d, bag[n].kind)
                                ELSE d.required /\ d.default = "nil"

ValidateInputBinding ==
  /\ accepted' = \A n \in Named : ~ Violates(n)
  /\ UNCHANGED <<chain, root, above, bag, given, flat, form, ctx, changed>>

(* Mutant: the declaration itself is handed out, not a copy of its default. *)
DeclaredInputsLive ==
  /\ form' = [n \in Names |-> IF n \in Named THEN DefOf(n) ELSE Absent]
  /\ UNCHANGED <<chain, root, above, bag, given, flat, accepted, ctx, changed>>

(* DeclaredInputs, and a host that normalises a default in place.           *)
DeclaredInputs ==
  /\ form' = [n \in Names |-> IF n \in Named THEN Copy(Of(DefOf(n).default, "spec"), "form")
                                              ELSE Absent]
  /\ UNCHANGED <<chain, root, above, bag, given, flat, accepted, ctx, changed>>

Changes(v, party) ==
  /\ v.kind \in Collections
  /\ changed' = changed \cup {<<v.owner, party>>}

EditForm(n) ==
  /\ Changes(form[n], "form")
  /\ UNCHANGED <<chain, root, above, bag, given, flat, accepted, form, ctx>>

-----------------------------------------------------------------------------
(* One render.                                                              *)

(* Mutant: only what is under `input` is sealed.                            *)
FlatUnsealed(input, party) == flat

(* Mutant: the value under its own name gets a seal of its own.             *)
FlatSealedApart(input, party) ==
  [n \in Names |->
     IF n \notin Untrusted \/ flat[n].kind = "absent" THEN flat[n]
     ELSE Sealed(flat[n], <<party, n, "flat">>)]

(* sealFlatUntrusted: under its own name too, and with the same seal.       *)
FlatSealed(input, party) ==
  [n \in Names |->
     IF n \notin Untrusted \/ flat[n].kind = "absent" THEN flat[n]
     ELSE IF input[n].kind = "sealed" THEN input[n]
     ELSE Sealed(flat[n], <<party, n, "flat">>)]

(* contextWithInputs.  A document that declares nothing gets the context as *)
(* it is: with a parent's map in it, or with a copy of its own (WithEngine).*)
(* A value of the document's own under `input` leaves it alone.             *)
Injected(r) ==
  IF Declared = {} THEN
    [input |-> IF root = "other" THEN Nothing ELSE IF above THEN bag
               ELSE [n \in Names |-> Copy(bag[n], r)],
     flat |-> flat]
  ELSE IF root = "other" THEN [input |-> Nothing, flat |-> FlatSealed(Nothing, r)]
  ELSE [input |-> Merged(bag, r), flat |-> FlatSealed(Merged(bag, r), r)]

(* What stays readable in the parent of the context: injection seals copies *)
(* in the given context alone.                                              *)
Behind == IF above /\ root = "map" THEN bag ELSE Nothing

Start(r) ==
  /\ ~ ctx[r].on
  /\ ctx' = [ctx EXCEPT ![r] = [on |-> TRUE, input |-> Injected(r).input,
                                flat |-> Injected(r).flat, behind |-> Behind]]
  /\ UNCHANGED <<chain, root, above, bag, given, flat, accepted, form, changed>>

(* A resolver or function of the host changes the list it is handed:        *)
(* Context.Get returns the value itself.                                    *)
EditInput(r, n) ==
  /\ ctx[r].on
  /\ Changes(ctx[r].input[n], r)
  /\ UNCHANGED <<chain, root, above, bag, given, flat, accepted, form, ctx>>

(* VarResolver.Resolve, of `x` and of `input.x`.                            *)
VarAnswer(v) == IF v.kind \in {"absent", "sealed"} THEN "refused" ELSE v.kind

(* InputResolver.Resolve; an empty value is answered with the tag's default.*)
InputAnswer(v) ==
  CASE v.kind = "absent" -> "undeclared"
    [] v.kind = "sealed" -> "block"
    [] v.kind \in {"nil", "blank"} -> "fallback"
    [] OTHER -> v.kind

(* Conditions, loops and switches see the placeholder in place of a seal.   *)
ExprAnswer(v) == IF v.kind = "sealed" THEN "placeholder" ELSE v.kind

(* What the tags of a render can get to see of a name.                      *)
Answers(r, n) ==
  {InputAnswer(ctx[r].input[n]), VarAnswer(ctx[r].input[n]), VarAnswer(ctx[r].flat[n]),
   ExprAnswer(ctx[r].input[n]), ExprAnswer(ctx[r].flat[n])}

(* Context.getPath of a field (`x.f`): a value without fields, and a sealed *)
(* value is one, sends the whole path on to the parent of the context.      *)
Field(v, behind) == IF "map" \in {v.kind, behind.kind} THEN "field" ELSE "absent"

(* exons.var refuses a path of which any prefix is sealed (untrustedOnPath);*)
(* exons.input, loops and expressions only look the path up.                *)
VarField(v, behind) == IF v.kind = "sealed" THEN "refused" ELSE Field(v, behind)

FlatBehind(n) == IF above THEN flat[n] ELSE Absent

VarFields(r, n) ==
  {VarField(ctx[r].input[n], ctx[r].behind[n]), VarField(ctx[r].flat[n], FlatBehind(n))}

OtherFields(r, n) ==
  {Field(ctx[r].input[n], ctx[r].behind[n]), Field(ctx[r].flat[n], FlatBehind(n))}

Finish(r) ==
  /\ ctx[r].on
  /\ ctx' = [ctx EXCEPT ![r] = Idle]
  /\ UNCHANGED <<chain, root, above, bag, given, flat, accepted, form, changed>>

Next ==
  \/ BindInputs \/ ValidateInputBinding \/ DeclaredInputs
  \/ \E n \in Names : EditForm(n)
  \/ \E r \in Renders :
        \/ Start(r) \/ Finish(r)
        \/ \E n \in Names : EditInput(r, n)

Spec == Init /\ [][Next]_vars

-----------------------------------------------------------------------------
Context == [on : BOOLEAN, input : [Names -> Value], flat : [Names -> Value],
            behind : [Names -> Value]]

(* Every variable has its type.                                             *)
TypeOK ==
  /\ chain \in [1..Depth -> Document]
  /\ root \in {"map", "other"}
  /\ above \in BOOLEAN
  /\ bag \in [Names -> Value]
  /\ given \in [Names -> Value]
  /\ flat \in [Names -> Value]
  /\ accepted \in BOOLEAN
  /\ form \in [Names -> Value]
  /\ ctx \in [Renders -> Context]
  /\ changed \subseteq (Parties \cup {"none"}) \X Parties

(* Nobody changes what another reads: not a render the defaults of a        *)
(* registered document, the map of the caller or another render's inputs,   *)
(* nor a form builder the document it asked about.  The exception is a      *)
(* document without inputs, which reads a parent context's map as it is.    *)
NothingShared ==
  (above => Declared # {}) => \A c \in changed : c[1] = c[2]

(* A binding the validation accepted leaves no hole in a later render, even *)
(* after BindInputs and with inputs only a parent declares: what is         *)
(* required without a default is answered, and nothing is off its options.  *)
AcceptedIsAnswered ==
  \A r \in Renders : accepted /\ ctx[r].on /\ root = "map" =>
    \A n \in Named \ Untrusted :
      /\ DefOf(n).required /\ DefOf(n).default = "nil" => Satisfies(ctx[r].input[n].kind)
      /\ Satisfies(bag[n].kind) => Allowed(DefOf(n), ctx[r].input[n].kind)

(* What the nearest declaration of the chain says is untrusted is never     *)
(* answered as it was given, under `input` or under its own name, wherever  *)
(* it was bound.  Nor is a field of it: by exons.var never, by the other    *)
(* tags as long as the data is in the given context itself.  A parent of    *)
(* that context keeps the data unsealed, and a path into a seal gets there. *)
UntrustedNeverShown ==
  \A r \in Renders : ctx[r].on =>
    \A n \in Untrusted :
      /\ Answers(r, n) \cap ({"text", "odd"} \cup Collections) = {}
      /\ "field" \notin VarFields(r, n)
      /\ ~ above => "field" \notin OtherFields(r, n)

(* Present is declared: exons.input reports a name as undeclared exactly    *)
(* when nobody bound it and its nearest declaration is null or there is     *)
(* none, whoever else of the chain declares it and whether or not the host  *)
(* called BindInputs before.  So a parent's own input is there when its     *)
(* body is rendered in a child that says nothing of it, and is not when the *)
(* child says null.                                                         *)
DeclaredIsPresent ==
  \A r \in Renders : ctx[r].on /\ root = "map" =>
    \A n \in Names :
      "undeclared" \in Answers(r, n) <=> n \notin Named /\ given[n].kind = "absent"

(* A render has one seal for an untrusted input, and so one count of its    *)
(* placements, whichever of its two names it is read under and whoever      *)
(* sealed it.                                                               *)
OneSeal ==
  \A r \in Renders : ctx[r].on /\ root = "map" =>
    \A n \in Untrusted : flat[n].kind # "absent" =>
       /\ {ctx[r].flat[n].kind, ctx[r].input[n].kind} = {"sealed"}
       /\ ctx[r].flat[n].seal = ctx[r].input[n].seal

(* BindInputs and the render apply one rule: binding first, with the        *)
(* defaults of the document alone, changes no value that is rendered.       *)
BindingChangesNothing ==
  \A r \in Renders : ctx[r].on /\ root = "map" /\ Declared # {} =>
    \A n \in Names : ctx[r].input[n].kind = Merged(given, r)[n].kind
=============================================================================
