------------------------------ MODULE HubSteps ------------------------------
(***************************************************************************)
(* The calls internal/client offers on the objects of the hub, as the      *)
(* steps of an operation. An operation of the packages is the sequence of  *)
(* the calls that can change the hub or end it; what is written is kept    *)
(* as the set of the fields that a later operation looks for.              *)
(***************************************************************************)
EXTENDS Integers, Sequences, FiniteSets, TLC

\* skip: an error of the call is logged or dropped and the operation goes on;
\* an error of any other call is returned at once.
\* blind: any error of the Get is taken for NotFound.
\* unsure: any other error than NotFound is taken for an object that is there.
\* undo: what an attempt that fails here deletes again, without looking whether
\* it has made it itself.
\* hop: how many of the steps that follow are passed over, by a branch or when
\* the error of a call is dropped.
Step(do, obj, set, clear) ==
  [do |-> do, obj |-> obj, set |-> set, clear |-> clear,
   skip |-> FALSE, blind |-> FALSE, unsure |-> FALSE, undo |-> <<>>, hop |-> 0]

\* The steps of an operation. No branch leads beyond its end.
StepType ==
  [do : STRING, obj : STRING, set : SUBSET STRING, clear : SUBSET STRING, skip : BOOLEAN,
   blind : BOOLEAN, unsure : BOOLEAN, undo : Seq(STRING), hop : Nat]

IsOperation(steps) ==
  /\ steps \in Seq(StepType)
  /\ \A i \in DOMAIN steps : i + steps[i].hop <= Len(steps)

With(step, fields) == [step EXCEPT !.set = fields]
Try(step)   == [step EXCEPT !.skip = TRUE]
Blind(step) == [step EXCEPT !.blind = TRUE]
Unsure(step) == [step EXCEPT !.unsure = TRUE]
Blindly(steps) == <<Blind(steps[1])>> \o Tail(steps)
Unsurely(steps) == <<Unsure(steps[1])>> \o Tail(steps)
Undoing(step, objs) == [step EXCEPT !.undo = objs]

Look(obj)      == Step("get", obj, {}, {})     \* a Get whose error is returned
Refuse(obj)    == Step("refuse", obj, {}, {})  \* a Get that fails when it finds the object
QuitUnless(obj) == Step("quit", obj, {}, {})   \* a Get, and success at once when nothing is there
List(what)     == Step("list", what, {}, {})   \* a List, a wait or a command that may only fail

\* CreateIfNotExists: a Get, then a Create when it has found nothing; and a
\* Create for which AlreadyExists is success.
Ensure(obj) == Step("ensure", obj, {}, {})
Admit(obj)  == Step("admit", obj, {}, {})

\* DeleteIfExists: a Delete for which NotFound is success.
Purge(obj)  == Step("purge", obj, {}, {})
Create(obj) == Step("create", obj, {}, {})
Delete(obj) == Step("delete", obj, {}, {})

\* A Get, then a Create or an Update; the same with no resourceVersion in the
\* Update; the same with a second Get, so that what the first has read is written
\* over whatever the second finds; and a Create, then a Get and an Update when
\* the object is there.
Apply(obj)   == Step("apply", obj, {}, {})
Replace(obj) == Step("replace", obj, {}, {})
Merge(obj)   == Step("merge", obj, {}, {})
Upsert(obj)  == Step("upsert", obj, {}, {})

\* A Get and an Update of what it has read; a Patch of the fields alone.
Update(obj, set, clear) == Step("update", obj, set, clear)
Patch(obj, set, clear)  == Step("patch", obj, set, clear)

\* A Get, an error when there is nothing to change, and a Patch of the whole
\* list that was read; and a Get and an Update, or a Delete when nothing is left.
Amend(obj, set, clear) == Step("amend", obj, set, clear)
Prune(obj, clear)      == Step("prune", obj, {}, clear)

\* A Get, and a Patch of what is computed from it, whatever is there by then.
Rewrite(obj, set) == Step("rewrite", obj, set, {})

\* The field that is the caller's own: its entry in a list that all edit.
Mine == {"mine"}

-----------------------------------------------------------------------------

Branch(do, obj, hop) == [Step(do, obj, {}, {}) EXCEPT !.hop = hop]

\* A Get that passes over the steps when it finds the object, or when it does not.
Unless(obj, steps) == <<Branch("jump", obj, Len(steps))>> \o steps
When(obj, steps)   == <<Branch("when", obj, Len(steps))>> \o steps
IfThere(obj, yes, no) == When(obj, yes \o <<Branch("hop", obj, Len(no))>>) \o no

\* A Get, then an Update, or CreateIfNotExists after an error.
Settle(obj) == <<Blind(Branch("settle", obj, 1)), Ensure(obj)>>

\* The steps of a loop over names, which are one or several for each.
ForEach(names, F(_)) == [i \in DOMAIN names |-> F(names[i])]
Each(names, F(_)) == IF Len(names) = 1 THEN F(names[1]) ELSE F(names[1]) \o F(names[2])
TryEach(F(_), names) == ForEach(names, LAMBDA o : Try(F(o)))

\* A part of an operation whose error is only a warning.
Warned(steps) == [i \in DOMAIN steps |-> [Try(steps[i]) EXCEPT !.hop = Len(steps) - i]]

If(condition, steps) == IF condition THEN steps ELSE <<>>

\* What an object that is built refers to, as a function of one object.
Refers(obj, others) == obj :> others

-----------------------------------------------------------------------------

\* An operation and the one that undoes it: what the hub holds before, the
\* steps of both, the references of what is built, and what stays behind.
Pair(held, up, down, refs, kept) ==
  [held |-> held, up |-> up, down |-> down, refs |-> refs, kept |-> kept]

NoRefs == <<>>

=============================================================================
