------------------------------- MODULE Hijack -------------------------------
(***************************************************************************)
(* How functions of Python modules are hooked                              *)
(* (src/python/msmemscope/hijacker/hijack_utility.py): units are           *)
(* registered for a function or for the import of a module and released;   *)
(* the first unit of a function puts a wrapper in its place, as soon as    *)
(* the module is there, and the last takes it away again.                  *)
(*                                                                         *)
(* There is one module.  Registering and releasing are one step each; an   *)
(* import and a call of the application go on meanwhile.                   *)
(***************************************************************************)
EXTENDS Integers, Sequences, FiniteSets, SequencesExt

CONSTANTS
  Functions,   \* functions of the module
  Module,      \* stands for the module itself, as a target
  Priorities,
  MaxUnits,    \* bound on the units ever registered
  MaxImports,  \* bound on imports and reloads
  MaxCalls     \* bound on the calls of the application

VARIABLES
  units,       \* _hijacker_units: what is registered, by number
  count,       \* units registered so far
  wrapperOf,   \* _hijacker_wrappers of the functions: the unit that made the wrapper
  hooks,       \* the lists of each wrapper, the module's included
  ori,         \* ori_obj of each wrapper
  module,      \* the module: how far its import is, whether sys.modules has it,
               \* and the wrapper the loader has taken
  attr,        \* what the names of the functions stand for
  told,        \* history: how often a unit of the module was run since its import began
  call,        \* a call of the application
  astray,      \* history: functions whose wrapper came or went during an import
  imports, calls

code == <<module, attr, imports>>
vars == <<units, count, wrapperOf, hooks, ori, code, told, call, astray, calls>>

Nothing == <<"nothing">>
Own(i) == <<"own", i>>          \* the function as import i has defined it
Wrapper(n) == <<"wrapper", n>>
Actions == {"replace", "pre", "post"}
NoHooks == [a \in Actions |-> <<>>]
NoCall == [on |-> Module, obj |-> Nothing, at |-> "idle", i |-> 0, ran |-> <<>>, should |-> <<>>, calm |-> TRUE]

-----------------------------------------------------------------------------
(* The lists *)

\* A wrapper of a function hangs in the list of the module with priority 0.
Closure(n) == [closure |-> TRUE, n |-> n, priority |-> 0]
Unit(n, priority) == [closure |-> FALSE, n |-> n, priority |-> priority]

\* Mutant: append and no sort.
Placed_Last(list, u) == Append(list, u)

\* append and sort by priority: behind all that are not later.
Placed(list, u) ==
  LET before == SelectSeq(list, LAMBDA v : v.priority <= u.priority)
      behind == SelectSeq(list, LAMBDA v : v.priority > u.priority)
  IN before \o <<u>> \o behind

Without(list, n) == SelectSeq(list, LAMBDA u : u.n # n)

IsEmpty(lists) == \A a \in Actions : lists[a] = <<>>

\* modify_module: the wrapper n takes the place of what f stands for.
Patched(n, f) ==
  IF attr[f] = Nothing THEN UNCHANGED <<ori, attr>>
  ELSE /\ ori' = [ori EXCEPT ![n] = attr[f]]
       /\ attr' = [attr EXCEPT ![f] = Wrapper(n)]

Importing == module.at \in {"found", "executing"}
Strayed(f) == astray' = IF Importing THEN astray \cup {f} ELSE astray
Disturbed == call' = [call EXCEPT !.calm = FALSE]

-----------------------------------------------------------------------------
(* Registering and releasing *)

Hijack(f, action, priority) ==
  LET id == count + 1
      n == IF wrapperOf[f] = 0 THEN id ELSE wrapperOf[f]
  IN /\ count < MaxUnits /\ count' = id
     /\ units' = units @@ (id :> [target |-> f, action |-> action, priority |-> priority])
     /\ IF wrapperOf[f] = 0
        THEN /\ wrapperOf' = [wrapperOf EXCEPT ![f] = id]
             /\ hooks' = [hooks EXCEPT ![id] = [NoHooks EXCEPT ![action] = <<Unit(id, priority)>>],
                                       ![0] = [@ EXCEPT !["post"] = Placed(@, Closure(id))]]
             /\ IF module.known THEN Patched(id, f) ELSE UNCHANGED <<ori, attr>>
             /\ Strayed(f)
        ELSE /\ hooks' = [hooks EXCEPT ![n] = [@ EXCEPT ![action] = Placed(@, Unit(id, priority))]]
             /\ UNCHANGED <<wrapperOf, ori, attr, astray>>
     /\ Disturbed /\ UNCHANGED <<module, imports, told, calls>>

\* A unit of the module itself: replacing it is refused, and one that is to run
\* after the import runs at once when the module is there.
HijackModule(action, priority) ==
  LET id == count + 1 IN
  /\ count < MaxUnits /\ count' = id
  /\ action # "replace"
  /\ units' = units @@ (id :> [target |-> Module, action |-> action, priority |-> priority])
  /\ hooks' = [hooks EXCEPT ![0] = [@ EXCEPT ![action] = Placed(@, Unit(id, priority))]]
  /\ told' = [told EXCEPT ![id] = IF action = "post" /\ module.known THEN 1 ELSE 0]
  /\ Strayed(id)
  /\ UNCHANGED <<wrapperOf, ori, code, call, calls>>

\* The loader keeps the wrapper it has taken; one made later is another.
Emptied(lists) == module' = [module EXCEPT !.taken = @ /\ ~IsEmpty(lists)]

\* deactivate: the name stands for what it stood for when it was patched.
Restored(n, f) ==
  /\ ori' = [ori EXCEPT ![n] = Nothing]
  /\ attr' = IF module.known /\ ori[n] # Nothing /\ attr[f] # Nothing THEN [attr EXCEPT ![f] = ori[n]] ELSE attr

Release(id) ==
  /\ id \in DOMAIN units
  /\ LET u == units[id]
         n == IF u.target = Module THEN 0 ELSE wrapperOf[u.target]
         left == [hooks[n] EXCEPT ![u.action] = Without(@, id)]
         freed == [hooks[0] EXCEPT !["post"] = Without(@, n)]
     IN /\ units' = [other \in DOMAIN units \ {id} |-> units[other]]
        /\ IF u.target = Module
           THEN /\ hooks' = [hooks EXCEPT ![0] = left] /\ Emptied(left)
                /\ UNCHANGED <<wrapperOf, ori, attr, astray, call>>
           ELSE /\ Disturbed
                /\ IF IsEmpty(left)
                   THEN /\ wrapperOf' = [wrapperOf EXCEPT ![u.target] = 0]
                        /\ hooks' = [hooks EXCEPT ![n] = left, ![0] = freed]
                        /\ Emptied(freed) /\ Restored(n, u.target) /\ Strayed(u.target)
                   ELSE /\ hooks' = [hooks EXCEPT ![n] = left]
                        /\ UNCHANGED <<wrapperOf, module, ori, attr, astray>>
  /\ UNCHANGED <<count, imports, told, calls>>

-----------------------------------------------------------------------------
(* The import of the module *)

\* _modules_of_interest has the module while it has a wrapper.
OfInterest == ~IsEmpty(hooks[0])

\* find_spec, of an import or of a reload.
Find ==
  /\ module.at \in {"absent", "loaded"} /\ imports < MaxImports /\ imports' = imports + 1
  /\ module' = [module EXCEPT !.at = "found", !.ours = OfInterest]
  /\ told' = [id \in DOMAIN told |-> 0] /\ astray' = {}
  /\ UNCHANGED <<units, count, wrapperOf, hooks, ori, attr, call, calls>>

RunOnce(list) == told' = [id \in DOMAIN told |-> IF \E i \in DOMAIN list : list[i] = Unit(id, list[i].priority) THEN told[id] + 1 ELSE told[id]]

\* exec_module takes the wrapper there is now and runs its pre-hooks.
Begin ==
  /\ module.at = "found"
  /\ module' = [module EXCEPT !.at = "executing", !.known = TRUE, !.taken = module.ours /\ OfInterest]
  /\ IF module'.taken THEN RunOnce(hooks[0]["pre"]) ELSE UNCHANGED told
  /\ UNCHANGED <<units, count, wrapperOf, hooks, ori, attr, imports, call, astray, calls>>

\* The body of the module defines a function.
Define(f) ==
  /\ module.at = "executing" /\ f \notin module.defined
  /\ module' = [module EXCEPT !.defined = @ \cup {f}]
  /\ attr' = [attr EXCEPT ![f] = Own(imports)]
  /\ UNCHANGED <<units, count, wrapperOf, hooks, ori, imports, told, call, astray, calls>>

Closures == {f \in Functions : wrapperOf[f] # 0}

\* The body has ended, and the post-hooks of the wrapper that was taken run: they
\* put the wrappers of the functions in place.
End ==
  /\ module.at = "executing" /\ module.defined = Functions
  /\ module' = [module EXCEPT !.at = "loaded", !.taken = FALSE, !.defined = {}]
  /\ IF module.taken
     THEN /\ ori' = [n \in DOMAIN ori |-> IF \E f \in Closures : wrapperOf[f] = n
                                          THEN attr[CHOOSE f \in Closures : wrapperOf[f] = n] ELSE ori[n]]
          /\ attr' = [f \in Functions |-> IF f \in Closures THEN Wrapper(wrapperOf[f]) ELSE attr[f]]
          /\ RunOnce(hooks[0]["post"])
     ELSE UNCHANGED <<ori, attr, told>>
  /\ UNCHANGED <<units, count, wrapperOf, hooks, imports, call, astray, calls>>

\* The body of a first import fails.
Fail ==
  /\ module.at = "executing" /\ imports = 1
  /\ module' = [module EXCEPT !.at = "absent", !.known = FALSE, !.taken = FALSE, !.defined = {}]
  /\ attr' = [f \in Functions |-> Nothing]
  /\ UNCHANGED <<units, count, wrapperOf, hooks, ori, imports, told, call, astray, calls>>

-----------------------------------------------------------------------------
(* A call of a function through its name *)

\* What is registered for f and an action, in the order it should run.
Registered(f, action) ==
  LET ids == {id \in DOMAIN units : units[id].target = f /\ units[id].action = action}
  IN SetToSortSeq(ids, LAMBDA a, b : \/ units[a].priority < units[b].priority
                                     \/ units[a].priority = units[b].priority /\ a < b)

\* The runs a call should consist of: numbers of units, and 0 for the function.
Should(f) ==
  LET core == Registered(f, "replace")
  IN Registered(f, "pre") \o <<IF core = <<>> THEN 0 ELSE core[1]>> \o Registered(f, "post")

Call(f) ==
  /\ call.at \in {"idle", "done", "raised"} /\ attr[f] # Nothing
  /\ calls < MaxCalls /\ calls' = calls + 1
  /\ call' = [on |-> f, obj |-> attr[f], i |-> 1, should |-> Should(f),
              calm |-> module.at = "loaded" /\ f \notin astray,
              at |-> IF attr[f][1] = "own" THEN "done"
                     ELSE IF ori[attr[f][2]] = Nothing THEN "raised" ELSE "pre",
              ran |-> IF attr[f][1] = "own" THEN <<0>> ELSE <<>>]
  /\ UNCHANGED <<units, count, wrapperOf, hooks, ori, code, told, astray>>

\* The loop over a list goes on while the list is changed.
RunHooks(phase, next) ==
  /\ call.at = phase
  /\ LET list == hooks[call.obj[2]][phase] IN
     call' = IF call.i > Len(list) THEN [call EXCEPT !.at = next, !.i = 1]
             ELSE [call EXCEPT !.ran = Append(@, list[call.i].n), !.i = @ + 1]
  /\ UNCHANGED <<units, count, wrapperOf, hooks, ori, code, told, astray, calls>>

\* The best replacement, or the original; none when the wrapper was retired
\* meanwhile; and a wrapper that is its own original calls itself for ever.
RunFunction ==
  /\ call.at = "body"
  /\ LET n == call.obj[2]
         core == hooks[n]["replace"]
     IN call' = IF core # <<>> THEN [call EXCEPT !.at = "post", !.ran = Append(@, core[1].n)]
                ELSE IF ori[n][1] = "own" THEN [call EXCEPT !.at = "post", !.ran = Append(@, 0)]
                ELSE [call EXCEPT !.at = "raised"]
  /\ UNCHANGED <<units, count, wrapperOf, hooks, ori, code, told, astray, calls>>

-----------------------------------------------------------------------------
Init ==
  /\ units = <<>> /\ count = 0
  /\ wrapperOf = [f \in Functions |-> 0]
  /\ hooks = [n \in 0..MaxUnits |-> NoHooks]
  /\ ori = [n \in 1..MaxUnits |-> Nothing]
  /\ module = [at |-> "absent", known |-> FALSE, ours |-> FALSE, taken |-> FALSE, defined |-> {}]
  /\ attr = [f \in Functions |-> Nothing]
  /\ told = [id \in 1..MaxUnits |-> 0]
  /\ call = NoCall /\ astray = {} /\ imports = 0 /\ calls = 0

Next ==
  \/ \E f \in Functions, action \in Actions, p \in Priorities : Hijack(f, action, p)
  \/ \E action \in Actions, p \in Priorities : HijackModule(action, p)
  \/ \E id \in DOMAIN units : Release(id)
  \/ Find \/ Begin \/ End \/ Fail
  \/ \E f \in Functions : Define(f) \/ Call(f)
  \/ RunHooks("pre", "body") \/ RunFunction \/ RunHooks("post", "done")

-----------------------------------------------------------------------------
(* Properties *)

\* A call during which nothing is registered or released runs the hooks of its
\* function in the order of their priorities and, between them, the function or
\* its best replacement, once, whatever was imported and hooked before; unless
\* its first hook came or its last one went during an import
\* (_get_wrapper, hijack_utility.py:275).
CallsRight == call.at \in {"done", "raised"} /\ call.calm => call.ran = call.should

\* When everything is released, functions are those of the module's last import
\* (deactivate, hijack_utility.py:253).
FunctionsRestored ==
  module.at = "loaded" => \A f \in Functions \ astray : wrapperOf[f] = 0 => attr[f] = Own(imports)

\* A unit that waits for the import is run once for each import, and at once when
\* it came too late for it; unless it came during it (add_unit, hijack_utility.py:210).
ToldOnce ==
  \A id \in DOMAIN units \ astray :
    /\ told[id] <= 1
    /\ units[id].target = Module /\ units[id].action = "post" /\ module.at = "loaded" => told[id] = 1

HijackSound == CallsRight /\ FunctionsRestored /\ ToldOnce

\* A call of the application is never broken by a release that meets it; false, as
\* a wrapper forgets its original (hijack_utility.py:273).
CallsSurvive == call.at # "raised"
=============================================================================
