------------------------------- MODULE Plugin -------------------------------
(***************************************************************************)
(* The plugin's life (plugin_main.cpp), its callback registries and its      *)
(* handler of decompiler events (micro_hooks.cpp): what happens between      *)
(* loading it, toggling it and the events of one decompilation, one of which *)
(* gen_microcode_ex may have started to catch the microcode at a maturity.   *)
(* The decompiler is external: it raises hxe_prolog, hxe_preoptimized,       *)
(* hxe_locopt, hxe_combine, hxe_glbopt and hxe_maturity in that order,       *)
(* repeats hxe_glbopt on MERR_LOOP and gives up on MERR_CANCELED.            *)
(***************************************************************************)
EXTENDS Naturals, Sequences, SequencesExt

CONSTANTS
  Funcs,      \* functions to decompile
  NInsns,     \* instructions of a function
  MaxLeft     \* bound: modifications the callbacks make to one function

ASSUME NInsnsAssumption == NInsns \in Nat \ {0}
ASSUME MaxLeftAssumption == MaxLeft \in Nat

Archs == {"x86", "ARM"}
Mats == {"preopt", "locopt", "glbopt"}
Insns == 1..NInsns
NoMba == [fn |-> "none", mat |-> "none"]

VARIABLES
  loaded,     \* "no" before init, "kept", "skipped" after PLUGIN_SKIP
  arch,       \* g_currarch
  hooked,     \* hexcb and g_filter_api are installed in the decompiler
  installed,  \* g_installed
  cbs,        \* cbs[r]: the callbacks of registry r, in calling order
  stage,      \* where the decompiler is in the current function
  fn,         \* the current function
  ran,        \* g_microgen_state_flags: the maturities set
  reqmat,     \* g_reqmat
  output,     \* g_reqmat_output_mba: the function and maturity duplicated
  result,     \* what gen_microcode_ex last returned
  pos,        \* position of the handler's loop
  modified,   \* did_modify of dispatch_glbopt
  todo,       \* what would change the microcode if it were asked now
  left        \* modifications still possible

lifeVars == <<loaded, arch, hooked, installed, cbs>>
askVars == <<reqmat, output, result>>
mbaVars == <<todo, left>>
handlerVars == <<pos, modified>>
vars == <<lifeVars, stage, fn, ran, askVars, handlerVars, mbaVars>>

Registries == {"glbopt", "combine", "preopt", "rewriter", "filter", "ctree"}

\* One callback stands for each array a toggle walks.
Toggled(a) ==
  [r \in Registries |->
     CASE r = "combine" -> IF a = "x86" THEN <<"common", "arch">> ELSE <<"common">>
       [] r = "preopt" -> <<"prepostprocess_run">>
       [] r = "rewriter" -> IF a = "x86" THEN <<"thunks">> ELSE <<"nullsubs">>
       [] r = "filter" -> IF a = "x86" THEN <<"bmi1">> ELSE <<>>
       [] r = "ctree" -> <<"late_if_inversion">>
       [] r = "glbopt" -> <<>>]

\* filter and ctree are std::sets, the others lists; remove takes every copy.
Install(r, list, cb) ==
  IF r \in {"filter", "ctree"} /\ Contains(list, cb) THEN list ELSE Append(list, cb)
Removed(list, cb) ==
  LET kept[n \in 0..Len(list)] ==
        IF n = 0 THEN <<>>
        ELSE IF list[n] = cb THEN kept[n - 1] ELSE Append(kept[n - 1], list[n])
  IN kept[Len(list)]

\* Seeded fault: the rewriters are installed whichever way the plugin is toggled.
ChangedInstalls(r, list, cb, on) ==
  IF on \/ r = "rewriter" THEN Install(r, list, cb) ELSE Removed(list, cb)

Changed(r, list, cb, on) == IF on THEN Install(r, list, cb) ELSE Removed(list, cb)

\* Each registry after a walk over its array.
Toggle(a, on) ==
  [r \in Registries |->
     LET done[n \in 0..Len(Toggled(a)[r])] ==
           IF n = 0 THEN cbs[r] ELSE Changed(r, done[n - 1], Toggled(a)[r][n], on)
     IN done[Len(Toggled(a)[r])]]

\* What may be waiting: a preopt callback with work (on the function, 0), a rule
\* with an instruction it applies to.
Work == {<<"prepostprocess_run", 0>>} \cup ({"common", "arch"} \X Insns)

\* A callback did something: anything may be waiting now, unless the bound on
\* modifications is reached.
Changes ==
  /\ left > 0
  /\ left' = left - 1
  /\ todo' \in IF left = 1 THEN {{}} ELSE SUBSET Work

-----------------------------------------------------------------------------
Init ==
  /\ loaded = "no" /\ arch \in Archs /\ hooked = FALSE /\ installed = FALSE
  /\ cbs = [r \in Registries |-> <<>>]
  /\ stage = "idle" /\ fn = "none" /\ ran = {}
  /\ reqmat = "none" /\ output = NoMba /\ result = NoMba
  /\ pos = 0 /\ modified = FALSE
  /\ todo = {} /\ left = 0

Idle == stage = "idle"

\* init(): an unknown processor or a missing decompiler is skipped before
\* anything is hooked, a wrong version after.
InitSkip ==
  /\ loaded = "no"
  /\ loaded' = "skipped"
  /\ UNCHANGED <<arch, hooked, installed, cbs, stage, fn, ran, askVars, handlerVars, mbaVars>>

InitHook(supported) ==
  /\ loaded = "no"
  /\ hooked' = TRUE
  /\ loaded' = IF supported THEN "kept" ELSE "skipped"
  /\ cbs' = IF supported THEN [cbs EXCEPT !["glbopt"] = Append(@, "dump_microcode_")] ELSE cbs
  /\ UNCHANGED <<arch, installed, stage, fn, ran, askVars, handlerVars, mbaVars>>

\* run(): Ctrl+2
Run ==
  /\ loaded = "kept" /\ Idle
  /\ installed' = ~installed
  /\ cbs' = Toggle(arch, ~installed)
  /\ UNCHANGED <<loaded, arch, hooked, stage, fn, ran, askVars, handlerVars, mbaVars>>

\* term(), after which the loader frees the module and its statics with it.
Term ==
  /\ loaded = "kept" /\ Idle
  /\ loaded' = "no" /\ hooked' = FALSE /\ installed' = FALSE
  /\ cbs' = [r \in Registries |-> <<>>]
  /\ result' = NoMba
  /\ UNCHANGED <<arch, stage, fn, ran, reqmat, output, handlerVars, mbaVars>>

-----------------------------------------------------------------------------
(* One decompilation.                                                        *)

Start(f) ==
  /\ loaded = "kept" /\ Idle
  /\ fn' = f
  /\ stage' = "started"
  /\ left' = MaxLeft
  /\ UNCHANGED <<lifeVars, ran, handlerVars, todo>>

\* The user decompiles f.
Decompile(f) == Start(f) /\ UNCHANGED askVars

\* Seeded fault: the arguments change places.
GenMicrocodeExSwapped(f, mat) ==
  /\ Start(f)
  /\ output' = NoMba /\ reqmat' = f
  /\ UNCHANGED result

\* gen_microcode_ex(ea, mat), up to its call of decompile().
GenMicrocodeEx(f, mat) ==
  /\ Start(f)
  /\ output' = NoMba
  /\ reqmat' = mat
  /\ UNCHANGED result

Prolog ==
  /\ stage = "started"
  /\ stage' = "generated"
  /\ ran' = {}
  /\ todo' \in SUBSET Work
  /\ UNCHANGED <<lifeVars, fn, askVars, handlerVars, left>>

Preoptimized ==
  /\ stage = "generated"
  /\ stage' = "in preopt"
  /\ ran' = ran \cup {"preopt"}
  /\ pos' = 1
  /\ UNCHANGED <<lifeVars, fn, askVars, modified, mbaVars>>

\* Seeded fault: a callback that changed something is not asked again.
AskPreoptOnce ==
  /\ stage = "in preopt" /\ pos <= Len(cbs["preopt"])
  /\ pos' = pos + 1
  /\ IF <<cbs["preopt"][pos], 0>> \in todo THEN Changes ELSE UNCHANGED mbaVars
  /\ UNCHANGED <<lifeVars, stage, fn, ran, askVars, modified>>

\* goto rerun: a callback that changed something starts the list over.
AskPreopt ==
  /\ stage = "in preopt" /\ pos <= Len(cbs["preopt"])
  /\ IF <<cbs["preopt"][pos], 0>> \in todo
     THEN Changes /\ pos' = 1
     ELSE pos' = pos + 1 /\ UNCHANGED mbaVars
  /\ UNCHANGED <<lifeVars, stage, fn, ran, askVars, modified>>

\* test_at_reqmat: duplicate the microcode and cancel if it is what was asked.
Answer(mat, next) ==
  IF reqmat = mat
  THEN output' = [fn |-> fn, mat |-> mat] /\ stage' = "cancelled" /\ UNCHANGED <<reqmat, result>>
  ELSE stage' = next /\ UNCHANGED askVars

PreoptReturn ==
  /\ stage = "in preopt" /\ pos > Len(cbs["preopt"])
  /\ Answer("preopt", "preoptimized")
  /\ UNCHANGED <<lifeVars, fn, ran, handlerVars, mbaVars>>

\* No callback is ever put into g_locopt_cbs.
Locopt ==
  /\ stage = "preoptimized"
  /\ ran' = ran \cup {"locopt"}
  /\ Answer("locopt", "locopted")
  /\ UNCHANGED <<lifeVars, fn, handlerVars, mbaVars>>

\* dispatch_combinsn(i): the first rule of the list that applies.
Fires(i) == \E r \in Range(cbs["combine"]) : <<r, i>> \in todo

\* hxe_combine, between the maturities.
Combine(i) ==
  /\ stage \in {"preoptimized", "locopted"}
  /\ Fires(i) /\ Changes
  /\ UNCHANGED <<lifeVars, stage, fn, ran, askVars, handlerVars>>

Glbopt ==
  /\ stage = "locopted"
  /\ stage' = "in glbopt"
  /\ ran' = ran \cup {"glbopt"}
  /\ pos' = 1
  /\ modified' = FALSE
  /\ UNCHANGED <<lifeVars, fn, askVars, mbaVars>>

\* dump_microcode_ answers FALSE, so the rules are asked of each instruction
\* in turn; one that fires does not start the walk over.
AskCombine ==
  /\ stage = "in glbopt" /\ pos \in Insns
  /\ pos' = pos + 1
  /\ IF Fires(pos)
     THEN Changes /\ modified' = TRUE
     ELSE UNCHANGED <<modified, mbaVars>>
  /\ UNCHANGED <<lifeVars, stage, fn, ran, askVars>>

\* MERR_LOOP makes the decompiler raise hxe_glbopt again.
GlboptReturn ==
  /\ stage = "in glbopt" /\ pos > NInsns
  /\ IF modified
     THEN stage' = "locopted" /\ UNCHANGED askVars
     ELSE Answer("glbopt", "structuring")
  /\ UNCHANGED <<lifeVars, fn, ran, handlerVars, mbaVars>>

\* Seeded fault: the request is withdrawn only if it was answered.
ReturnAnswered ==
  /\ stage \notin {"idle", "in preopt", "in glbopt"}
  /\ stage' = "idle" /\ fn' = "none"
  /\ todo' = {} /\ left' = 0 /\ pos' = 0 /\ modified' = FALSE
  /\ IF output # NoMba
     THEN result' = output /\ output' = NoMba /\ reqmat' = "none"
     ELSE UNCHANGED askVars
  /\ UNCHANGED <<lifeVars, ran>>

\* decompile() comes back: to gen_microcode_ex, which takes what was caught
\* and withdraws the request, or to the user.  The decompiler may fail at any
\* point outside a handler, or know the function already.
Return ==
  /\ stage \notin {"idle", "in preopt", "in glbopt"}
  /\ stage' = "idle" /\ fn' = "none"
  /\ todo' = {} /\ left' = 0 /\ pos' = 0 /\ modified' = FALSE
  /\ result' = IF reqmat # "none" THEN output ELSE result
  /\ IF reqmat # "none" THEN output' = NoMba /\ reqmat' = "none"
     ELSE UNCHANGED <<output, reqmat>>
  /\ UNCHANGED <<lifeVars, ran>>

Event ==
  \/ Prolog \/ Preoptimized \/ AskPreopt \/ PreoptReturn \/ Locopt
  \/ Glbopt \/ AskCombine \/ GlboptReturn \/ Return

Next ==
  \/ InitSkip \/ (\E supported \in BOOLEAN : InitHook(supported)) \/ Run \/ Term
  \/ \E f \in Funcs : Decompile(f) \/ \E mat \in Mats : GenMicrocodeEx(f, mat)
  \/ \E i \in Insns : Combine(i)
  \/ Event

\* The decompiler goes on with what it started; nobody has to start anything.
Spec == Init /\ [][Next]_vars /\ WF_vars(Event)

-----------------------------------------------------------------------------
TypeOK ==
  /\ loaded \in {"no", "kept", "skipped"} /\ arch \in Archs
  /\ hooked \in BOOLEAN /\ installed \in BOOLEAN
  /\ DOMAIN cbs = Registries
  /\ stage \in {"idle", "started", "generated", "in preopt", "preoptimized", "locopted",
                "in glbopt", "structuring", "cancelled"}
  /\ fn \in Funcs \cup {"none"} /\ ran \subseteq Mats /\ reqmat \in Mats \cup {"none"}
  /\ pos \in Nat /\ modified \in BOOLEAN /\ todo \subseteq Work /\ left \in 0..MaxLeft

\* Toggling leaves each registry as it found it: no callback is there twice,
\* none stays behind, whatever was decompiled in between.
RegistryFollowsToggle ==
  loaded = "kept" =>
    \A r \in Registries :
      cbs[r] = (IF r = "glbopt" THEN <<"dump_microcode_">> ELSE <<>>)
                 \o (IF installed THEN Toggled(arch)[r] ELSE <<>>)

\* The microcode that is handed out is that of the function and maturity
\* asked for, and no enabled callback of that maturity has work left on it.
CaughtAtFixpoint ==
  output # NoMba =>
    /\ stage = "cancelled" /\ output = [fn |-> fn, mat |-> reqmat]
    /\ reqmat = "preopt" => \A cb \in Range(cbs["preopt"]) : <<cb, 0>> \notin todo
    /\ reqmat = "glbopt" => \A i \in Insns : ~Fires(i)

\* A request dies with the call that made it, failed or not: what the user
\* decompiles is never cancelled.
RequestEnds ==
  [][/\ Idle' => reqmat' = "none" /\ output' = NoMba
     /\ stage' = "cancelled" => reqmat # "none"]_vars
=============================================================================
