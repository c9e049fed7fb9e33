----------------------------- MODULE Ownership -----------------------------
(***************************************************************************)
(* What a C function of the driver does to the handles it owns, as a       *)
(* script: a sequence of steps that take, pass on and release resources    *)
(* and may fail.  A failing step ends the script, as a "goto fail" does;   *)
(* Try names the label it goes to.  Run gives every state a script can end *)
(* in, those of success and those of failure.                              *)
(*                                                                         *)
(* A resource is a file descriptor, an RM or CUDA handle, a lock, a block  *)
(* of memory, a mapping or a period of CPU access.  A place is a set of C  *)
(* variables: the locals of the call, the fields of a backing image, of a  *)
(* context or of the driver.  The state s of a display has the fields      *)
(*   held    the resources that exist and that the driver has to release   *)
(*   kept    the pairs of a place and a resource whose variable names it   *)
(*   busy    the resources that queued GPU work may still use              *)
(*   unsafe  drv->cudaWorkUnsafe                                           *)
(*   wrong   history: released though not held, or overwritten while held  *)
(*   hot     history: released while unsafe and busy                       *)
(*   leaked  history: no longer named by any variable                      *)
(*   faults  history: the number of calls that failed                      *)
(* and others the scripts leave alone.                                     *)
(***************************************************************************)
EXTENDS Naturals, Sequences, FiniteSets

CONSTANT MaxFaults  \* bound on the calls that fail in the life of a display

R(name, owner, index) == <<name, owner, index>>

Local == <<"local", 0>>
Drv == <<"drv", 0>>
Ctx == <<"ctx", 0>>
Img(g) == <<"img", g>>

---------------------------------------------------------------------------
(* Steps *)

Step(op, place, rs) ==
    <<[op |-> op, place |-> place, rs |-> rs, body |-> <<>>, other |-> <<>>]>>

Fork(op, place, rs, body, other) ==
    <<[op |-> op, place |-> place, rs |-> rs, body |-> body, other |-> other]>>

Take(place, r) == Step("take", place, {r})        \* acquire, or fail
Hold(place, r) == Step("hold", place, {r})        \* acquire, cannot fail
Check == Step("check", Local, {})                 \* any other call that can fail
Fail == Step("fail", Local, {})                   \* return an error
Close(rs) == Step("close", Local, rs)             \* release, variables unchanged
CloseIf(place, rs) == Step("closeif", place, rs)  \* release what place names
Release(place, rs) == Step("release", place, rs)  \* release, or fail and keep
Pass(rs) == Step("pass", Local, rs)               \* give ownership away
Keep(place, rs) == Step("keep", place, rs)        \* name it in place as well
Forget(place, rs) == Step("forget", place, rs)    \* reset the variables
Adopt(place, new, old) == Fork("adopt", place, {new, old}, <<new>>, <<old>>)
Submit(rs) == Step("submit", Local, rs)           \* queue GPU work on rs, or fail
Drain == Step("drain", Local, {})                 \* wait for the GPU, else unsafe
Finish == Step("finish", Local, {})               \* wait for the GPU, or fail
Quiet == Step("quiet", Local, {})                 \* wait, result ignored
Safe == Step("safe", Local, {})                   \* fail if unsafe

Try(body, handler) == Fork("try", Local, {}, body, handler)
Either(body, other) == Fork("either", Local, {}, body, other)
When(place, r, body, other) == Fork("when", place, {r}, body, other)

Drop(rs) == Close(rs) \o Forget(Local, rs)
Move(from, to, rs) == Keep(to, rs) \o Forget(from, rs)
Finally(body, cleanup) == Try(body, cleanup \o Fail) \o cleanup

---------------------------------------------------------------------------
(* Their effect on a state *)

NamedAt(s, place, rs) == {r \in rs : <<place, r>> \in s.kept}

Named(s) == {k[2] : k \in s.kept}

Entries(place, rs) == {place} \X rs

Acquired(s, place, rs) ==
    [s EXCEPT !.held = @ \cup rs,
              !.kept = @ \cup Entries(place, rs),
              !.wrong = @ \cup (rs \cap s.held)]

Released(s, rs) ==
    [s EXCEPT !.held = @ \ rs,
              !.busy = @ \ rs,
              !.wrong = @ \cup (rs \ s.held),
              !.hot = @ \cup (IF s.unsafe THEN rs \cap s.busy ELSE {})]

Forgotten(s, place, rs) == [s EXCEPT !.kept = @ \ Entries(place, rs)]

Adopted(s, place, new, old) ==
    Forgotten(Acquired([s EXCEPT !.held = @ \ {new}], place, {old}),
              Local, {new})

(* A call that can fail does so, as long as MaxFaults allows. *)
Faulty(s) ==
    IF s.faults < MaxFaults THEN {[s EXCEPT !.faults = @ + 1]} ELSE {}

(* The states in which a simple step succeeds, and those in which it fails *)
Done(s, step) ==
    CASE step.op \in {"take", "hold"} -> {Acquired(s, step.place, step.rs)}
      [] step.op = "check" -> {s}
      [] step.op = "fail" -> {}
      [] step.op = "close" -> {Released(s, step.rs)}
      [] step.op = "closeif" ->
            {Forgotten(Released(s, NamedAt(s, step.place, step.rs)),
                       step.place, step.rs)}
      [] step.op = "release" ->
            {Forgotten(Released(s, step.rs), step.place, step.rs)}
      [] step.op = "pass" -> {[s EXCEPT !.held = @ \ step.rs]}
      [] step.op = "keep" -> {[s EXCEPT !.kept = @ \cup Entries(step.place, step.rs)]}
      [] step.op = "forget" -> {Forgotten(s, step.place, step.rs)}
      [] step.op = "adopt" -> {Adopted(s, step.place, step.body[1], step.other[1])}
      [] step.op = "submit" -> {[s EXCEPT !.busy = @ \cup (step.rs \cap s.held)]}
      [] step.op \in {"drain", "finish"} -> {[s EXCEPT !.busy = {}]}
      [] step.op = "quiet" -> {[s EXCEPT !.busy = {}]} \cup Faulty(s)
      [] step.op = "safe" -> IF s.unsafe THEN {} ELSE {s}

Failed(s, step) ==
    CASE step.op \in {"take", "check", "release", "submit", "finish"} -> Faulty(s)
      [] step.op = "drain" -> {[t EXCEPT !.unsafe = TRUE] : t \in Faulty(s)}
      [] step.op = "fail" -> {s}
      [] step.op = "safe" -> IF s.unsafe THEN {s} ELSE {}
      [] OTHER -> {}

(* The states in which a script that starts in a state of S succeeds and   *)
(* fails.                                                                  *)
RECURSIVE Run(_, _)
Run(S, script) ==
    IF S = {} \/ script = <<>>
    THEN [ok |-> S, failed |-> {}]
    ELSE LET h == Head(script)
             first ==
                CASE h.op = "try" ->
                        LET a == Run(S, h.body)
                            b == Run(a.failed, h.other)
                        IN  [ok |-> a.ok \cup b.ok, failed |-> b.failed]
                  [] h.op = "either" ->
                        LET a == Run(S, h.body)
                            b == Run(S, h.other)
                        IN  [ok |-> a.ok \cup b.ok, failed |-> a.failed \cup b.failed]
                  [] h.op = "when" ->
                        LET Yes == {s \in S : Entries(h.place, h.rs) \subseteq s.kept}
                            a == Run(Yes, h.body)
                            b == Run(S \ Yes, h.other)
                        IN  [ok |-> a.ok \cup b.ok, failed |-> a.failed \cup b.failed]
                  [] OTHER ->
                        [ok |-> UNION {Done(s, h) : s \in S},
                         failed |-> UNION {Failed(s, h) : s \in S}]
             rest == Run(first.ok, Tail(script))
         IN  [ok |-> rest.ok, failed |-> first.failed \cup rest.failed]

(* The call has returned: its locals are gone, and what no variable names  *)
(* any more can never be released.                                         *)
Returned(s) ==
    LET left == {k \in s.kept : k[1] # Local}
        reachable == {k[2] : k \in left}
    IN  [s EXCEPT !.kept = left,
                  !.held = @ \cap reachable,
                  !.busy = @ \cap reachable,
                  !.leaked = @ \cup (s.held \ reachable)]
=============================================================================
