---------------------------- MODULE RenderProofs ----------------------------
(***************************************************************************)
(* Proofs about RenderPipeline, for every set of components and contents,  *)
(* every size of the pool and every bound.                                 *)
(***************************************************************************)
EXTENDS RenderPipeline, TLAPS

\* A worker is on its way, with a component whose result is open.
Active == {"pending", "running"}

\* The pool, the stages and the results tell the same of c.
Pool(c) ==
    /\ status[c] \in Active => /\ c \in comps /\ phase \in {"prepare", "finish"}
                               /\ result[c].status = "none"
    /\ stage[c] # "none" <=> phase = "finish" /\ status[c] = "running"
    /\ phase = "finish" /\ c \in comps /\ result[c].status = "none" => status[c] \in Active
    /\ phase = "mark" /\ c \in comps => result[c].status # "none"
    /\ stage[c] = "late" \/ result[c].status = "cancelled" => ctxDone

\* What c's directory holds, by what the run has made of it.
Output(c) ==
    /\ result[c].status = "none" /\ stage[c] # "writing" => out[c] = before[c]
    /\ stage[c] = "writing" \/ result[c].status = "ok" =>
          (result[c].changed <=> before[c] # Fresh(c))
    /\ stage[c] = "writing" => ~opts.checkOnly
    /\ result[c].status = "ok" /\ ~opts.checkOnly => out[c] = Fresh(c)
    /\ result[c].status = "error" /\ opts.checkOnly /\ (phase = "mark" => c \in todo) =>
          ~result[c].changed
    /\ result[c].status = "error" /\ phase = "mark" /\ c \notin todo /\ ~fault =>
          IF opts.checkOnly THEN result[c].changed <=> out[c] # Marked ELSE out[c].marker

RunInv == phase # "idle" =>
    /\ comps \subseteq present /\ ~drifted
    /\ phase = "prune" => /\ todo \cap present = {}
                          /\ todo # {} => opts.cleanStale /\ ~opts.checkOnly
    /\ phase = "mark" => todo \subseteq Errors
    /\ \A c \in Components : Pool(c)
    /\ \A c \in comps : Output(c)

\* What holds in the middle of a run, and what is said once it has ended.
Kept == CheckOnlyWritesNothing /\ CancelledKeepsOutput /\ OnlySelected
Said == CompleteOrMarked /\ ChangedIsTrue /\ CheckAgrees

IInv == TypeOK /\ RunInv /\ Kept /\ Said

-----------------------------------------------------------------------------
(* The records the actions write *)

\* A directory is what it holds and whether it is marked; results likewise.
LEMMA Records ==
    /\ \A t, m : Dir(t, m).tree = t /\ Dir(t, m).marker = m
    /\ \A t \in Trees, m \in BOOLEAN : (t = "absent" => ~m) => Dir(t, m) \in Dirs
    /\ \A x, ch : Res(x, ch).status = x /\ Res(x, ch).changed = ch
    /\ \A x \in {"none", "ok", "error", "cancelled"}, ch \in BOOLEAN : Res(x, ch) \in Results
BY DEF Dir, Dirs, Res, Results

\* What copying, clearing and marking leave are directories.
LEMMA Leftovers ==
    ASSUME TypeOK, NEW c \in Components
    PROVE  /\ Fresh(c) \in Dirs /\ ~Fresh(c).marker /\ Fresh(c).tree \in Contents
           /\ Marked \in Dirs /\ Marked.marker
           /\ Dir("bare", FALSE) \in Dirs /\ Dir("absent", FALSE) \in Dirs
           /\ Wrecks \subseteq Dirs
           /\ Dir(out[c].tree, TRUE).marker
           /\ Exists(c) => Dir(out[c].tree, TRUE) \in Dirs
<1>1. want[c] \in Contents /\ want[c] \in Trees /\ want[c] # "absent"
  BY RenderAssumption DEF TypeOK, Trees
<1>2. {"absent", "bare", "partial"} \subseteq Trees BY DEF Trees
<1>3. out[c] \in Dirs /\ out[c].tree \in Trees BY DEF TypeOK, Dirs
<1>4. Wrecks \subseteq Dirs BY <1>2, Records DEF Wrecks
<1>5. Fresh(c) \in Dirs /\ ~Fresh(c).marker /\ Fresh(c).tree \in Contents
  BY <1>1, Records DEF Fresh
<1>6. Marked \in Dirs /\ Marked.marker BY <1>2, Records DEF Marked
<1>7. Dir("bare", FALSE) \in Dirs /\ Dir("absent", FALSE) \in Dirs BY <1>2, Records
<1>8. Exists(c) => Dir(out[c].tree, TRUE) \in Dirs BY <1>3, Records DEF Exists
<1> QED BY <1>4, <1>5, <1>6, <1>7, <1>8, Records

\* The results have their types.
LEMMA ResultType ==
    ASSUME TypeOK, NEW c \in Components
    PROVE  /\ result[c] \in Results /\ result[c].changed \in BOOLEAN
           /\ result[c].status \in {"none", "ok", "error", "cancelled"}
           /\ Drift(c) \in BOOLEAN
BY DEF TypeOK, Results, Drift

-----------------------------------------------------------------------------
(* Steps that concern one component *)

\* A step inside a phase that changes one component of the run keeps the
\* invariant if that component still fits.
LEMMA OneInv ==
    ASSUME IInv, NEW c \in comps, TypeOK',
           phase \in {"prepare", "finish", "mark"},
           UNCHANGED <<present, want, opts, comps, before, drifted, phase, exit, ctxDone>>,
           todo' \in {todo, todo \ {c}}, fault => fault',
           \A d \in Components \ {c} : /\ status'[d] = status[d] /\ stage'[d] = stage[d]
                                       /\ result'[d] = result[d] /\ out'[d] = out[d],
           phase = "mark" => result'[c].status = result[c].status,
           Pool(c)', Output(c)',
           opts.checkOnly => out'[c] = out[c],
           result'[c].status = "cancelled" => out'[c] = before[c] /\ ~result'[c].changed
    PROVE  IInv'
<1>1. TypeOK /\ RunInv /\ Kept BY DEF IInv
<1>2. c \in Components /\ comps \subseteq Components BY <1>1 DEF TypeOK
<1>3. /\ comps \subseteq present /\ ~drifted
      /\ phase = "mark" => todo \subseteq Errors
      /\ \A d \in Components : Pool(d)
      /\ \A d \in comps : Output(d)
  BY <1>1 DEF RunInv
<1>4. \A d \in Components \ {c} : Pool(d)'
  BY <1>3 DEF Pool
<1>5. \A d \in comps \ {c} : Output(d)'
  <2> SUFFICES ASSUME NEW d \in comps \ {c} PROVE Output(d)' OBVIOUS
  <2>1. /\ stage'[d] = stage[d] /\ result'[d] = result[d] /\ out'[d] = out[d]
        /\ d \in todo' <=> d \in todo
    BY <1>2
  <2>2. Fresh(d)' = Fresh(d) /\ Marked' = Marked BY DEF Fresh, Marked
  <2>3. Output(d) BY <1>3
  <2> QED BY <2>1, <2>2, <2>3 DEF Output
<1>6. phase = "mark" => todo' \subseteq Errors'
  BY <1>2, <1>3 DEF Errors
<1>7. RunInv'
  BY <1>2, <1>3, <1>4, <1>5, <1>6 DEF RunInv
<1>8. CheckOnlyWritesNothing'
  <2>1. ASSUME opts.checkOnly PROVE out' = out
    BY <1>1, <1>2, <2>1 DEF TypeOK
  <2> QED BY <1>1, <2>1 DEF Kept, CheckOnlyWritesNothing
<1>9. CancelledKeepsOutput' /\ OnlySelected'
  BY <1>1, <1>2 DEF Kept, CancelledKeepsOutput, OnlySelected
<1>10. Said'
  BY DEF Said, CompleteOrMarked, ChangedIsTrue, CheckAgrees, Reported
<1> QED BY <1>7, <1>8, <1>9, <1>10 DEF IInv, Kept

\* While sources are prepared no directory is touched.
LEMMA PrepareInv ==
    ASSUME IInv, NEW c \in Components,
           \/ BeginPrepare(c) \/ PrepareOk(c) \/ PrepareFail(c) \/ SkipPrepare(c)
    PROVE  IInv'
<1>1. TypeOK /\ RunInv BY DEF IInv
<1>2. /\ phase = "prepare"
      /\ UNCHANGED <<present, want, opts, comps, before, drifted, phase, exit, ctxDone,
                     out, todo, usable, stage, fault, runs, envs>>
  BY DEF BeginPrepare, PrepareOk, PrepareFail, SkipPrepare, Preparing, Steady, world, bounds,
         PM!Begin, PM!Settle, PM!Skip
<1>3. /\ status[c] \in Active
      /\ c \in comps /\ result[c].status = "none" /\ Output(c) /\ Pool(c)
  <2>1. status[c] \in Active
    BY DEF BeginPrepare, PrepareOk, PrepareFail, SkipPrepare, PM!Begin, PM!Settle, PM!Skip, Active
  <2>2. Pool(c) BY <1>1, <1>2 DEF RunInv
  <2>3. c \in comps /\ result[c].status = "none" BY <2>1, <2>2 DEF Pool
  <2> QED BY <1>1, <1>2, <2>1, <2>2, <2>3 DEF RunInv
<1>4. /\ \/ result' = result
         \/ result' = [result EXCEPT ![c] = Res("error", FALSE)]
            /\ status' = [status EXCEPT ![c] = "value"]
         \/ result' = [result EXCEPT ![c] = Res("cancelled", FALSE)] /\ ctxDone
            /\ status' = [status EXCEPT ![c] = "cancelled"]
      /\ \E s \in {"running", "value", "cancelled"} : status' = [status EXCEPT ![c] = s]
      /\ own' \subseteq Components
  BY <1>1 DEF BeginPrepare, PrepareOk, PrepareFail, SkipPrepare, PM!Begin, PM!Settle, PM!Skip, TypeOK
<1>5. Res("error", FALSE) \in Results /\ Res("cancelled", FALSE) \in Results
      /\ Res("error", FALSE).status = "error" /\ Res("cancelled", FALSE).status = "cancelled"
      /\ ~Res("error", FALSE).changed /\ ~Res("cancelled", FALSE).changed
  BY Records
<1>6. TypeOK'
  <2>1. status' \in [Components -> PM!Statuses]
    BY <1>1, <1>4 DEF TypeOK, PM!PMTypeOK, PM!Statuses
  <2>2. result' \in [Components -> Results]
    BY <1>1, <1>4, <1>5 DEF TypeOK
  <2> QED BY <1>1, <1>2, <1>4, <2>1, <2>2 DEF TypeOK, PM!PMTypeOK
<1>7. \A d \in Components \ {c} : status'[d] = status[d] /\ result'[d] = result[d]
  BY <1>1, <1>4 DEF TypeOK, PM!PMTypeOK
<1>8. /\ status'[c] \in {"running", "value", "cancelled"}
      /\ \/ result'[c] = result[c]
         \/ result'[c] = Res("error", FALSE) /\ status'[c] = "value"
         \/ result'[c] = Res("cancelled", FALSE) /\ ctxDone /\ status'[c] = "cancelled"
  BY <1>1, <1>4 DEF TypeOK, PM!PMTypeOK
<1>9. stage[c] = "none" BY <1>2, <1>3 DEF Pool
<1>10. Pool(c)'
  BY <1>2, <1>3, <1>5, <1>8, <1>9 DEF Pool, Active
<1>11. Output(c)'
  BY <1>2, <1>3, <1>5, <1>8, <1>9 DEF Output, Fresh
<1>12. out[c] = before[c]
  BY <1>3, <1>9 DEF Output
<1> QED BY <1>2, <1>3, <1>5, <1>6, <1>7, <1>8, <1>10, <1>11, <1>12, OneInv

\* A worker of the last phase, up to the moment it clears the directory.
LEMMA FinishInv ==
    ASSUME IInv, NEW c \in Components,
           \/ BeginFinish(c) \/ FinishLate(c) \/ SkipFinish(c) \/ FinishFail(c)
           \/ Compare(c) \/ Clear(c) \/ CopyOk(c) \/ CopyFail(c)
    PROVE  IInv'
<1>1. TypeOK /\ RunInv BY DEF IInv
<1>2. /\ phase = "finish"
      /\ UNCHANGED <<present, want, opts, comps, before, drifted, phase, exit, ctxDone,
                     todo, usable, fault, runs, envs>>
  BY DEF BeginFinish, FinishLate, SkipFinish, FinishFail, Compare, Clear, CopyOk, CopyFail,
         Leaves, Finishing, Steady, world, bounds, PM!Begin, PM!Settle, PM!Skip
<1>3. Pool(c) BY <1>1, <1>2 DEF RunInv
<1>4. status[c] \in Active
  BY <1>2, <1>3 DEF BeginFinish, FinishLate, SkipFinish, FinishFail, Compare, Clear, CopyOk,
         CopyFail, Leaves, PM!Begin, PM!Settle, PM!Skip, Pool, Active
<1>5. c \in comps /\ result[c].status = "none" BY <1>3, <1>4 DEF Pool
<1>6. Output(c) BY <1>1, <1>2, <1>5 DEF RunInv
<1>7. own \subseteq Components /\ own \cup {c} \subseteq Components BY <1>1 DEF TypeOK
<1> DEFINE Fit(st, sg, r, o) ==
        /\ st \in {"running", "value", "cancelled"} /\ sg \in {"none", "late", "open", "writing"}
        /\ r \in Results /\ o \in Dirs
        /\ opts.checkOnly => o = out[c]
        /\ st = "running" <=> sg # "none"
        /\ st = "running" <=> r.status = "none"
        /\ sg = "late" \/ r.status = "cancelled" => ctxDone
        /\ sg \in {"late", "open"} \/ r.status = "cancelled" => o = before[c]
        /\ r.status = "cancelled" => ~r.changed
        /\ sg = "writing" \/ r.status = "ok" => (r.changed <=> before[c] # Fresh(c))
        /\ sg = "writing" => ~opts.checkOnly
        /\ r.status = "ok" /\ ~opts.checkOnly => o = Fresh(c)
        /\ r.status = "error" /\ opts.checkOnly => ~r.changed
       To(st, sg, r, o) ==
        /\ status' = [status EXCEPT ![c] = st]
        /\ stage' = [stage EXCEPT ![c] = sg]
        /\ result' = [result EXCEPT ![c] = r]
        /\ out' = [out EXCEPT ![c] = o]
        /\ own' \subseteq Components
<1>8. ASSUME NEW st, NEW sg, NEW r, NEW o, Fit(st, sg, r, o), To(st, sg, r, o)
      PROVE  IInv'
  <2>1. TypeOK'
    BY <1>1, <1>2, <1>8 DEF TypeOK, PM!PMTypeOK, PM!Statuses
  <2>2. \A d \in Components \ {c} : /\ status'[d] = status[d] /\ stage'[d] = stage[d]
                                    /\ result'[d] = result[d] /\ out'[d] = out[d]
    BY <1>1, <1>8 DEF TypeOK, PM!PMTypeOK
  <2>3. status'[c] = st /\ stage'[c] = sg /\ result'[c] = r /\ out'[c] = o
    BY <1>1, <1>8 DEF TypeOK, PM!PMTypeOK
  <2>4. Pool(c)'
    BY <1>2, <1>5, <1>8, <2>3 DEF Pool, Active
  <2>5. sg \in {"none", "late", "open", "writing"} /\ (r.status = "none" => sg # "none")
    BY <1>8
  <2>6. Output(c)'
    BY <1>2, <1>8, <2>3, <2>5 DEF Output, Fresh
  <2>7. opts.checkOnly => out'[c] = out[c]
    BY <1>8, <2>3
  <2>8. result'[c].status = "cancelled" => out'[c] = before[c] /\ ~result'[c].changed
    BY <1>8, <2>3
  <2> QED BY <1>2, <1>5, <2>1, <2>2, <2>4, <2>6, <2>7, <2>8, OneInv
<1>9. out = [out EXCEPT ![c] = out[c]] /\ stage = [stage EXCEPT ![c] = stage[c]]
      /\ result = [result EXCEPT ![c] = result[c]] /\ status = [status EXCEPT ![c] = status[c]]
      /\ out[c] \in Dirs /\ result[c] \in Results
  BY <1>1 DEF TypeOK, PM!PMTypeOK
<1>10. stage[c] # "writing" => out[c] = before[c] /\ (Drift(c) <=> before[c] # Fresh(c))
  BY <1>5, <1>6 DEF Output, Drift
<1>11. stage[c] # "none" <=> status[c] = "running" BY <1>2, <1>3 DEF Pool
<1>12. \A x \in {"ok", "error", "cancelled", "none"}, ch \in BOOLEAN :
          /\ Res(x, ch) \in Results
          /\ Res(x, ch).status = x /\ Res(x, ch).changed = ch
  BY Records
<1>13. result[c].changed \in BOOLEAN /\ Drift(c) \in BOOLEAN BY <1>1, ResultType
<1> HIDE DEF To, Fit
<1>14. CASE BeginFinish(c)
  <2> DEFINE sg == IF ctxDone THEN "late" ELSE "open"
  <2>1. status[c] = "pending" /\ To("running", sg, result[c], out[c])
    BY <1>7, <1>9, <1>14 DEF BeginFinish, PM!Begin, To
  <2>2. out[c] = before[c] BY <1>10, <1>11, <2>1
  <2>3. Fit("running", sg, result[c], out[c])
    BY <1>5, <1>9, <2>2 DEF Fit
  <2> QED BY <1>8, <2>1, <2>3
<1>15. CASE FinishLate(c)
  <2>1. stage[c] = "late" /\ To("value", "none", Res("cancelled", FALSE), out[c])
    BY <1>7, <1>9, <1>15 DEF FinishLate, Leaves, PM!Settle, To
  <2>2. ctxDone BY <1>3, <2>1 DEF Pool
  <2>3. Fit("value", "none", Res("cancelled", FALSE), out[c])
    BY <1>9, <1>10, <1>12, <2>1, <2>2 DEF Fit
  <2> QED BY <1>8, <2>1, <2>3
<1>16. CASE SkipFinish(c)
  <2>1. status[c] = "pending" /\ ctxDone BY <1>16 DEF SkipFinish, PM!Skip
  <2>2. stage[c] = "none" BY <1>11, <2>1
  <2>3. To("cancelled", "none", Res("cancelled", FALSE), out[c])
    BY <1>7, <1>9, <1>16, <2>2 DEF SkipFinish, PM!Skip, To
  <2>4. Fit("cancelled", "none", Res("cancelled", FALSE), out[c])
    BY <1>9, <1>10, <1>12, <2>1, <2>2 DEF Fit
  <2> QED BY <1>8, <2>3, <2>4
<1>17. CASE FinishFail(c)
  <2>1. PICK ch \in BOOLEAN : Leaves(c, "error", ch) /\ (opts.checkOnly => ~ch)
    BY <1>17, <1>13 DEF FinishFail
  <2>2. out' = out /\ own' \subseteq Components
    BY <1>7, <1>17 DEF FinishFail
  <2>3. To("value", "none", Res("error", ch), out[c])
    BY <1>9, <2>1, <2>2 DEF Leaves, PM!Settle, To
  <2>4. Fit("value", "none", Res("error", ch), out[c])
    BY <1>9, <1>12, <2>1 DEF Fit
  <2> QED BY <1>8, <2>3, <2>4
<1>18. CASE Compare(c)
  <2>1. stage[c] = "open" /\ opts.checkOnly /\ To("value", "none", Res("ok", Drift(c)), out[c])
    BY <1>7, <1>9, <1>18 DEF Compare, Leaves, PM!Settle, To
  <2>2. Fit("value", "none", Res("ok", Drift(c)), out[c])
    BY <1>9, <1>10, <1>12, <1>13, <2>1 DEF Fit
  <2> QED BY <1>8, <2>1, <2>2
<1>19. CASE Clear(c)
  <2>1. stage[c] = "open" /\ ~opts.checkOnly BY <1>19 DEF Clear
  <2>2. status[c] = "running" BY <1>11, <2>1
  <2>3. To("running", "writing", Res("none", Drift(c)), Dir("bare", FALSE))
    BY <1>7, <1>9, <1>19, <2>2 DEF Clear, To
  <2>4. Dir("bare", FALSE) \in Dirs BY <1>1, Leftovers
  <2>5. Fit("running", "writing", Res("none", Drift(c)), Dir("bare", FALSE))
    BY <1>10, <1>12, <1>13, <2>1, <2>4 DEF Fit
  <2> QED BY <1>8, <2>3, <2>5
<1>20. CASE CopyOk(c)
  <2>1. stage[c] = "writing" /\ To("value", "none", Res("ok", result[c].changed), Fresh(c))
    BY <1>7, <1>20 DEF CopyOk, Leaves, PM!Settle, To
  <2>2. (result[c].changed <=> before[c] # Fresh(c)) /\ ~opts.checkOnly
    BY <1>6, <2>1 DEF Output
  <2>3. Fresh(c) \in Dirs BY <1>1, Leftovers
  <2>4. Fit("value", "none", Res("ok", result[c].changed), Fresh(c))
    BY <1>12, <1>13, <2>2, <2>3 DEF Fit
  <2> QED BY <1>8, <2>1, <2>4
<1>21. CASE CopyFail(c)
  <2>1. PICK w \in Wrecks \cup {Dir("bare", FALSE)} : out' = [out EXCEPT ![c] = w]
    BY <1>21 DEF CopyFail
  <2>2. stage[c] = "writing" /\ To("value", "none", Res("error", result[c].changed), w)
    BY <1>7, <1>21, <2>1 DEF CopyFail, Leaves, PM!Settle, To
  <2>3. ~opts.checkOnly BY <1>6, <2>2 DEF Output
  <2>4. w \in Dirs BY <1>1, Leftovers
  <2>5. Fit("value", "none", Res("error", result[c].changed), w)
    BY <1>12, <1>13, <2>3, <2>4 DEF Fit
  <2> QED BY <1>8, <2>2, <2>5
<1> QED
  BY <1>14, <1>15, <1>16, <1>17, <1>18, <1>19, <1>20, <1>21

\* A marker is placed, fails to be placed, or is foreseen.
LEMMA MarkInv ==
    ASSUME IInv, NEW c \in Components, CheckMark(c) \/ Mark(c) \/ MarkFail(c)
    PROVE  IInv'
<1>1. TypeOK /\ RunInv BY DEF IInv
<1>2. /\ phase = "mark" /\ c \in todo /\ todo' = todo \ {c}
      /\ UNCHANGED <<present, want, opts, comps, before, drifted, phase, exit, ctxDone,
                     usable, stage, status, own, runs, envs>>
  BY DEF CheckMark, Mark, MarkFail, Marking, Steady, world, bounds
<1>3. c \in comps /\ result[c].status = "error" /\ Pool(c) /\ Output(c)
  BY <1>1, <1>2 DEF RunInv, Errors
<1>4. /\ result[c] \in Results /\ result[c].changed \in BOOLEAN /\ out[c] \in Dirs
      /\ opts.checkOnly => ~result[c].changed
  BY <1>1, <1>2, <1>3, ResultType DEF Output, TypeOK
<1> DEFINE marked == IF opts.force \/ ~Exists(c) THEN Marked ELSE Dir(out[c].tree, TRUE)
<1>5. marked \in Dirs /\ marked.marker BY <1>1, Leftovers
<1> HIDE DEF marked
<1>6. \E ch \in BOOLEAN, d \in Dirs :
         /\ result' = [result EXCEPT ![c].changed = ch]
         /\ out' = [out EXCEPT ![c] = d]
         /\ fault => fault'
         /\ opts.checkOnly => d = out[c]
         /\ ~fault' /\ opts.checkOnly => (ch <=> out[c] # Marked)
         /\ ~fault' /\ ~opts.checkOnly => d.marker
  <2>0. out = [out EXCEPT ![c] = out[c]]
        /\ result = [result EXCEPT ![c].changed = result[c].changed]
    BY <1>1 DEF TypeOK, Results
  <2>1. CASE CheckMark(c)
    <3> DEFINE ch == result[c].changed \/ out[c] # Marked
    <3>1. result' = [result EXCEPT ![c].changed = ch] /\ out' = out /\ fault' = fault
          /\ opts.checkOnly
      BY <2>1 DEF CheckMark
    <3>2. ch \in BOOLEAN /\ (ch <=> out[c] # Marked) BY <1>4, <3>1
    <3> QED BY <1>4, <2>0, <3>1, <3>2
  <2>2. CASE Mark(c)
    <3>1. ~opts.checkOnly /\ out' = [out EXCEPT ![c] = marked] /\ result' = result
          /\ fault' = fault
      BY <2>2 DEF Mark, marked
    <3> QED BY <1>4, <1>5, <2>0, <3>1
  <2>3. CASE MarkFail(c)
    <3>1. fault' = TRUE BY <2>3 DEF MarkFail
    <3>2. CASE opts.checkOnly
      <4>1. result' = [result EXCEPT ![c].changed = TRUE] /\ out' = out
        BY <2>3, <3>2 DEF MarkFail
      <4> QED BY <1>4, <2>0, <3>1, <3>2, <4>1
    <3>3. CASE ~opts.checkOnly
      <4>1. /\ result' = result
            /\ \E d \in Wrecks \cup {Dir("bare", FALSE), out[c]} : out' = [out EXCEPT ![c] = d]
        BY <2>3, <3>3 DEF MarkFail
      <4>2. Wrecks \cup {Dir("bare", FALSE), out[c]} \subseteq Dirs
        BY <1>1, <1>4, Leftovers
      <4> QED BY <1>4, <2>0, <3>1, <3>3, <4>1, <4>2
    <3> QED BY <3>2, <3>3
  <2> QED BY <2>1, <2>2, <2>3
<1>7. PICK ch \in BOOLEAN, d \in Dirs :
         /\ result' = [result EXCEPT ![c].changed = ch]
         /\ out' = [out EXCEPT ![c] = d]
         /\ fault => fault'
         /\ opts.checkOnly => d = out[c]
         /\ ~fault' /\ opts.checkOnly => (ch <=> out[c] # Marked)
         /\ ~fault' /\ ~opts.checkOnly => d.marker
  BY <1>6
<1>8. /\ result'[c] \in Results /\ result'[c].status = "error" /\ result'[c].changed = ch
      /\ out'[c] = d
      /\ \A e \in Components \ {c} : result'[e] = result[e] /\ out'[e] = out[e]
  BY <1>1, <1>3, <1>7 DEF TypeOK, Results
<1>9. TypeOK'
  <2>1. result' \in [Components -> Results] BY <1>1, <1>7 DEF TypeOK, Results
  <2>2. out' \in [Components -> Dirs] BY <1>1, <1>7 DEF TypeOK
  <2>3. fault' \in BOOLEAN BY <1>1 DEF CheckMark, Mark, MarkFail, TypeOK
  <2> QED BY <1>1, <1>2, <2>1, <2>2, <2>3 DEF TypeOK, PM!PMTypeOK
<1>10. Pool(c)' BY <1>2, <1>3, <1>8 DEF Pool
<1>11. Output(c)'
  <2>1. stage[c] = "none" BY <1>2, <1>3 DEF Pool
  <2>2. Marked' = Marked BY DEF Marked
  <2> QED BY <1>2, <1>7, <1>8, <2>1, <2>2 DEF Output
<1>12. result'[c].status = result[c].status BY <1>3, <1>8
<1>13. opts.checkOnly => out'[c] = out[c] BY <1>7, <1>8
<1>14. result'[c].status # "cancelled" BY <1>8
<1> QED BY <1>2, <1>3, <1>7, <1>8, <1>9, <1>10, <1>11, <1>12, <1>13, <1>14, OneInv

-----------------------------------------------------------------------------
(* Steps that concern all of them *)

\* No run has begun.
LEMMA InitInv == Init => IInv
<1> SUFFICES ASSUME Init PROVE IInv OBVIOUS
<1>1. want \in [Components -> Contents] /\ {"absent", "bare", "partial"} \cup Contents = Trees
  BY DEF Init, Trees
<1>2. out \in [Components -> Dirs]
  <2>1. Marked \in Dirs /\ Dir("absent", FALSE) \in Dirs
    BY <1>1, Records DEF Marked
  <2>2. \A v \in Contents : Dir(v, FALSE) \in Dirs BY <1>1, Records
  <2>3. {Dir("absent", FALSE), Marked} \cup {Dir(v, FALSE) : v \in Contents} \subseteq Dirs
    BY <2>1, <2>2
  <2> QED BY <2>3 DEF Init
<1>3. result \in [Components -> Results] BY Records DEF Init
<1>4. status \in [Components -> PM!Statuses] BY DEF Init, PM!Batch, PM!Statuses
<1>5. TypeOK
  BY <1>2, <1>3, <1>4 DEF Init, TypeOK, PM!PMTypeOK, Options, Exits
<1> QED
  BY <1>5 DEF Init, IInv, RunInv, Kept, Said, CheckOnlyWritesNothing, CancelledKeepsOutput,
              OnlySelected, CompleteOrMarked, ChangedIsTrue, CheckAgrees, Reported

\* The user edits the project when no run is on: the last one is then told
\* apart by drifted.
LEMMA EditInv == ASSUME IInv, NEW c \in Components, Edit(c) PROVE IInv'
<1>1. TypeOK /\ Kept /\ Said BY DEF IInv
<1>2. /\ phase = "idle" /\ drifted' = TRUE
      /\ UNCHANGED <<out, opts, comps, phase, todo, usable, stage, result, exit, status, ctxDone,
                     before, own, fault, runs>>
      /\ envs' = envs + 1
  BY DEF Edit, runvars
<1>3. want' \in [Components -> Contents] /\ present' \subseteq Components
  BY <1>1 DEF Edit, TypeOK
<1>4. TypeOK' BY <1>1, <1>2, <1>3 DEF TypeOK, PM!PMTypeOK
<1>5. RunInv' BY <1>2 DEF RunInv
<1>6. Kept'
  BY <1>1, <1>2 DEF Kept, CheckOnlyWritesNothing, CancelledKeepsOutput, OnlySelected
<1>7. Said'
  BY <1>1, <1>2 DEF Said, CompleteOrMarked, ChangedIsTrue, CheckAgrees, Reported
<1> QED BY <1>4, <1>5, <1>6, <1>7 DEF IInv

\* A run starts with the tree as it is and no results.
LEMMA StartInv ==
    ASSUME IInv, NEW o \in Options, NEW S \in SUBSET present, Start(o, S) PROVE IInv'
<1>1. TypeOK BY DEF IInv
<1>2. /\ phase' = "prepare" /\ todo' = {} /\ usable' = {} /\ exit' = "running"
      /\ opts' = o /\ comps' = S /\ before' = out /\ own' = {} /\ fault' = FALSE
      /\ drifted' = FALSE /\ ctxDone' = FALSE /\ runs' = runs + 1
      /\ UNCHANGED <<present, want, out, envs>>
  BY DEF Start, world
<1>3. /\ stage' = [c \in Components |-> "none"]
      /\ result' = [c \in Components |-> Res("none", FALSE)]
      /\ status' = [c \in Components |-> IF c \in S THEN "pending" ELSE "idle"]
  BY DEF Start, PM!Batch
<1>4. Res("none", FALSE) \in Results /\ Res("none", FALSE).status = "none"
      /\ ~Res("none", FALSE).changed
  BY Records
<1>5. TypeOK'
  <2>1. status' \in [Components -> PM!Statuses] BY <1>3 DEF PM!Statuses
  <2>2. result' \in [Components -> Results] BY <1>3, <1>4
  <2>3. stage' \in [Components -> {"none", "late", "open", "writing"}] BY <1>3
  <2>4. /\ present' \subseteq Components /\ want' \in [Components -> Contents]
        /\ out' \in [Components -> Dirs] /\ before' \in [Components -> Dirs]
        /\ comps' \subseteq Components /\ runs' \in Nat /\ envs' \in Nat
    BY <1>1, <1>2 DEF TypeOK
  <2>5. opts' \in Options BY <1>2
  <2> QED BY <1>2, <2>1, <2>2, <2>3, <2>4, <2>5 DEF TypeOK, PM!PMTypeOK, Exits
<1>6. \A c \in Components : Pool(c)'
  BY <1>2, <1>3, <1>4 DEF Pool, Active
<1>7. \A c \in S : Output(c)'
  <2> SUFFICES ASSUME NEW c \in S PROVE Output(c)' OBVIOUS
  <2>1. stage'[c] = "none" /\ result'[c].status = "none" BY <1>1, <1>3, <1>4 DEF TypeOK
  <2> QED BY <1>2, <2>1 DEF Output
<1>8. RunInv' BY <1>2, <1>6, <1>7 DEF RunInv
<1>9. Kept'
  BY <1>1, <1>2, <1>3, <1>4
  DEF Kept, CheckOnlyWritesNothing, CancelledKeepsOutput, OnlySelected, TypeOK
<1>10. Said'
  BY <1>2 DEF Said, CompleteOrMarked, ChangedIsTrue, CheckAgrees, Reported
<1> QED BY <1>5, <1>8, <1>9, <1>10 DEF IInv

\* Ctrl-C is a flag.
LEMMA CancelInv == ASSUME IInv, Cancel PROVE IInv'
<1>1. /\ UNCHANGED <<present, want, out, opts, comps, phase, todo, usable, stage, result, exit,
                     before, own, fault, drifted, runs, envs, status>>
      /\ ctxDone' = TRUE /\ phase # "idle"
  BY DEF Cancel, PM!EndContext, world, runvars, bounds
<1>2. TypeOK' BY <1>1 DEF IInv, TypeOK, PM!PMTypeOK
<1>3. \A c \in Components : Pool(c) => Pool(c)' BY <1>1 DEF Pool
<1>4. \A c \in Components : Output(c) => Output(c)'
  <2> SUFFICES ASSUME NEW c \in Components, Output(c) PROVE Output(c)' OBVIOUS
  <2> QED BY <1>1 DEF Output, Fresh, Marked
<1>5. RunInv'
  BY <1>1, <1>3, <1>4 DEF IInv, RunInv, TypeOK, Errors
<1>6. Kept'
  BY <1>1 DEF IInv, Kept, CheckOnlyWritesNothing, CancelledKeepsOutput, OnlySelected
<1>7. Said'
  BY <1>1 DEF Said, CompleteOrMarked, ChangedIsTrue, CheckAgrees, Reported
<1> QED BY <1>2, <1>5, <1>6, <1>7 DEF IInv

\* Passing to the next phase, or pruning, changes no result and no output of
\* a component of the run.
LEMMA AdvanceInv ==
    ASSUME IInv, EndPrepare \/ MockBatch \/ PruneEnd \/ EndFinish \/ \E c \in Components : Prune(c)
    PROVE  IInv'
<1>1. TypeOK /\ RunInv /\ Kept BY DEF IInv
<1>2. /\ phase # "idle" /\ phase' \in {"mock", "prune", "finish", "mark"}
      /\ UNCHANGED <<present, want, opts, comps, before, drifted, stage, result, exit, ctxDone,
                     fault, runs, envs>>
  BY DEF EndPrepare, MockBatch, PruneEnd, EndFinish, Prune, Pruning, Steady, world, bounds
<1>3. /\ comps \subseteq present /\ ~drifted /\ comps \subseteq Components
      /\ \A c \in Components : Pool(c)
      /\ \A c \in comps : Output(c)
      /\ phase = "prune" => /\ todo \cap present = {}
                            /\ todo # {} => opts.cleanStale /\ ~opts.checkOnly
  BY <1>1, <1>2 DEF RunInv, TypeOK
<1>4. usable' \subseteq Components /\ own' \subseteq Components /\ todo' \subseteq Components
  BY <1>1 DEF EndPrepare, MockBatch, PruneEnd, EndFinish, Prune, Pruning, TypeOK, Prepared,
              Orphans, Errors
<1>5. status' \in [Components -> PM!Statuses]
  BY <1>1 DEF EndPrepare, MockBatch, PruneEnd, EndFinish, Prune, TypeOK, PM!PMTypeOK,
              PM!Batch, PM!Statuses
<1>6. \/ out' = out
      \/ \E c \in todo : /\ phase = "prune" /\ phase' = "prune"
                         /\ out' = [out EXCEPT ![c] = Dir("absent", FALSE)]
  BY DEF EndPrepare, MockBatch, PruneEnd, EndFinish, Prune, Pruning
<1>7. out' \in [Components -> Dirs]
  BY <1>1, <1>6, Leftovers DEF TypeOK
<1>8. TypeOK'
  BY <1>1, <1>2, <1>4, <1>5, <1>7 DEF TypeOK, PM!PMTypeOK
<1>9. \A c \in comps : out'[c] = out[c]
  BY <1>1, <1>3, <1>6 DEF TypeOK
<1>10. /\ opts.checkOnly => out' = out
       /\ \A c \in Components : out'[c] # out[c] =>
             opts.cleanStale /\ ~opts.checkOnly /\ c \notin present
  BY <1>1, <1>3, <1>6 DEF TypeOK
<1>11. \A c \in Components : Pool(c)'
  <2>1. CASE EndPrepare
    BY <1>2, <1>3, <2>1 DEF EndPrepare, PM!Settled, Pool, Active
  <2>2. CASE MockBatch
    BY <1>2, <1>3, <2>2 DEF MockBatch, Pool, Active
  <2>3. CASE PruneEnd
    BY <1>2, <1>3, <2>3 DEF PruneEnd, Pruning, Prepared, PM!Batch, Pool, Active
  <2>4. CASE EndFinish
    BY <1>2, <1>3, <2>4 DEF EndFinish, PM!Settled, Pool, Active
  <2>5. CASE \E c \in Components : Prune(c)
    BY <1>2, <1>3, <2>5 DEF Prune, Pruning, Pool, Active
  <2> QED BY <2>1, <2>2, <2>3, <2>4, <2>5
<1>12. phase' = "mark" => todo' = Errors /\ phase = "finish"
  BY DEF EndPrepare, MockBatch, PruneEnd, EndFinish, Prune, Pruning
<1>13. ASSUME NEW c \in comps PROVE Output(c)'
  <2>1. stage'[c] = stage[c] /\ result'[c] = result[c] /\ out'[c] = out[c]
    BY <1>2, <1>9
  <2>2. Fresh(c)' = Fresh(c) BY <1>2 DEF Fresh
  <2>3. phase' = "mark" => (result[c].status = "error" => c \in todo')
    BY <1>12 DEF Errors
  <2>4. phase # "mark"
    BY DEF EndPrepare, MockBatch, PruneEnd, EndFinish, Prune, Pruning
  <2> QED BY <1>2, <1>3, <2>1, <2>2, <2>3, <2>4 DEF Output
<1>14. phase' = "prune" => /\ todo' \cap present = {}
                           /\ todo' # {} => opts.cleanStale /\ ~opts.checkOnly
  <2>1. CASE MockBatch BY <2>1 DEF MockBatch, Orphans
  <2>2. CASE \E c \in Components : Prune(c)
    BY <1>3, <2>2 DEF Prune, Pruning
  <2>3. CASE EndPrepare \/ PruneEnd \/ EndFinish
    BY <2>3 DEF EndPrepare, PruneEnd, EndFinish
  <2> QED BY <2>1, <2>2, <2>3
<1>15. RunInv'
  <2>1. Errors' = Errors BY <1>2 DEF Errors
  <2> QED BY <1>2, <1>3, <1>11, <1>12, <1>13, <1>14, <2>1 DEF RunInv
<1>16. Kept'
  <2>1. CheckOnlyWritesNothing' BY <1>1, <1>2, <1>10 DEF Kept, CheckOnlyWritesNothing
  <2>2. CancelledKeepsOutput' BY <1>1, <1>2, <1>9 DEF Kept, CancelledKeepsOutput
  <2>3. OnlySelected' BY <1>1, <1>2, <1>10 DEF Kept, OnlySelected
  <2> QED BY <2>1, <2>2, <2>3 DEF Kept
<1>17. Said'
  BY <1>2 DEF Said, CompleteOrMarked, ChangedIsTrue, CheckAgrees, Reported
<1> QED BY <1>8, <1>15, <1>16, <1>17 DEF IInv

\* A run that stops early has said nothing, and what it tore was not to be
\* kept.
LEMMA StopInv == ASSUME IInv, PruneFail \/ ListFail \/ Crash PROVE IInv'
<1>1. TypeOK /\ RunInv /\ Kept BY DEF IInv
<1>2. /\ phase # "idle" /\ phase' = "idle" /\ exit' \in {"aborted", "crashed"} /\ todo' = {}
      /\ UNCHANGED <<present, want, opts, comps, before, drifted, usable, stage, result, status,
                     ctxDone, own, fault, runs, envs>>
  BY DEF PruneFail, ListFail, Crash, Ends, Pruning, Steady, world, bounds
<1>3. /\ comps \subseteq present /\ comps \subseteq Components /\ todo \subseteq Components
      /\ \A c \in Components : Pool(c)
      /\ \A c \in comps : Output(c)
      /\ phase = "prune" => /\ todo \cap present = {}
                            /\ todo # {} => opts.cleanStale /\ ~opts.checkOnly
      /\ phase = "mark" => todo \subseteq Errors
  BY <1>1, <1>2 DEF RunInv, TypeOK
<1>4. \A c \in Components : out'[c] = out[c] \/ (c \in Torn /\ out'[c] \in Wrecks)
  <2>1. CASE PruneFail BY <1>1, <2>1 DEF PruneFail, Pruning, Torn, TypeOK
  <2>2. CASE ListFail BY <2>2 DEF ListFail
  <2>3. CASE Crash BY <2>3 DEF Crash
  <2> QED BY <2>1, <2>2, <2>3
<1>5. ASSUME NEW c \in Torn, c \in Components
      PROVE  /\ ~opts.checkOnly
             /\ c \in comps => result[c].status # "cancelled"
             /\ c \notin comps => opts.cleanStale /\ c \notin present
  <2>1. CASE phase = "finish"
    <3>1. c \in comps /\ stage[c] = "writing" BY <1>5, <2>1 DEF Torn
    <3>2. status[c] \in Active BY <1>3, <1>5, <3>1 DEF Pool, Active
    <3> QED BY <1>3, <1>5, <3>1, <3>2 DEF Pool, Output
  <2>2. CASE phase = "prune"
    BY <1>3, <1>5, <2>2 DEF Torn
  <2>3. CASE phase = "mark"
    BY <1>3, <1>5, <2>3 DEF Torn, Errors
  <2> QED BY <1>5, <2>1, <2>2, <2>3 DEF Torn
<1>6. out' \in [Components -> Dirs]
  <2>1. out' = [c \in Components |-> out'[c]]
    BY <1>1 DEF PruneFail, ListFail, Crash, TypeOK
  <2>2. \A c \in Components : out'[c] \in Dirs
    BY <1>1, <1>4, Leftovers DEF TypeOK
  <2> QED BY <2>1, <2>2
<1>7. TypeOK'
  BY <1>1, <1>2, <1>6 DEF TypeOK, PM!PMTypeOK, Exits
<1>8. RunInv' BY <1>2 DEF RunInv
<1>9. Kept'
  <2>1. ASSUME opts.checkOnly PROVE out' = before
    <3>1. \A c \in Components : out'[c] = out[c] BY <1>4, <1>5, <2>1
    <3>2. out = before BY <1>1, <2>1 DEF Kept, CheckOnlyWritesNothing
    <3> QED BY <1>1, <1>6, <3>1, <3>2 DEF TypeOK
  <2>2. CheckOnlyWritesNothing' BY <1>2, <2>1 DEF CheckOnlyWritesNothing
  <2>3. CancelledKeepsOutput'
    BY <1>1, <1>2, <1>3, <1>4, <1>5 DEF Kept, CancelledKeepsOutput
  <2>4. OnlySelected'
    BY <1>1, <1>2, <1>4, <1>5 DEF Kept, OnlySelected
  <2> QED BY <2>2, <2>3, <2>4 DEF Kept
<1>10. Said'
  BY <1>2 DEF Said, CompleteOrMarked, ChangedIsTrue, CheckAgrees, Reported
<1> QED BY <1>7, <1>8, <1>9, <1>10 DEF IInv

\* What a run says at its end is what its results and the tree say.
LEMMA ReportInv == ASSUME IInv, Report PROVE IInv'
<1>1. TypeOK /\ RunInv /\ Kept BY DEF IInv
<1>2. /\ phase = "mark" /\ todo = {} /\ phase' = "idle" /\ todo' = {}
      /\ exit' \in {"stale", "ok", "failed"}
      /\ UNCHANGED <<present, want, opts, comps, before, drifted, out, usable, stage, result,
                     status, ctxDone, own, fault, runs, envs>>
  BY DEF Report, Ends, Steady, world, bounds
<1>3. /\ comps \subseteq Components
      /\ \A c \in Components : Pool(c)
      /\ \A c \in comps : Output(c)
  BY <1>1, <1>2 DEF RunInv, TypeOK
<1>4. TypeOK' BY <1>1, <1>2 DEF TypeOK, PM!PMTypeOK, Exits
<1>5. RunInv' BY <1>2 DEF RunInv
<1>6. Kept'
  BY <1>1, <1>2 DEF Kept, CheckOnlyWritesNothing, CancelledKeepsOutput, OnlySelected
<1>7. ASSUME NEW c \in comps
      PROVE  /\ result[c].status \in {"ok", "error", "cancelled"}
             /\ result[c].changed \in BOOLEAN
             /\ result[c].status = "cancelled" => ctxDone /\ out[c] = before[c]
             /\ result[c].status = "ok" => (result[c].changed <=> before[c] # Fresh(c))
             /\ result[c].status = "ok" /\ ~opts.checkOnly => out[c] = Fresh(c)
             /\ result[c].status = "error" /\ ~fault =>
                   IF opts.checkOnly THEN result[c].changed <=> out[c] # Marked
                   ELSE out[c].marker
  BY <1>1, <1>2, <1>3, ResultType DEF Pool, Output, Kept, CancelledKeepsOutput
<1>8. CompleteOrMarked'
  <2> SUFFICES ASSUME ~opts.checkOnly, ~fault, NEW c \in comps
               PROVE  /\ result[c].status = "ok" => out[c].tree \in Contents /\ ~out[c].marker
                      /\ result[c].status = "ok" => out[c] = Fresh(c)'
                      /\ result[c].status = "error" => out[c].marker
                      /\ result[c].status = "cancelled" => out[c] = before[c]
    BY <1>2 DEF CompleteOrMarked
  <2>1. Fresh(c)' = Fresh(c) BY <1>2 DEF Fresh
  <2> QED BY <1>1, <1>3, <1>7, <2>1, Leftovers
<1>9. ChangedIsTrue'
  BY <1>2, <1>7 DEF ChangedIsTrue
<1>10. CheckAgrees'
  <2> SUFFICES ASSUME opts.checkOnly, ~ctxDone, ~fault
               PROVE  exit' = "ok" <=> /\ \A c \in comps : out[c] = Outcome(c)'
                                       /\ opts.cleanStale => Orphans' = {}
    BY <1>2 DEF CheckAgrees
  <2>1. Orphans' = Orphans BY <1>2 DEF Orphans, Exists
  <2>2. exit' = "ok" <=> ~(\/ \E c \in comps : result[c].changed
                           \/ opts.all /\ opts.cleanStale /\ Orphans # {})
    BY <1>1 DEF Report, Ends, TypeOK
  <2>3. opts.cleanStale => opts.all BY <1>1 DEF TypeOK, Options
  <2>4. out = before BY <1>1 DEF Kept, CheckOnlyWritesNothing
  <2>5. ASSUME NEW c \in comps PROVE ~result[c].changed <=> out[c] = Outcome(c)'
    <3>1. Outcome(c)' = IF result[c].status = "ok" THEN Fresh(c) ELSE Marked
      BY <1>2 DEF Outcome, Fresh, Marked
    <3> QED BY <1>7, <2>4, <2>5, <3>1
  <2> QED BY <2>1, <2>2, <2>3, <2>5
<1> QED BY <1>4, <1>5, <1>6, <1>8, <1>9, <1>10 DEF IInv, Said

-----------------------------------------------------------------------------
(* The invariant and what follows from it *)

\* Every step keeps the invariant.
LEMMA StepInv == IInv /\ [Next]_vars => IInv'
<1> SUFFICES ASSUME IInv, [Next]_vars PROVE IInv' OBVIOUS
<1>1. CASE RunStep
  BY <1>1, PrepareInv, FinishInv, MarkInv, AdvanceInv, StopInv, ReportInv DEF RunStep
<1>2. CASE Cancel BY <1>2, CancelInv
<1>3. CASE Crash BY <1>3, StopInv
<1>4. CASE \E c \in Components : Edit(c) BY <1>4, EditInv
<1>5. CASE \E o \in Options, S \in SUBSET present : Start(o, S) BY <1>5, StartInv
<1>6. CASE UNCHANGED vars
  <2>1. UNCHANGED <<present, want, out, opts, comps, phase, todo, usable, stage, result, exit,
                    status, ctxDone, before, own, fault, drifted, runs, envs>>
    BY <1>6 DEF vars, world, runvars, bounds
  <2>2. TypeOK' BY <2>1 DEF IInv, TypeOK, PM!PMTypeOK
  <2>3. \A c \in Components : Pool(c) => Pool(c)' BY <2>1 DEF Pool
  <2>4. ASSUME NEW c \in Components, Output(c) PROVE Output(c)'
    BY <2>1, <2>4 DEF Output, Fresh, Marked
  <2>5. RunInv' BY <2>1, <2>3, <2>4 DEF IInv, RunInv, TypeOK, Errors
  <2>6. Kept'
    BY <2>1 DEF IInv, Kept, CheckOnlyWritesNothing, CancelledKeepsOutput, OnlySelected
  <2>7. Said'
    BY <2>1 DEF IInv, Said, CompleteOrMarked, ChangedIsTrue, CheckAgrees, Reported, Outcome,
                Fresh, Marked, Orphans, Exists
  <2> QED BY <2>2, <2>5, <2>6, <2>7 DEF IInv
<1> QED BY <1>1, <1>2, <1>3, <1>4, <1>5, <1>6 DEF Next

\* The invariant holds in every state of every sequence of runs.
THEOREM Inductive == Spec => []IInv
<1> QED BY InitInv, StepInv, PTL DEF Spec

\* Every state is well typed.
THEOREM TypeCorrect == Spec => []TypeOK
<1>1. IInv => TypeOK BY DEF IInv
<1> QED BY <1>1, Inductive, PTL

\* --check-only changes no output, not even when it fails or is killed
\* (render.go:117-121).
THEOREM CheckingWritesNothing == Spec => []CheckOnlyWritesNothing
<1>1. IInv => CheckOnlyWritesNothing BY DEF IInv, Kept
<1> QED BY <1>1, Inductive, PTL

\* A component the end of the context kept from being rendered keeps its
\* output (render.go:1079-1081).
THEOREM CancelledOutputStays == Spec => []CancelledKeepsOutput
<1>1. IInv => CancelledKeepsOutput BY DEF IInv, Kept
<1> QED BY <1>1, Inductive, PTL

\* A run touches the output of no component it did not select, but for what
\* --clean-stale removes.
THEOREM SelectionIsKept == Spec => []OnlySelected
<1>1. IInv => OnlySelected BY DEF IInv, Kept
<1> QED BY <1>1, Inductive, PTL

\* A run that was not killed leaves each directory complete, marked or as it
\* was, unless a marker could not be written.
THEOREM NoUnmarkedWreck == Spec => []CompleteOrMarked
<1>1. IInv => CompleteOrMarked BY DEF IInv, Said
<1> QED BY <1>1, Inductive, PTL

\* The Changed column is true of what rendered (render.go:704-711).
THEOREM ChangedColumnIsTrue == Spec => []ChangedIsTrue
<1>1. IInv => ChangedIsTrue BY DEF IInv, Said
<1> QED BY <1>1, Inductive, PTL

\* --check-only exits 0 exactly when a --force run with the same results
\* would leave the tree as it is (render.go:1085-1088).
THEOREM CheckingForetells == Spec => []CheckAgrees
<1>1. IInv => CheckAgrees BY DEF IInv, Said
<1> QED BY <1>1, Inductive, PTL
=============================================================================
