------------------------- MODULE CoopSelect_proofs -------------------------
(***************************************************************************)
(* Proofs about CoopSelect, for any greenlets, numbers and files: what a   *)
(* call reports is what a poll came to and what is registered, and a call  *)
(* comes back with nothing only for one of the reasons listed.             *)
(***************************************************************************)
EXTENDS CoopSelect, FiniteSetTheorems, TLAPS

-----------------------------------------------------------------------------
(* One call.                                                               *)

(* A step of one call that leaves files and keys alone.                    *)
LEMMA StepOfOne ==
  ASSUME SelectInv, NEW g \in Greenlets, NEW w, WaitOK(w),
         wait' = [wait EXCEPT ![g] = w], UNCHANGED <<file, keys, closed>>
  PROVE  SelectInv'
<1>1. FilesOK'
  BY DEF SelectInv, FilesOK
<1>2. wait \in [Greenlets -> Wait] /\ \A h \in Greenlets : WaitOK(wait[h])
  BY DEF SelectInv
<1>3. w \in Wait
  BY DEF WaitOK
<1>4. \A h \in Greenlets : wait'[h] = IF h = g THEN w ELSE wait[h]
  BY <1>2
<1>5. \A h \in Greenlets : WaitOK(wait'[h])
  BY <1>2, <1>4
<1>6. \A h \in Greenlets : WaitOK(wait[h])'
  <2>1. SUFFICES ASSUME NEW h \in Greenlets PROVE WaitOK(wait[h])'
    OBVIOUS
  <2>2. SeenAsked(wait[h])' /\ WokenFor(wait[h])' /\ wait'[h] \in Wait
    BY <1>5 DEF WaitOK, SeenAsked, WokenFor
  <2>3. PolledMeant(wait[h])'
    BY <1>5 DEF WaitOK, PolledMeant
  <2>4. wait'[h].at = "returned" => ReportedTruly(wait[h])'
    BY <1>5 DEF WaitOK, ReportedTruly
  <2>5. wait'[h].at = "returned" => NothingExplained(wait[h])'
    BY <1>5 DEF WaitOK, NothingExplained, NothingReported
  <2> QED BY <2>2, <2>3, <2>4, <2>5 DEF WaitOK
<1>7. wait' \in [Greenlets -> Wait]
  BY <1>2, <1>3
<1> QED BY <1>1, <1>6, <1>7 DEF SelectInv

(* A step of the files or the selector, which no call makes half way       *)
(* through returning.                                                      *)
LEMMA StepOfFiles ==
  ASSUME SelectInv, NobodyMid, UNCHANGED wait, FilesOK',
         \A fd \in Fds : file'[fd] = file[fd] \/ \A g \in Greenlets : wait[g].asked[fd].file # file'[fd]
                                              \/ file'[fd] = 0
  PROVE  SelectInv'
<1>1. wait \in [Greenlets -> Wait] /\ \A g \in Greenlets : WaitOK(wait[g])
  BY DEF SelectInv
<1>2. \A g \in Greenlets : WaitOK(wait[g])'
  <2>1. SUFFICES ASSUME NEW g \in Greenlets PROVE WaitOK(wait[g])'
    OBVIOUS
  <2>2. wait[g].at # "returned" /\ WaitOK(wait[g])
    BY <1>1 DEF NobodyMid
  <2>3. PolledMeant(wait[g])'
    <3>1. SUFFICES ASSUME NEW fd \in Asked(wait[g].asked),
                          wait[g].at \in {"waiting", "woken", "returned"}, wait[g].time # "zero"
          PROVE  \/ wait[g].polled[fd] = wait[g].asked[fd].file
                 \/ file'[fd] # wait[g].asked[fd].file
      BY <2>2 DEF WaitOK, PolledMeant, Asked
    <3>2. /\ fd \in Fds /\ wait[g].asked[fd].file # 0
          /\ \/ wait[g].polled[fd] = wait[g].asked[fd].file
             \/ file[fd] # wait[g].asked[fd].file
      BY <2>2, <3>1 DEF WaitOK, PolledMeant, Asked
    <3> QED BY <3>2
  <2> QED BY <2>2, <2>3 DEF WaitOK, SeenAsked, WokenFor
<1> QED BY <1>1, <1>2 DEF SelectInv

(* Opening and closing, and the selector's own operations.                 *)
LEMMA FilesKept ==
  ASSUME SelectInv, SelectAssumption,
         \/ \E fd \in Fds : OpenFile(fd) \/ CloseFile(fd) \/ Register(fd) \/ Unregister(fd)
         \/ CloseSelector
  PROVE  SelectInv'
<1>1. FilesOK
  BY DEF SelectInv
<1>2. NoKey \in Key /\ NoKey.events = {}
  BY DEF NoKey, Key
<1>3. ASSUME NEW fd \in Fds, OpenFile(fd) PROVE SelectInv'
  <2>1. PICK f \in Files \ Meant(fd) : file' = [file EXCEPT ![fd] = f]
    BY <1>3 DEF OpenFile
  <2>2. f # 0 /\ file[fd] = 0
    BY <1>3, <2>1, SelectAssumption DEF OpenFile
  <2>3. FilesOK'
    BY <1>1, <1>3, <2>1, <2>2 DEF FilesOK, OpenFile
  <2>4. \A g \in Greenlets : wait[g].asked[fd].file # f
    BY <2>1 DEF Meant
  <2>5. /\ file'[fd] = f
        /\ \A fe \in Fds \ {fd} : file'[fe] = file[fe]
    BY <1>1, <2>1 DEF FilesOK
  <2> QED BY <1>3, <2>3, <2>4, <2>5, StepOfFiles DEF OpenFile
<1>4. ASSUME NEW fd \in Fds, CloseFile(fd) PROVE SelectInv'
  <2>1. FilesOK'
    BY <1>1, <1>4 DEF FilesOK, CloseFile
  <2>2. \A fe \in Fds : file'[fe] = file[fe] \/ file'[fe] = 0
    BY <1>1, <1>4 DEF FilesOK, CloseFile
  <2> QED BY <1>4, <2>1, <2>2, StepOfFiles DEF CloseFile
<1>5. ASSUME NEW fd \in Fds, Register(fd) PROVE SelectInv'
  <2>1. PICK events \in SUBSET Events :
          keys' = [keys EXCEPT ![fd] = [file |-> file[fd], events |-> events]]
    BY <1>5 DEF Register
  <2>2. [file |-> file[fd], events |-> events] \in Key
    BY <1>1 DEF FilesOK, Key
  <2>3. FilesOK'
    BY <1>1, <1>5, <2>1, <2>2 DEF FilesOK, Register
  <2> QED BY <1>5, <2>3, StepOfFiles DEF Register
<1>6. ASSUME NEW fd \in Fds, Unregister(fd) PROVE SelectInv'
  <2>1. FilesOK'
    BY <1>1, <1>2, <1>6 DEF FilesOK, Unregister
  <2> QED BY <1>6, <2>1, StepOfFiles DEF Unregister
<1>7. ASSUME CloseSelector PROVE SelectInv'
  <2>1. FilesOK'
    BY <1>1, <1>2, <1>7 DEF FilesOK, CloseSelector
  <2> QED BY <1>7, <2>1, StepOfFiles DEF CloseSelector
<1> QED BY <1>3, <1>4, <1>5, <1>6, <1>7

-----------------------------------------------------------------------------
(* The steps of a call.                                                    *)

(* No wait at all is well-formed.                                          *)
LEMMA NoWaitOK == WaitOK(NoWait)
<1>1. NoWait \in Wait
  BY DEF NoWait, NoKey, Wait, Key, Seen
<1>2. /\ NoWait.at = "none" /\ Asked(NoWait.asked) = {}
      /\ NoWait.seen = [fd \in Fds |-> {}] /\ NoWait.asked = [fd \in Fds |-> NoKey]
      /\ NoWait.polled = [fd \in Fds |-> 0]
  BY DEF NoWait, NoKey, Asked
<1> QED BY <1>1, <1>2 DEF WaitOK, SeenAsked, PolledMeant, WokenFor, NoKey

(* A call begins.                                                          *)
LEMMA BeginsKeeps ==
  ASSUME SelectInv, NEW g \in Greenlets,
         NEW kind \in {"single", "multi", "poll", "selector", "sleep"},
         NEW asked \in [Fds -> Key], NEW time \in {"none", "zero", "some"},
         \A fd \in Asked(asked) : asked[fd].file # 0,
         kind = "single" => \A fd \in Fds : \A a, b \in asked[fd].events : a = b,
         Begins(g, kind, asked, time), UNCHANGED <<file, keys, closed>>
  PROVE  SelectInv'
<1>1. PICK at : at = IF time = "zero" \/ (time = "none" /\ Asked(asked) = {})
                     THEN "asking" ELSE "queued"
  OBVIOUS
<1>2. PICK w : w = [NoWait EXCEPT !.kind = kind, !.asked = asked, !.time = time, !.at = at]
  OBVIOUS
<1>3. wait' = [wait EXCEPT ![g] = w]
  BY <1>1, <1>2 DEF Begins
<1>4. NoWait \in Wait /\ at \in {"asking", "queued"}
  BY <1>1, NoWaitOK DEF WaitOK
<1>5. /\ w \in Wait
      /\ w.kind = kind /\ w.asked = asked /\ w.time = time /\ w.at = at
      /\ w.seen = NoWait.seen /\ w.polled = NoWait.polled
  BY <1>2, <1>4 DEF Wait
<1>6. NoWait.seen = [fd \in Fds |-> {}] /\ NoWait.polled = [fd \in Fds |-> 0]
  BY DEF NoWait
<1>7. SeenAsked(w)
  BY <1>5, <1>6 DEF SeenAsked
<1>8. PolledMeant(w)
  BY <1>4, <1>5 DEF PolledMeant
<1>9. WokenFor(w)
  BY <1>1, <1>5 DEF WokenFor
<1>10. WaitOK(w)
  BY <1>4, <1>5, <1>7, <1>8, <1>9 DEF WaitOK
<1> QED BY <1>3, <1>10, StepOfOne

(* One event is one event.                                                 *)
LEMMA OneEvent ==
  ASSUME NEW S \in SUBSET Events, Cardinality(S) = 1
  PROVE  \A a, b \in S : a = b
<1>1. IsFiniteSet(Events)
  <2>1. Events = {"in"} \cup {"out"}
    BY DEF Events
  <2> QED BY <2>1, FS_Singleton, FS_Union
<1>2. IsFiniteSet(S)
  BY <1>1, FS_Subset
<1> QED BY <1>2, FS_Singleton

(* Every call that begins notes files that are open.                       *)
LEMMA CallsKept ==
  ASSUME SelectInv, SelectAssumption, NEW g \in Greenlets,
         Select(g) \/ Poll(g) \/ SelectorSelect(g) \/ Sleep(g)
  PROVE  SelectInv'
<1>1. FilesOK /\ 0 \notin Files
  BY SelectAssumption DEF SelectInv
<1>2. NoKey \in Key /\ NoKey.events = {}
  BY DEF NoKey, Key
<1>3. \A asked \in SomeFiles :
        asked \in [Fds -> Key] /\ \A fd \in Asked(asked) : asked[fd].file # 0
  <2>1. SUFFICES ASSUME NEW asked \in SomeFiles
                 PROVE  asked \in [Fds -> Key] /\ \A fd \in Asked(asked) : asked[fd].file # 0
    OBVIOUS
  <2>2. asked \in [Fds -> {NoKey} \cup [file : Files, events : (SUBSET Events) \ {{}}]]
    BY <2>1 DEF SomeFiles
  <2>3. [file : Files, events : (SUBSET Events) \ {{}}] \subseteq Key
    BY DEF Key
  <2>4. \A fd \in Asked(asked) : asked[fd] \in [file : Files, events : (SUBSET Events) \ {{}}]
    BY <1>2, <2>2 DEF Asked
  <2> QED BY <1>1, <1>2, <2>2, <2>3, <2>4
<1>4. CASE Select(g)
  <2>1. PICK asked \in SomeFiles, time \in {"none", "zero", "some"} :
          LET single == \E fd \in Fds : Asked(asked) = {fd} /\ Cardinality(asked[fd].events) = 1
          IN  Begins(g, IF single THEN "single" ELSE "multi", asked, time)
    BY <1>4 DEF Select
  <2>2. CASE \E fd \in Fds : Asked(asked) = {fd} /\ Cardinality(asked[fd].events) = 1
    <3>1. PICK fd \in Fds : Asked(asked) = {fd} /\ Cardinality(asked[fd].events) = 1
      BY <2>2
    <3>2. \A a, b \in asked[fd].events : a = b
      <4>1. asked[fd].events \subseteq Events
        BY <1>3 DEF Key
      <4> QED BY <3>1, <4>1, OneEvent
    <3>3. \A fe \in Fds \ {fd} : asked[fe].events = {}
      BY <3>1 DEF Asked
    <3>4. \A fe \in Fds : \A a, b \in asked[fe].events : a = b
      BY <3>2, <3>3
    <3> QED BY <1>3, <1>4, <2>1, <2>2, <3>4, BeginsKeeps DEF Select
  <2>3. CASE ~\E fd \in Fds : Asked(asked) = {fd} /\ Cardinality(asked[fd].events) = 1
    BY <1>3, <1>4, <2>1, <2>3, BeginsKeeps DEF Select
  <2> QED BY <2>2, <2>3
<1>5. CASE Poll(g)
  BY <1>3, <1>5, BeginsKeeps DEF Poll
<1>6. CASE SelectorSelect(g)
  <2>1. keys \in [Fds -> Key] /\ \A fd \in Asked(keys) : keys[fd].file # 0
    BY <1>1, <1>2 DEF FilesOK, Asked
  <2> QED BY <1>6, <2>1, BeginsKeeps DEF SelectorSelect
<1>7. CASE Sleep(g)
  <2>1. NoWait.asked = [fd \in Fds |-> NoKey]
    BY DEF NoWait
  <2>2. NoWait.asked \in [Fds -> Key] /\ Asked(NoWait.asked) = {}
    BY <1>2, <2>1 DEF Asked
  <2> QED BY <1>7, <2>2, BeginsKeeps DEF Sleep
<1> QED BY <1>4, <1>5, <1>6, <1>7

(* The hub submits the polls of the calls that are queued.                 *)
LEMMA SubmitKeeps ==
  ASSUME SelectInv, HubSubmits
  PROVE  SelectInv'
<1>1. wait \in [Greenlets -> Wait] /\ FilesOK /\ \A g \in Greenlets : WaitOK(wait[g])
  BY DEF SelectInv
<1>2. FilesOK' /\ UNCHANGED <<file, keys>>
  BY <1>1 DEF HubSubmits, FilesOK
<1>3. ASSUME NEW g \in Greenlets
      PROVE  wait'[g] \in Wait /\ WaitOK(wait[g])'
  <2>1. CASE wait[g].at # "queued"
    <3>1. wait'[g] = wait[g] /\ wait[g].at # "returned"
      BY <2>1 DEF HubSubmits
    <3>2. WaitOK(wait[g])
      BY <1>1
    <3> QED BY <1>2, <3>1, <3>2 DEF WaitOK, SeenAsked, PolledMeant, WokenFor
  <2>2. CASE wait[g].at = "queued"
    <3>1. PICK w \in Wait : w = wait[g]
      BY <1>1
    <3>2. PICK bad : bad = {fd \in Asked(w.asked) : file[fd] = 0}
      OBVIOUS
    <3>3. PICK p \in [Fds -> Files \cup {0}] :
            p = [fd \in Fds |-> IF fd \in Asked(w.asked) THEN file[fd] ELSE 0]
      BY <1>1 DEF FilesOK
    <3>4. PICK s \in [Fds -> Seen] : s = [fd \in Fds |-> IF fd \in bad THEN {"bad"} ELSE {}]
      BY DEF Seen
    <3>5. PICK at \in {"waiting", "woken"} : at = IF bad = {} THEN "waiting" ELSE "woken"
      OBVIOUS
    <3>6. PICK v : v = [w EXCEPT !.polled = p, !.seen = s, !.at = at]
      OBVIOUS
    <3>7. wait'[g] = v
      BY <2>2, <3>1, <3>2, <3>3, <3>4, <3>5, <3>6 DEF HubSubmits
    <3>8. /\ v \in Wait /\ v.polled = p /\ v.seen = s /\ v.at = at
          /\ v.kind = w.kind /\ v.asked = w.asked /\ v.time = w.time /\ v.expired = w.expired
      BY <3>6 DEF Wait
    <3>9. SeenAsked(w) /\ PolledMeant(w) /\ WokenFor(w) /\ w.at = "queued"
      BY <1>1, <2>2, <3>1 DEF WaitOK
    <3>10. SeenAsked(v)
      BY <3>2, <3>3, <3>4, <3>8, <3>9 DEF SeenAsked, Asked
    <3>11. PolledMeant(v)
      BY <3>3, <3>8, <3>9 DEF PolledMeant, Asked
    <3>12. WokenFor(v)
      <4>1. v.time # "zero"
        BY <3>8, <3>9 DEF WokenFor
      <4>2. v.at = "woken" => \E fd \in Fds : v.seen[fd] # {}
        BY <3>2, <3>4, <3>5, <3>8 DEF Asked
      <4> QED BY <3>5, <3>8, <4>1, <4>2 DEF WokenFor
    <3>13. v.at # "returned"
      BY <3>5, <3>8
    <3> QED BY <1>2, <3>7, <3>8, <3>10, <3>11, <3>12, <3>13
            DEF WaitOK, SeenAsked, PolledMeant, WokenFor
  <2> QED BY <2>1, <2>2
<1>4. wait' \in [Greenlets -> Wait]
  <2>1. PICK f : f = wait'
    OBVIOUS
  <2>2. DOMAIN wait' = Greenlets /\ wait' = [g \in Greenlets |-> wait'[g]]
    BY DEF HubSubmits
  <2> QED BY <1>3, <2>2
<1> QED BY <1>2, <1>3, <1>4 DEF SelectInv

(* A poll is over.                                                         *)
LEMMA PollEndsKeeps ==
  ASSUME SelectInv, NEW g \in Greenlets, NEW fd \in Fds, PollEnds(g, fd)
  PROVE  SelectInv'
<1>1. PICK w \in Wait : w = wait[g]
  BY DEF SelectInv
<1>2. SeenAsked(w) /\ PolledMeant(w) /\ WokenFor(w)
  BY <1>1 DEF SelectInv, WaitOK
<1>3. PICK revents \in (SUBSET (w.asked[fd].events \cup {"err"})) \ {{}} :
        wait' = [wait EXCEPT ![g].seen[fd] = revents, ![g].at = "woken"]
  BY <1>1 DEF PollEnds
<1>4. PICK v : v = [w EXCEPT !.seen[fd] = revents, !.at = "woken"]
  OBVIOUS
<1>5. wait' = [wait EXCEPT ![g] = v]
  BY <1>1, <1>3, <1>4 DEF SelectInv
<1>6. w.asked[fd].events \subseteq Events /\ revents \in Seen
  BY <1>3 DEF Wait, Key, Seen
<1>7. /\ v \in Wait /\ v.at = "woken" /\ v.seen = [w.seen EXCEPT ![fd] = revents]
      /\ v.kind = w.kind /\ v.asked = w.asked /\ v.polled = w.polled
      /\ v.time = w.time /\ v.expired = w.expired
  BY <1>4, <1>6 DEF Wait
<1>8. v.seen[fd] = revents /\ \A fe \in Fds \ {fd} : v.seen[fe] = w.seen[fe]
  BY <1>7 DEF Wait
<1>9. w.at \in {"waiting", "woken"} /\ w.polled[fd] # 0
  BY <1>1 DEF PollEnds
<1>10. SeenAsked(v)
  BY <1>2, <1>3, <1>7, <1>8, <1>9 DEF SeenAsked
<1>11. PolledMeant(v)
  BY <1>2, <1>7, <1>9 DEF PolledMeant
<1>12. WokenFor(v)
  <2>1. v.time # "zero"
    BY <1>2, <1>7, <1>9 DEF WokenFor
  <2>2. v.seen[fd] # {} /\ v.at = "woken"
    <3>1. revents # {}
      OBVIOUS
    <3>2. v.at = "woken"
      BY <1>7
    <3> QED BY <1>8, <3>1, <3>2
  <2>3. (\E fe \in Fds : v.seen[fe] # {}) /\ v.at # "asking"
    BY <2>2
  <2> QED BY <2>1, <2>3 DEF WokenFor
<1>13. WaitOK(v)
  BY <1>7, <1>10, <1>11, <1>12 DEF WaitOK
<1> QED BY <1>5, <1>13, StepOfOne DEF PollEnds

(* The timeout of a call passes.                                           *)
LEMMA TimesOutKeeps ==
  ASSUME SelectInv, NEW g \in Greenlets, TimesOut(g)
  PROVE  SelectInv'
<1>1. PICK w \in Wait : w = wait[g]
  BY DEF SelectInv
<1>2. SeenAsked(w) /\ PolledMeant(w) /\ WokenFor(w)
  BY <1>1 DEF SelectInv, WaitOK
<1>3. PICK v : v = [w EXCEPT !.expired = TRUE, !.at = "woken"]
  OBVIOUS
<1>4. wait' = [wait EXCEPT ![g] = v]
  BY <1>1, <1>3 DEF SelectInv, TimesOut
<1>5. /\ v \in Wait /\ v.at = "woken" /\ v.expired /\ v.seen = w.seen
      /\ v.kind = w.kind /\ v.asked = w.asked /\ v.polled = w.polled /\ v.time = w.time
  BY <1>3 DEF Wait
<1>6. w.at \in {"waiting", "woken"}
  BY <1>1 DEF TimesOut
<1>7. SeenAsked(v) /\ PolledMeant(v) /\ WokenFor(v)
  BY <1>2, <1>5, <1>6 DEF SeenAsked, PolledMeant, WokenFor
<1>8. WaitOK(v)
  BY <1>5, <1>7 DEF WaitOK
<1> QED BY <1>4, <1>8, StepOfOne DEF TimesOut

-----------------------------------------------------------------------------
(* What a call reports.                                                    *)

(* What is reported was seen, or is registered and goes with a hang-up.    *)
LEMMA ReportsSeen ==
  ASSUME FilesOK, NEW w \in Wait, SeenAsked(w)
  PROVE  /\ Reports(w) \in [Fds -> Seen]
         /\ \A fd \in Fds : \A e \in Reports(w)[fd] : e \in w.seen[fd] \/ "err" \in w.seen[fd]
         /\ w.kind = "selector" => \A fd \in Fds : Reports(w)[fd] \subseteq keys[fd].events
<1>1. /\ \A fd \in Fds : /\ w.asked[fd] \in Key /\ w.asked[fd].events \subseteq Events
                         /\ w.seen[fd] \subseteq Events \cup {"err", "bad"}
                         /\ keys[fd].events \subseteq Events
      /\ w.kind \in {"none", "single", "multi", "poll", "selector", "sleep"}
  BY DEF FilesOK, Wait, Key, Seen
<1>2. CASE w.kind = "single"
  <2>1. Reports(w) = ReportsSingle(w)
    BY <1>2 DEF Reports
  <2>2. \A fd \in Fds : \A e \in ReportsSingle(w)[fd] : e \in w.seen[fd] \/ "err" \in w.seen[fd]
    <3>1. SUFFICES ASSUME NEW fd \in Fds, NEW e \in ReportsSingle(w)[fd], "err" \notin w.seen[fd]
                   PROVE  e \in w.seen[fd]
      OBVIOUS
    <3>2. e \in w.asked[fd].events /\ Good(w.seen[fd]) # {}
      BY <3>1 DEF ReportsSingle
    <3>3. PICK a \in w.seen[fd] : a # "bad"
      BY <3>2 DEF Good
    <3>4. a \in w.asked[fd].events
      BY <3>1, <3>3 DEF SeenAsked
    <3> QED BY <1>2, <3>2, <3>3, <3>4 DEF SeenAsked
  <2>3. ReportsSingle(w) \in [Fds -> Seen]
    BY <1>1 DEF ReportsSingle, Seen
  <2> QED BY <1>2, <2>1, <2>2, <2>3
<1>3. CASE w.kind = "multi"
  <2>1. Reports(w) = ReportsMulti(w)
    BY <1>3 DEF Reports
  <2> QED BY <1>1, <1>3, <2>1 DEF ReportsMulti, Seen
<1>4. CASE w.kind = "selector"
  <2>1. Reports(w) = ReportsSelector(w)
    BY <1>4 DEF Reports
  <2> QED BY <1>1, <1>4, <2>1 DEF ReportsSelector, Seen
<1>5. CASE w.kind \notin {"single", "multi", "selector"}
  <2>1. Reports(w) = [fd \in Fds |-> Good(w.seen[fd])]
    BY <1>5 DEF Reports
  <2> QED BY <1>1, <1>5, <2>1 DEF Good, Seen
<1> QED BY <1>2, <1>3, <1>4, <1>5

(* A poll that came to something other than a failure is reported, with    *)
(* the exceptions NothingIsTimeout lists.                                  *)
LEMMA SeenReported ==
  ASSUME FilesOK, NEW w \in Wait, SeenAsked(w), NEW fd \in Fds,
         w.seen[fd] # {}, "bad" \notin w.seen[fd], Reports(w)[fd] = {}
  PROVE  \/ w.kind = "selector" /\ keys # w.asked
         \/ w.kind = "multi" /\ w.seen[fd] = {"err"} /\ w.asked[fd].events = {"out"}
<1>1. /\ w.seen[fd] \subseteq w.asked[fd].events \cup {"err"}
      /\ w.asked[fd].events # {} /\ w.asked[fd].events \subseteq Events
  BY DEF SeenAsked, Wait, Key
<1>2. Good(w.seen[fd]) # {}
  BY DEF Good
<1>3. w.kind # "single"
  BY <1>1, <1>2 DEF Reports, ReportsSingle
<1>4. CASE w.kind = "multi"
  <2>1. \A e \in w.asked[fd].events : ~(e \in w.seen[fd] \/ (e = "in" /\ "err" \in w.seen[fd]))
    <3>1. Reports(w) = ReportsMulti(w)
      BY <1>4 DEF Reports
    <3> QED BY <3>1 DEF ReportsMulti
  <2>2. w.seen[fd] = {"err"}
    BY <1>1, <2>1
  <2>3. w.asked[fd].events = {"out"}
    BY <1>1, <2>1, <2>2 DEF Events
  <2> QED BY <1>4, <2>2, <2>3
<1>5. CASE w.kind = "selector"
  <2>1. \A e \in keys[fd].events : ~(e \in w.seen[fd] \/ "err" \in w.seen[fd])
    <3>1. Reports(w) = ReportsSelector(w)
      BY <1>5 DEF Reports
    <3> QED BY <3>1 DEF ReportsSelector
  <2>2. keys # w.asked
    BY <1>1, <2>1
  <2> QED BY <1>5, <2>2
<1>6. CASE w.kind \notin {"single", "multi", "selector"}
  <2>1. Reports(w) = [fe \in Fds |-> Good(w.seen[fe])]
    BY <1>6 DEF Reports
  <2> QED BY <1>2, <2>1
<1> QED BY <1>3, <1>4, <1>5, <1>6

(* A call that was woken returns.                                          *)
LEMMA WakesKeeps ==
  ASSUME SelectInv, NEW g \in Greenlets, Wakes(g)
  PROVE  SelectInv'
<1>1. PICK w \in Wait : w = wait[g]
  BY DEF SelectInv
<1>2. SeenAsked(w) /\ PolledMeant(w) /\ WokenFor(w) /\ FilesOK /\ w.at = "woken"
  BY <1>1 DEF SelectInv, WaitOK, Wakes
<1>3. PICK r \in [Fds -> Seen] : r = Reports(w)
  BY <1>2, ReportsSeen
<1>4. PICK v : v = [w EXCEPT !.at = "returned", !.result = r]
  OBVIOUS
<1>5. wait' = [wait EXCEPT ![g] = v]
  BY <1>1, <1>3, <1>4 DEF SelectInv, Wakes
<1>6. /\ v \in Wait /\ v.at = "returned" /\ v.result = r /\ v.expired = w.expired
      /\ v.seen = w.seen /\ v.kind = w.kind /\ v.asked = w.asked
      /\ v.polled = w.polled /\ v.time = w.time
  BY <1>4 DEF Wait
<1>7. SeenAsked(v) /\ WokenFor(v)
  BY <1>2, <1>6 DEF SeenAsked, WokenFor
<1>8. PolledMeant(v)
  BY <1>2, <1>6 DEF PolledMeant
<1>9. ReportedTruly(v)
  <2>1. ASSUME NEW fd \in Fds, v.kind = "selector", v.result[fd] # {}
        PROVE  v.polled[fd] = keys[fd].file \/ keys[fd] # v.asked[fd]
    <3>1. keys[fd].events # {}
      BY <1>2, <1>3, <1>6, <2>1, ReportsSeen
    <3>2. keys[fd] # NoKey
      BY <3>1 DEF NoKey
    <3>3. file[fd] = keys[fd].file
      BY <1>2, <3>2 DEF FilesOK
    <3>4. keys[fd] = v.asked[fd] => fd \in Asked(v.asked)
      BY <3>1 DEF Asked
    <3>5. v.time # "zero"
      BY <1>2, <1>6 DEF WokenFor
    <3> QED BY <1>6, <1>8, <3>3, <3>4, <3>5 DEF PolledMeant
  <2> QED BY <1>2, <1>3, <1>6, <2>1, ReportsSeen DEF ReportedTruly
<1>10. NothingExplained(v)
  <2>1. SUFFICES ASSUME ~v.expired, \A fd \in Fds : "bad" \notin v.seen[fd],
                        \A fd \in Fds : v.result[fd] = {}
        PROVE  \/ v.kind = "selector" /\ keys # v.asked
               \/ /\ v.kind = "multi"
                  /\ \E fd \in Fds : v.seen[fd] = {"err"} /\ v.asked[fd].events = {"out"}
    BY DEF NothingExplained, NothingReported
  <2>2. PICK fd \in Fds : w.seen[fd] # {}
    BY <1>2, <1>6, <2>1 DEF WokenFor
  <2>3. "bad" \notin w.seen[fd] /\ Reports(w)[fd] = {}
    BY <1>3, <1>6, <2>1
  <2> QED BY <1>2, <1>6, <2>2, <2>3, SeenReported
<1>11. WaitOK(v)
  BY <1>6, <1>7, <1>8, <1>9, <1>10 DEF WaitOK
<1> QED BY <1>5, <1>11, StepOfOne DEF Wakes

(* A call that does not wait returns what the system tells.                *)
LEMMA AsksKeeps ==
  ASSUME SelectInv, NEW g \in Greenlets, Asks(g)
  PROVE  SelectInv'
<1>1. PICK w \in Wait : w = wait[g]
  BY DEF SelectInv
<1>2. SeenAsked(w) /\ PolledMeant(w) /\ WokenFor(w) /\ FilesOK /\ w.at = "asking"
  BY <1>1 DEF SelectInv, WaitOK, Asks
<1>3. PICK seen \in [Fds -> SUBSET (Events \cup {"err"})] :
        /\ \A fd \in Fds : seen[fd] \subseteq
              IF fd \in Asked(w.asked) THEN w.asked[fd].events \cup {"err"} ELSE {}
        /\ wait' = [wait EXCEPT ![g].at = "returned", ![g].seen = seen,
                                ![g].result = Reports([w EXCEPT !.seen = seen])]
  BY <1>1 DEF Asks
<1>4. seen \in [Fds -> Seen]
  BY DEF Seen
<1>5. PICK u : u = [w EXCEPT !.seen = seen]
  OBVIOUS
<1>6. /\ u \in Wait /\ u.seen = seen /\ u.kind = w.kind /\ u.asked = w.asked
      /\ u.polled = w.polled
  BY <1>4, <1>5 DEF Wait
<1>7. SeenAsked(u)
  BY <1>2, <1>3, <1>6 DEF SeenAsked, Asked
<1>8. PICK r \in [Fds -> Seen] : r = Reports(u)
  BY <1>2, <1>6, <1>7, ReportsSeen
<1>9. PICK v : v = [w EXCEPT !.at = "returned", !.seen = seen, !.result = r]
  OBVIOUS
<1>10. wait' = [wait EXCEPT ![g] = v]
  BY <1>1, <1>3, <1>5, <1>8, <1>9 DEF SelectInv
<1>11. /\ v \in Wait /\ v.at = "returned" /\ v.result = r /\ v.seen = seen
       /\ v.kind = w.kind /\ v.asked = w.asked /\ v.polled = w.polled /\ v.time = w.time
  BY <1>4, <1>9 DEF Wait
<1>12. SeenAsked(v)
  BY <1>6, <1>7, <1>11 DEF SeenAsked
<1>13. v.time # "zero" => Asked(v.asked) = {}
  BY <1>2, <1>11 DEF WokenFor
<1>14. PolledMeant(v) /\ WokenFor(v)
  BY <1>2, <1>11, <1>13 DEF PolledMeant, WokenFor
<1>15. ReportedTruly(v)
  <2>1. /\ \A fd \in Fds : \A e \in r[fd] : e \in seen[fd] \/ "err" \in seen[fd]
        /\ v.kind = "selector" => \A fd \in Fds : r[fd] \subseteq keys[fd].events
    BY <1>2, <1>6, <1>7, <1>8, <1>11, ReportsSeen
  <2>2. v.time # "zero" => \A fd \in Fds : r[fd] = {}
    <3>1. v.time # "zero" => \A fd \in Fds : seen[fd] = {}
      BY <1>3, <1>11, <1>13
    <3> QED BY <2>1, <3>1
  <2> QED BY <1>11, <2>1, <2>2 DEF ReportedTruly
<1>16. NothingExplained(v)
  BY <1>13 DEF NothingExplained, NothingReported
<1>17. WaitOK(v)
  BY <1>11, <1>12, <1>14, <1>15, <1>16 DEF WaitOK
<1> QED BY <1>10, <1>17, StepOfOne DEF Asks

(* The caller goes on.                                                     *)
LEMMA GoesOnKeeps ==
  ASSUME SelectInv, NEW g \in Greenlets, GoesOn(g)
  PROVE  SelectInv'
BY NoWaitOK, StepOfOne DEF GoesOn

-----------------------------------------------------------------------------
(* The theorems.                                                           *)

(* Nothing is open, registered or waited for at the start.                 *)
LEMMA InitKeeps == Init => SelectInv
<1> SUFFICES ASSUME Init PROVE SelectInv
  OBVIOUS
<1>1. FilesOK
  BY DEF Init, FilesOK, NoKey, Key
<1>2. wait \in [Greenlets -> Wait] /\ \A g \in Greenlets : WaitOK(wait[g])
  BY NoWaitOK DEF Init, WaitOK
<1> QED BY <1>1, <1>2 DEF SelectInv

(* Every step keeps the invariant.                                         *)
LEMMA NextKeeps == SelectInv /\ [Next]_vars => SelectInv'
<1> SUFFICES ASSUME SelectInv, [Next]_vars PROVE SelectInv'
  OBVIOUS
<1>1. CASE UNCHANGED vars
  <2>1. UNCHANGED <<file, keys, closed, wait>>
    BY <1>1 DEF vars
  <2>2. FilesOK'
    BY <2>1 DEF SelectInv, FilesOK
  <2>3. ASSUME NEW h \in Greenlets PROVE WaitOK(wait[h])'
    <3>1. WaitOK(wait[h])
      BY DEF SelectInv
    <3>2. SeenAsked(wait[h])' /\ WokenFor(wait[h])' /\ wait'[h] \in Wait
      BY <2>1, <3>1 DEF WaitOK, SeenAsked, WokenFor
    <3>3. PolledMeant(wait[h])'
      BY <2>1, <3>1 DEF WaitOK, PolledMeant
    <3>4. wait'[h].at = "returned" => ReportedTruly(wait[h])' /\ NothingExplained(wait[h])'
      BY <2>1, <3>1 DEF WaitOK, ReportedTruly, NothingExplained, NothingReported
    <3> QED BY <3>2, <3>3, <3>4 DEF WaitOK
  <2> QED BY <2>1, <2>2, <2>3 DEF SelectInv
<1>2. CASE Next
  BY <1>2, SelectAssumption, FilesKept, CallsKept, SubmitKeeps, PollEndsKeeps, TimesOutKeeps,
     WakesKeeps, AsksKeeps, GoesOnKeeps DEF Next
<1> QED BY <1>1, <1>2

(* The invariant holds for any greenlets, numbers and files.               *)
THEOREM SelectInvariant == Spec => []SelectInv
BY InitKeeps, NextKeeps, PTL DEF Spec

(* What a call reports came of its polls, and what a selector reports is   *)
(* registered when it returns, for the file that was polled.               *)
THEOREM AlwaysReportsTrue == Spec => []ReportsTrue
<1>1. SelectInv => ReportsTrue
  BY DEF SelectInv, WaitOK, ReportsTrue, Returned
<1> QED BY <1>1, SelectInvariant, PTL

(* A call that comes back with nothing has a reason other than that an     *)
(* event was lost.                                                         *)
THEOREM NothingAlwaysExplained == Spec => []NothingIsTimeout
<1>1. SelectInv => NothingIsTimeout
  BY DEF SelectInv, WaitOK, NothingIsTimeout, Returned
<1> QED BY <1>1, SelectInvariant, PTL
=============================================================================
