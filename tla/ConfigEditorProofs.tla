------------------------- MODULE ConfigEditorProofs -------------------------
(* Proofs about ConfigEditor for any devices, texts, bound on the commits and *)
(* budgets: what the editor, the stub of a new device and the history panel   *)
(* may rely on while requests are on their way.                               *)
EXTENDS ConfigEditor, SequenceTheorems, TLAPS

----------------------------------------------------------------------------
(* The inductive invariant. *)

Content == Texts \cup {None}
Saves == {"save", "validate", "close", "upgrade"}
Ops == Saves \cup {"load", "create", "delete", "restore", "commit", "flush", "committing"}

Req == [op : Ops, path : Paths, value : Content, stage : {"sent", "ok", "error"},
        inst : Nat, closes : Paths]
EditorState ==
  [inst : Nat, path : Paths \cup {None}, content : Content, buffer : Content, saved : Content,
   dirty : BOOLEAN, dlg : {"none", "confirm", "close", "upgrade", "busy"}, calm : BOOLEAN]
Settled == {"unset", "on", "off"}
Seen == [auto : BOOLEAN, git : Settled, targets : SUBSET Names, dirty : SUBSET Names]

\* What a request of each kind is about.
WellMade(r) ==
  /\ r.op \in Saves \cup {"create", "restore"} => r.value # None
  /\ r.op \in {"create", "delete"} => r.path = Staged(Name(r.path))
  /\ r.op \in {"restore", "commit", "flush", "committing"} => r.path = Final(Name(r.path))
  /\ r.inst <= editor.inst

FilesOK ==
  /\ disk \in [Paths -> Content]
  /\ log \in [Names -> Seq(Content)] /\ \A n \in Names : Len(log[n]) <= MaxCommits
  /\ git \in [enabled : Settled, repo : BOOLEAN]
  /\ auto \in BOOLEAN

PageOK ==
  /\ seen \in Seen /\ (seen.git # "unset" => git.enabled # "unset")
  /\ editor \in EditorState
  /\ unsaved \subseteq {Staged(n) : n \in Names}
  /\ reqs \subseteq Req /\ \A r \in reqs : WellMade(r)

\* The stub of a new device: marked as never saved, just created, or about to be removed.
SavedStaged(n) == \E r \in reqs : r.op \in Saves /\ r.stage = "ok" /\ r.path = Staged(n)
Created(n) == \E r \in reqs : r.op = "create" /\ r.stage = "ok" /\ r.path = Staged(n)
Going(n) == \E r \in reqs : r.op = "delete" /\ r.stage = "sent" /\ r.path = Staged(n)

StubOK ==
  \A n \in Names \ excused :
    /\ SavedStaged(n) => disk[Final(n)] # None /\ disk[Staged(n)] = None
    /\ disk[Staged(n)] # None => Staged(n) \in unsaved \/ Created(n) \/ Going(n)
    /\ Staged(n) \in unsaved => Open /\ editor.path = Staged(n)

\* The requests that can change a file or what the editor knows of it.
Telling(n) == {r \in About(n) : r.op \notin {"commit", "flush"}}
Effective(n) == IF disk[Final(n)] # None THEN disk[Final(n)] ELSE disk[Staged(n)]
Unsettling(r) == r.op = "load" \/ (r.op \in Saves \cup {"restore"} /\ r.stage = "ok")

\* What a request of the editor, or a version brought back, means for it.
Fits(r) ==
  LET n == Name(editor.path)
  IN /\ r.inst = editor.inst /\ r.op \in Saves \cup {"load", "committing", "restore"}
     /\ r.op \in Saves \cup {"load"} => r.path = editor.path
     /\ r.op = "restore" => editor.path = Final(n)
     /\ r.op = "load" /\ editor.path = Staged(n) => disk[Final(n)] = None
     /\ r.op = "load" /\ r.stage = "ok" => r.value = Effective(n)
     /\ r.op \in Saves /\ r.stage = "ok" => r.value = disk[Final(n)]
     /\ r.op = "committing" => r.value = disk[Final(n)] /\ r.value # None

CalmOK ==
  Open /\ editor.calm =>
    LET n == Name(editor.path)
    IN /\ \A r \in Telling(n) : Fits(r)
       /\ \A r, q \in Telling(n) : r = q
       /\ (\A r \in Telling(n) : ~Unsettling(r)) => editor.saved = Effective(n)
       /\ \A r \in reqs : r.op \in Saves \cup {"load", "committing"} /\ r.inst = editor.inst =>
            Name(r.path) = n

\* The history panel: how many renders are left to settle the pair.
Hist ==
  [file : Names, link : {0, Elsewhere} \cup 1..MaxCommits, entries : -1..MaxCommits,
   from : 0..Elsewhere, to : 1..Elsewhere, due : SUBSET {"swap", "preset"}, rounds : 0..3]

Shown(h) == Known(h, hist.entries) \/ h = WORKING_TREE
Swapped == hist.from = 0 \/ ~newer(hist.from, hist.to, hist.entries)

HistOK ==
  hist # NoHist =>
    /\ hist \in Hist /\ git.enabled # "unset"
    /\ hist.entries <= Len(log[hist.file])
    /\ hist.due # {} => hist.rounds <= 2
    /\ "preset" \in hist.due => "swap" \in hist.due /\ hist.rounds = 0
    /\ hist.due = {} \/ hist.rounds = 2 => Swapped
    /\ "preset" \notin hist.due =>
         IF hist.entries > 0 THEN Shown(hist.from) /\ Shown(hist.to)
         ELSE hist.to = WORKING_TREE

EInv == FilesOK /\ PageOK /\ StubOK /\ CalmOK /\ HistOK

----------------------------------------------------------------------------
(* Paths and files. *)

LEMMA PathFacts ==
  /\ None \notin Paths
  /\ \A n \in Names : /\ Staged(n) \in Paths /\ Final(n) \in Paths
                      /\ Name(Staged(n)) = n /\ Name(Final(n)) = n
  /\ \A p \in Paths : Name(p) \in Names /\ p \in {Staged(Name(p)), Final(Name(p))}
  /\ \A n, m : Staged(n) # Final(m)
  BY EditorAssumption DEF Paths, Staged, Final, Name

LEMMA TextFacts == None \in Content /\ Texts \subseteq Content /\ None \notin Texts /\ Stub \in Texts
  BY EditorAssumption DEF Content

\* A commit makes the history of its file longer by what was committed, if anything.
LEMMA Commits ==
  ASSUME FilesOK, NEW n \in Names, NEW text \in Content
  PROVE  /\ Committed(n, text) \in [Names -> Seq(Content)]
         /\ \A m \in Names : /\ Len(Committed(n, text)[m]) <= MaxCommits
                             /\ Len(log[m]) <= Len(Committed(n, text)[m])
         /\ Versioned /\ text # None =>
              \/ Len(log[n]) = MaxCommits
              \/ Committed(n, text)[n] # <<>> /\ Last(Committed(n, text)[n]) = text
<1> DEFINE s == log[n]
           c == Committed(n, text)
<1>1. s \in Seq(Content) /\ Len(s) \in Nat /\ Len(s) <= MaxCommits /\ MaxCommits \in Nat
      /\ \A m \in Names : log[m] \in Seq(Content) /\ Len(log[m]) \in Nat
  BY EditorAssumption, LenProperties DEF FilesOK
<1>2. CASE Versioned /\ text # HEAD(n) /\ Len(s) < MaxCommits
  <2>1. c = [log EXCEPT ![n] = Append(s, text)]
    BY <1>2 DEF Committed
  <2>2. /\ Append(s, text) \in Seq(Content) /\ Len(Append(s, text)) = Len(s) + 1
        /\ Append(s, text)[Len(s) + 1] = text
    BY <1>1, AppendProperties
  <2>3. Append(s, text) # <<>> /\ Last(Append(s, text)) = text
    BY <1>1, <2>2, EmptySeq DEF Last
  <2>4. /\ c \in [Names -> Seq(Content)] /\ c[n] = Append(s, text)
        /\ \A m \in Names : m # n => c[m] = log[m]
    BY <2>1, <2>2 DEF FilesOK
  <2> HIDE DEF s, c
  <2>5. \A m \in Names : Len(c[m]) <= MaxCommits /\ Len(log[m]) <= Len(c[m])
    <3> SUFFICES ASSUME NEW m \in Names
                 PROVE  Len(c[m]) <= MaxCommits /\ Len(log[m]) <= Len(c[m])
      OBVIOUS
    <3>1. CASE m = n
      BY <1>1, <1>2, <2>2, <2>4, <3>1 DEF s
    <3>2. CASE m # n
      BY <1>1, <2>4, <3>2 DEF FilesOK
    <3> QED
      BY <3>1, <3>2
  <2> QED
    BY <2>3, <2>4, <2>5 DEF c
<1>3. CASE ~(Versioned /\ text # HEAD(n) /\ Len(s) < MaxCommits)
  <2>1. c = log
    BY <1>3 DEF Committed
  <2>2. Versioned /\ text # None /\ Len(s) # MaxCommits => s # <<>> /\ Last(s) = text
    BY <1>1, <1>3 DEF HEAD
  <2> HIDE DEF s, c
  <2>3. \A m \in Names : Len(log[m]) <= MaxCommits /\ Len(log[m]) <= Len(log[m])
    BY <1>1 DEF FilesOK
  <2> QED
    BY <2>1, <2>2, <2>3 DEF FilesOK, s, c
<1> QED
  BY <1>2, <1>3

\* What a step may do to the files, for the panel that shows a history.
LogStep == \A m \in Names : Len(log[m]) <= Len(log'[m])

LEMMA LogSame == FilesOK /\ UNCHANGED log => LogStep
<1>1. FilesOK => \A m \in Names : Len(log[m]) \in Nat
  BY LenProperties DEF FilesOK
<1> QED
  BY <1>1 DEF LogStep

\* A request answered by the server: what becomes of it and of the files.
LEMMA Served ==
  ASSUME FilesOK, PageOK, NEW r \in reqs, Serve(r)
  PROVE  /\ FilesOK' /\ LogStep
         /\ \E a \in Req :
              /\ reqs' = (reqs \ {r}) \cup {a}
              /\ a.op = r.op /\ a.path = r.path /\ a.inst = r.inst
              /\ r.op # "load" => a.value = r.value
              /\ \/ a.stage = "error" /\ UNCHANGED disk /\ Refused(r)
                 \/ /\ a.stage = "ok" /\ UNCHANGED disk /\ ~Refused(r)
                    /\ r.op \in {"load", "commit", "committing", "flush"}
                    /\ r.op = "load" => a.value = disk[r.path]
                 \/ a.stage = "ok" /\ ~Refused(r) /\ r.op \in Saves /\ disk' = SaveOnServer(r)
                 \/ /\ a.stage = "ok" /\ ~Refused(r) /\ r.op = "create"
                    /\ disk' = [disk EXCEPT ![r.path] = r.value]
                 \/ /\ a.stage = "ok" /\ ~Refused(r) /\ r.op = "delete"
                    /\ disk' = [disk EXCEPT ![r.path] = None]
                 \/ /\ a.stage = "ok" /\ ~Refused(r) /\ r.op = "restore"
                    /\ disk' = [disk EXCEPT ![r.path] = r.value]
<1> DEFINE n == Name(r.path)
           OK == [r EXCEPT !.stage = "ok"]
           Err == [r EXCEPT !.stage = "error"]
           Read == [OK EXCEPT !.value = disk[r.path]]
<1>1. r \in Req /\ n \in Names /\ r.path \in Paths /\ r.value \in Content
  BY PathFacts DEF PageOK, Req
<1>2. disk \in [Paths -> Content] /\ disk[r.path] \in Content
  BY <1>1 DEF FilesOK
<1>3. /\ OK \in Req /\ OK.op = r.op /\ OK.path = r.path /\ OK.inst = r.inst
      /\ OK.value = r.value /\ OK.stage = "ok"
  BY <1>1 DEF Req
<1>4. /\ Err \in Req /\ Err.op = r.op /\ Err.path = r.path /\ Err.inst = r.inst
      /\ Err.value = r.value /\ Err.stage = "error"
  BY <1>1 DEF Req
<1>5. /\ Read \in Req /\ Read.op = r.op /\ Read.path = r.path /\ Read.inst = r.inst
      /\ Read.value = disk[r.path] /\ Read.stage = "ok"
  BY <1>1, <1>2, <1>3 DEF Req
<1>6. UNCHANGED <<auto, git>>
  BY DEF Serve
<1>7. SaveOnServer(r) \in [Paths -> Content]
  BY <1>1, <1>2, PathFacts, TextFacts DEF SaveOnServer
<1>8. ASSUME disk' \in [Paths -> Content],
             \/ UNCHANGED log
             \/ \E text \in Content : log' = Committed(n, text)
      PROVE  FilesOK' /\ LogStep
  <2>1. CASE UNCHANGED log
    BY <1>6, <1>8, <2>1, LogSame DEF FilesOK
  <2>2. ASSUME NEW text \in Content, log' = Committed(n, text)
        PROVE  FilesOK' /\ LogStep
    <3>1. /\ log' \in [Names -> Seq(Content)]
          /\ \A m \in Names : Len(log'[m]) <= MaxCommits /\ Len(log[m]) <= Len(log'[m])
      BY <1>1, <2>2, Commits
    <3> QED
      BY <1>6, <1>8, <3>1 DEF FilesOK, LogStep
  <2> QED
    BY <1>8, <2>1, <2>2
<1> HIDE DEF OK, Err, Read
<1>9. CASE Refused(r) /\ reqs' = (reqs \ {r}) \cup {Err} /\ UNCHANGED <<disk, log>>
  BY <1>2, <1>4, <1>8, <1>9
<1>10. CASE ~Refused(r) /\ r.op = "load" /\ reqs' = (reqs \ {r}) \cup {Read} /\ UNCHANGED <<disk, log>>
  BY <1>2, <1>5, <1>8, <1>10
<1>11. CASE ~Refused(r) /\ r.op \in Saves /\ disk' = SaveOnServer(r)
            /\ reqs' = (reqs \ {r}) \cup {OK} /\ UNCHANGED log
  BY <1>3, <1>7, <1>8, <1>11
<1>12. CASE /\ ~Refused(r) /\ r.op \in {"commit", "committing", "flush"}
            /\ log' = IF r.path = Final(n) THEN Committed(n, disk[r.path]) ELSE log
            /\ reqs' = (reqs \ {r}) \cup {OK} /\ UNCHANGED disk
  BY <1>2, <1>3, <1>8, <1>12
<1>13. CASE ~Refused(r) /\ r.op = "create" /\ disk' = [disk EXCEPT ![r.path] = r.value]
            /\ reqs' = (reqs \ {r}) \cup {OK} /\ UNCHANGED log
  BY <1>1, <1>2, <1>3, <1>8, <1>13
<1>14. CASE ~Refused(r) /\ r.op = "delete" /\ disk' = [disk EXCEPT ![r.path] = None]
            /\ reqs' = (reqs \ {r}) \cup {OK} /\ UNCHANGED log
  BY <1>1, <1>2, <1>3, <1>8, <1>14, TextFacts
<1>15. CASE /\ ~Refused(r) /\ r.op = "restore" /\ disk' = [disk EXCEPT ![r.path] = r.value]
            /\ log' = IF auto THEN Committed(n, r.value) ELSE log
            /\ reqs' = (reqs \ {r}) \cup {OK}
  BY <1>1, <1>2, <1>3, <1>8, <1>15
<1> QED
  BY <1>9, <1>10, <1>11, <1>12, <1>13, <1>14, <1>15 DEF Serve, Saves, OK, Err, Read

----------------------------------------------------------------------------
(* Frames: what a step must leave alone. *)

\* The requests the stubs of new devices depend on.
Weighty(R) == {r \in R : \/ r.op \in Saves /\ r.stage = "ok"
                         \/ r.op = "create" /\ r.stage = "ok"
                         \/ r.op = "delete" /\ r.stage = "sent"}

LEMMA WeightySame ==
  ASSUME Weighty(reqs') = Weighty(reqs), NEW n
  PROVE  /\ SavedStaged(n)' <=> SavedStaged(n)
         /\ Created(n)' <=> Created(n)
         /\ Going(n)' <=> Going(n)
<1>1. \A r : r.op \in Saves /\ r.stage = "ok" => (r \in reqs' <=> r \in reqs)
  BY DEF Weighty
<1>2. \A r : r.op = "create" /\ r.stage = "ok" => (r \in reqs' <=> r \in reqs)
  BY DEF Weighty
<1>3. \A r : r.op = "delete" /\ r.stage = "sent" => (r \in reqs' <=> r \in reqs)
  BY DEF Weighty
<1> QED
  BY <1>1, <1>2, <1>3 DEF SavedStaged, Created, Going

LEMMA StubStays ==
  ASSUME StubOK, Weighty(reqs') = Weighty(reqs), UNCHANGED <<disk, unsaved, excused>>,
         Open => editor'.path = editor.path
  PROVE  StubOK'
<1> SUFFICES ASSUME NEW n \in Names \ excused
             PROVE  /\ SavedStaged(n)' => disk[Final(n)] # None /\ disk[Staged(n)] = None
                    /\ disk[Staged(n)] # None => Staged(n) \in unsaved \/ Created(n)' \/ Going(n)'
                    /\ Staged(n) \in unsaved => Open' /\ editor'.path = Staged(n)
  BY DEF StubOK
<1>1. /\ SavedStaged(n)' <=> SavedStaged(n)
      /\ Created(n)' <=> Created(n)
      /\ Going(n)' <=> Going(n)
  BY WeightySame
<1> QED
  BY <1>1 DEF StubOK, Open

\* The editor as far as calm is concerned.
LEMMA CalmStays ==
  ASSUME CalmOK, UNCHANGED disk, editor'.path = editor.path, editor'.inst = editor.inst,
         editor'.saved = editor.saved, editor'.calm => editor.calm,
         Open /\ editor'.calm => Telling(Name(editor.path))' = Telling(Name(editor.path)),
         Open /\ editor'.calm =>
           \A r \in reqs' \ reqs : r.op \in Saves \cup {"load", "committing"} /\ r.inst = editor.inst =>
                                     Name(r.path) = Name(editor.path)
  PROVE  CalmOK'
<1> SUFFICES ASSUME Open, editor'.calm
             PROVE  CalmOK'
  BY DEF CalmOK, Open
<1>1. PICK n : n = Name(editor.path)
  OBVIOUS
<1>2. /\ \A r \in Telling(n) : Fits(r)
      /\ \A r, q \in Telling(n) : r = q
      /\ (\A r \in Telling(n) : ~Unsettling(r)) => editor.saved = Effective(n)
      /\ \A r \in reqs : r.op \in Saves \cup {"load", "committing"} /\ r.inst = editor.inst =>
           Name(r.path) = n
  BY <1>1 DEF CalmOK
<1>3. Telling(n)' = Telling(n) /\ Effective(n)' = Effective(n)
  BY <1>1 DEF Effective
<1>4. \A r : Fits(r) => Fits(r)'
  BY <1>1, <1>3 DEF Fits
<1>5. \A r \in reqs' : r.op \in Saves \cup {"load", "committing"} /\ r.inst = editor'.inst => Name(r.path) = n
  BY <1>1, <1>2
<1> QED
  BY <1>1, <1>2, <1>3, <1>4, <1>5 DEF CalmOK

LEMMA CalmClosed == editor'.path = None => CalmOK'
  BY DEF CalmOK, Open

LEMMA CalmOff == ~editor'.calm => CalmOK'
  BY DEF CalmOK

LEMMA HistStays ==
  ASSUME HistOK, FilesOK, FilesOK', UNCHANGED hist, LogStep, git.enabled # "unset" => git'.enabled # "unset"
  PROVE  HistOK'
<1>1. \A m \in Names : Len(log[m]) \in Nat /\ Len(log'[m]) \in Nat
  BY LenProperties DEF FilesOK
<1>2. hist # NoHist => hist.file \in Names /\ hist.entries \in Int
  BY EditorAssumption DEF HistOK, Hist
<1>3. hist # NoHist => hist.entries <= Len(log'[hist.file])
  BY <1>1, <1>2 DEF HistOK, LogStep
<1> QED
  BY <1>3 DEF HistOK, Shown, Swapped

\* A step that touches neither the files nor the panel.
LEMMA Beyond ==
  ASSUME EInv, UNCHANGED <<files, hist>>
  PROVE  FilesOK' /\ HistOK'
<1>1. UNCHANGED <<disk, log, timer, auto, git>> /\ FilesOK /\ HistOK
  BY DEF files, EInv
<1>2. FilesOK'
  BY <1>1 DEF FilesOK
<1> QED
  BY <1>1, <1>2, LogSame, HistStays

----------------------------------------------------------------------------
(* A request reaches the server. *)

LEMMA ServeStep ==
  ASSUME EInv, NEW r \in reqs, Serve(r)
  PROVE  EInv'
<1>0. FilesOK /\ PageOK /\ StubOK /\ CalmOK /\ HistOK /\ r.stage = "sent"
      /\ UNCHANGED <<auto, git, seen, editor, unsaved, hist, ask, excused>>
  BY DEF EInv, Serve
<1>1. FilesOK' /\ LogStep
  BY <1>0, Served
<1>2. PICK a \in Req :
        /\ reqs' = (reqs \ {r}) \cup {a}
        /\ a.op = r.op /\ a.path = r.path /\ a.inst = r.inst
        /\ r.op # "load" => a.value = r.value
        /\ \/ a.stage = "error" /\ UNCHANGED disk /\ Refused(r)
           \/ /\ a.stage = "ok" /\ UNCHANGED disk /\ ~Refused(r)
              /\ r.op \in {"load", "commit", "committing", "flush"}
              /\ r.op = "load" => a.value = disk[r.path]
           \/ a.stage = "ok" /\ ~Refused(r) /\ r.op \in Saves /\ disk' = SaveOnServer(r)
           \/ /\ a.stage = "ok" /\ ~Refused(r) /\ r.op = "create"
              /\ disk' = [disk EXCEPT ![r.path] = r.value]
           \/ /\ a.stage = "ok" /\ ~Refused(r) /\ r.op = "delete"
              /\ disk' = [disk EXCEPT ![r.path] = None]
           \/ /\ a.stage = "ok" /\ ~Refused(r) /\ r.op = "restore"
              /\ disk' = [disk EXCEPT ![r.path] = r.value]
  BY <1>0, Served
<1>3. r \in Req /\ r.op \in Ops /\ r.path \in Paths /\ WellMade(r) /\ a.stage # "sent"
  BY <1>0, <1>2 DEF PageOK, Req
<1>4. PICK m \in Names : m = Name(r.path)
  BY <1>3, PathFacts
<1>5. HistOK'
  BY <1>0, <1>1, HistStays
<1>6. PageOK'
  <2>1. WellMade(a)
    BY <1>2, <1>3 DEF WellMade, Saves
  <2>2. \A q : WellMade(q) => WellMade(q)'
    BY <1>0 DEF WellMade
  <2> QED
    BY <1>0, <1>2, <2>1, <2>2 DEF PageOK
\* What becomes of the files of the device, by kind of request.
<1>7. /\ disk'[Final(m)] = IF a.stage = "ok" /\ r.op \in Saves THEN r.value
                           ELSE IF a.stage = "ok" /\ r.op = "restore" THEN r.value
                           ELSE disk[Final(m)]
      /\ disk'[Staged(m)] = IF a.stage = "ok" /\ r.op \in Saves /\ r.path = Staged(m) THEN None
                            ELSE IF a.stage = "ok" /\ r.op = "create" THEN r.value
                            ELSE IF a.stage = "ok" /\ r.op = "delete" THEN None
                            ELSE disk[Staged(m)]
      /\ \A n \in Names : n # m => disk'[Final(n)] = disk[Final(n)] /\ disk'[Staged(n)] = disk[Staged(n)]
  <2>1. /\ DOMAIN disk = Paths /\ r.path \in {Staged(m), Final(m)}
        /\ r.op = "create" \/ r.op = "delete" => r.path = Staged(m)
        /\ r.op = "restore" => r.path = Final(m)
    BY <1>0, <1>3, <1>4, PathFacts DEF FilesOK, WellMade
  <2>2. \A n \in Names : n # m => Staged(n) # Staged(m) /\ Final(n) # Final(m)
    BY PathFacts
  <2>3. CASE UNCHANGED disk /\ (a.stage = "error" \/ r.op \in {"load", "commit", "committing", "flush"})
    BY <2>3 DEF Saves
  <2>4. CASE a.stage = "ok" /\ r.op \in Saves /\ disk' = SaveOnServer(r)
    BY <1>4, <2>1, <2>2, <2>4, PathFacts DEF SaveOnServer, Saves
  <2>5. CASE a.stage = "ok" /\ r.op = "create" /\ disk' = [disk EXCEPT ![r.path] = r.value]
    BY <2>1, <2>2, <2>5, PathFacts DEF Saves
  <2>6. CASE a.stage = "ok" /\ r.op = "delete" /\ disk' = [disk EXCEPT ![r.path] = None]
    BY <2>1, <2>2, <2>6, PathFacts DEF Saves
  <2>7. CASE a.stage = "ok" /\ r.op = "restore" /\ disk' = [disk EXCEPT ![r.path] = r.value]
    BY <2>1, <2>2, <2>7, PathFacts DEF Saves
  <2> QED
    BY <1>2, <2>3, <2>4, <2>5, <2>6, <2>7
<1>8. StubOK'
  <2> SUFFICES ASSUME NEW n \in Names \ excused
               PROVE  /\ SavedStaged(n)' => disk'[Final(n)] # None /\ disk'[Staged(n)] = None
                      /\ disk'[Staged(n)] # None => Staged(n) \in unsaved \/ Created(n)' \/ Going(n)'
                      /\ Staged(n) \in unsaved => Open' /\ editor'.path = Staged(n)
    BY <1>0 DEF StubOK
  <2>1. /\ SavedStaged(n) => disk[Final(n)] # None /\ disk[Staged(n)] = None
        /\ disk[Staged(n)] # None => Staged(n) \in unsaved \/ Created(n) \/ Going(n)
        /\ Staged(n) \in unsaved => Open' /\ editor'.path = Staged(n)
    BY <1>0 DEF StubOK, Open
  <2>2. SavedStaged(n)' =>
          SavedStaged(n) \/ (n = m /\ a.op \in Saves /\ a.stage = "ok" /\ a.path = Staged(m))
    BY <1>2, <1>4, PathFacts DEF SavedStaged
  <2>3. Created(n) => Created(n)'
    BY <1>0, <1>2 DEF Created
  <2>4. Going(n) => Going(n)' \/ (n = m /\ r.op = "delete")
    BY <1>2, <1>4, PathFacts DEF Going
  <2>5. CASE n # m
    BY <1>7, <2>1, <2>2, <2>3, <2>4, <2>5
  <2>6. CASE n = m /\ a.stage = "ok" /\ r.op \in Saves
    <3>1. r.value # None
      BY <1>3, <2>6 DEF WellMade
    <3>2. disk'[Final(m)] # None
      BY <1>7, <2>6, <3>1
    <3>3. disk'[Staged(m)] = IF r.path = Staged(m) THEN None ELSE disk[Staged(m)]
      BY <1>7, <2>6 DEF Saves
    <3>4. r.op # "delete"
      BY <2>6 DEF Saves
    <3> QED
      BY <1>2, <2>1, <2>2, <2>3, <2>4, <2>6, <3>2, <3>3, <3>4
  <2>7. CASE n = m /\ a.stage = "ok" /\ r.op = "create"
    <3>1. disk[Final(m)] = None
      BY <1>2, <1>4, <2>7 DEF Refused, Saves
    <3>2. Created(m)'
      BY <1>2, <1>3, <1>4, <2>7 DEF Created, WellMade
    <3>3. ~SavedStaged(n)'
      BY <1>2, <2>1, <2>2, <2>7, <3>1 DEF Saves
    <3> QED
      BY <2>1, <2>7, <3>2, <3>3
  <2>8. CASE n = m /\ r.op = "delete"
    <3>1. r.path = Staged(m)
      BY <1>3, <1>4, <2>8 DEF WellMade
    <3>2. disk'[Staged(m)] = None /\ disk'[Final(m)] = disk[Final(m)]
      <4>1. CASE a.stage = "ok"
        BY <1>7, <2>8, <4>1 DEF Saves
      <4>2. CASE a.stage # "ok"
        BY <1>2, <1>7, <2>8, <3>1, <4>2 DEF Refused
      <4> QED
        BY <4>1, <4>2
    <3> QED
      BY <1>2, <2>1, <2>2, <2>8, <3>2 DEF Saves
  <2>9. CASE n = m /\ a.stage = "ok" /\ r.op = "restore"
    <3>1. r.value # None
      BY <1>3, <2>9 DEF WellMade
    <3>2. disk'[Final(m)] # None /\ disk'[Staged(m)] = disk[Staged(m)]
      BY <1>7, <2>9, <3>1 DEF Saves
    <3> QED
      BY <1>2, <2>1, <2>2, <2>3, <2>4, <2>9, <3>2 DEF Saves
  <2>10. CASE n = m /\ UNCHANGED disk /\ r.op # "delete" /\ (a.stage # "ok" \/ r.op \notin Saves)
    BY <1>2, <2>1, <2>2, <2>3, <2>4, <2>10
  <2> QED
    BY <1>2, <2>5, <2>6, <2>7, <2>8, <2>9, <2>10 DEF Saves
<1>9. CalmOK'
  <2> SUFFICES ASSUME Open, editor.calm
               PROVE  CalmOK'
    BY <1>0 DEF CalmOK, Open
  <2>1. PICK n \in Names : n = Name(editor.path)
    BY <1>0, PathFacts DEF PageOK, EditorState, Open
  <2>2. /\ \A q \in Telling(n) : Fits(q)
        /\ \A q, k \in Telling(n) : q = k
        /\ (\A q \in Telling(n) : ~Unsettling(q)) => editor.saved = Effective(n)
        /\ \A q \in reqs : q.op \in Saves \cup {"load", "committing"} /\ q.inst = editor.inst =>
             Name(q.path) = n
    BY <1>0, <2>1 DEF CalmOK
  <2>3. \A q \in reqs' : q.op \in Saves \cup {"load", "committing"} /\ q.inst = editor'.inst =>
          Name(q.path) = n
    BY <1>0, <1>2, <2>2
  <2>4. CASE m # n
    <3>1. Telling(n)' = Telling(n)
      BY <1>2, <1>4, <2>4 DEF Telling, About
    <3>2. disk'[Final(n)] = disk[Final(n)] /\ disk'[Staged(n)] = disk[Staged(n)]
      BY <1>7, <2>4
    <3>3. Effective(n)' = Effective(n)
      BY <3>2 DEF Effective
    <3>4. \A q : Fits(q) => Fits(q)'
      BY <1>0, <2>1, <3>2, <3>3 DEF Fits
    <3> QED
      BY <1>0, <2>1, <2>2, <2>3, <3>1, <3>3, <3>4 DEF CalmOK
  <2>5. CASE m = n /\ r.op \in {"commit", "flush"}
    <3>1. Telling(n)' = Telling(n)
      BY <1>2, <2>5 DEF Telling, About
    <3>2. disk'[Final(n)] = disk[Final(n)] /\ disk'[Staged(n)] = disk[Staged(n)]
      BY <1>7, <2>5 DEF Saves
    <3>3. Effective(n)' = Effective(n)
      BY <3>2 DEF Effective
    <3>4. \A q : Fits(q) => Fits(q)'
      BY <1>0, <2>1, <3>2, <3>3 DEF Fits
    <3> QED
      BY <1>0, <2>1, <2>2, <2>3, <3>1, <3>3, <3>4 DEF CalmOK
  <2>6. CASE m = n /\ r.op \notin {"commit", "flush"}
    <3>1. r \in Telling(n)
      BY <1>4, <2>6 DEF Telling, About
    <3>2. Telling(n)' = {a}
      <4>1. \A q : q \in Telling(n)' => q = a \/ (q \in Telling(n) /\ q # r)
        BY <1>2 DEF Telling, About
      <4>2. a \in Telling(n)'
        BY <1>2, <1>4, <2>6 DEF Telling, About
      <4> QED
        BY <2>2, <3>1, <4>1, <4>2
    <3>3. Fits(r) /\ (~Unsettling(r) => editor.saved = Effective(n))
      BY <2>2, <3>1
    <3>4. Fits(a)' /\ (~Unsettling(a) => editor.saved = Effective(n)')
      <4>1. /\ a.inst = editor'.inst /\ a.op \in Saves \cup {"load", "committing", "restore"}
            /\ a.op \in Saves \cup {"load"} => a.path = editor'.path
            /\ a.op = "restore" => editor'.path = Final(n)
        BY <1>0, <1>2, <2>1, <3>3 DEF Fits
      <4>2. CASE r.op = "load"
        <5>1. disk'[Final(n)] = disk[Final(n)] /\ disk'[Staged(n)] = disk[Staged(n)]
          BY <1>7, <2>6, <4>2 DEF Saves
        <5>2. Effective(n)' = Effective(n) /\ Unsettling(a)
          BY <1>2, <4>2, <5>1 DEF Effective, Unsettling
        <5>3. editor.path = Staged(n) => disk[Final(n)] = None
          BY <2>1, <3>3, <4>2 DEF Fits
        <5>4. a.stage = "ok" => a.value = Effective(n)
          <6>1. r.path = editor.path /\ r.path \in {Staged(n), Final(n)}
            BY <1>3, <1>4, <2>6, <3>3, <4>2, PathFacts DEF Fits
          <6>2. a.stage = "ok" => a.value = disk[r.path] /\ disk[r.path] # None
            BY <1>2, <4>2 DEF Refused, Saves
          <6> QED
            BY <5>3, <6>1, <6>2 DEF Effective
        <5> QED
          BY <1>0, <1>2, <2>1, <4>1, <4>2, <5>1, <5>2, <5>3, <5>4 DEF Fits, Saves
      <4>3. CASE r.op \in Saves
        <5>1. CASE a.stage = "ok"
          <6>1. disk'[Final(n)] = a.value /\ Unsettling(a)
            BY <1>2, <1>7, <2>6, <4>3, <5>1 DEF Unsettling, Saves
          <6> QED
            BY <1>0, <1>2, <2>1, <4>1, <4>3, <5>1, <6>1 DEF Fits, Saves
        <5>2. CASE a.stage # "ok"
          <6>1. disk'[Final(n)] = disk[Final(n)] /\ disk'[Staged(n)] = disk[Staged(n)]
            BY <1>7, <2>6, <4>3, <5>2
          <6>2. Effective(n)' = Effective(n) /\ ~Unsettling(r)
            BY <1>0, <4>3, <6>1 DEF Effective, Unsettling, Saves
          <6> QED
            BY <1>2, <2>1, <3>3, <4>1, <4>3, <5>2, <6>2 DEF Fits, Saves
        <5> QED
          BY <5>1, <5>2
      <4>4. CASE r.op = "committing"
        <5>1. disk'[Final(n)] = disk[Final(n)] /\ disk'[Staged(n)] = disk[Staged(n)]
          BY <1>7, <2>6, <4>4 DEF Saves
        <5>2. Effective(n)' = Effective(n) /\ ~Unsettling(r)
          BY <4>4, <5>1 DEF Effective, Unsettling, Saves
        <5> QED
          BY <1>0, <1>2, <2>1, <3>3, <4>1, <4>4, <5>1, <5>2 DEF Fits, Saves
      <4>5. CASE r.op = "restore"
        <5>1. CASE a.stage = "ok"
          BY <1>0, <1>2, <2>1, <4>1, <4>5, <5>1 DEF Fits, Saves, Unsettling
        <5>2. CASE a.stage # "ok"
          <6>1. disk'[Final(n)] = disk[Final(n)] /\ disk'[Staged(n)] = disk[Staged(n)]
            BY <1>7, <2>6, <4>5, <5>2
          <6>2. Effective(n)' = Effective(n) /\ ~Unsettling(r)
            BY <1>0, <4>5, <6>1 DEF Effective, Unsettling, Saves
          <6> QED
            BY <1>0, <1>2, <2>1, <3>3, <4>1, <4>5, <5>2, <6>2 DEF Fits, Saves
        <5> QED
          BY <5>1, <5>2
      <4> QED
        BY <3>3, <4>2, <4>3, <4>4, <4>5 DEF Fits
    <3> QED
      BY <1>0, <2>1, <2>3, <3>2, <3>4 DEF CalmOK, Unsettling
  <2> QED
    BY <2>4, <2>5, <2>6
<1> QED
  BY <1>1, <1>5, <1>6, <1>8, <1>9 DEF EInv

----------------------------------------------------------------------------
(* Requests of the page, and the editor that makes them. *)

LEMMA RequestFacts ==
  ASSUME PageOK, NEW op \in Ops, NEW p \in Paths, NEW v \in Content
  PROVE  LET r == Request(op, p, v)
         IN /\ r \in Req /\ r.op = op /\ r.path = p /\ r.value = v /\ r.stage = "sent"
            /\ r.inst = editor.inst /\ r.closes = p
  BY DEF Request, Req, PageOK, EditorState

LEMMA LoadFacts ==
  ASSUME PageOK, NEW p \in Paths, NEW i \in Nat
  PROVE  LET r == Load(p, i)
         IN /\ r \in Req /\ r.op = "load" /\ r.path = p /\ r.stage = "sent" /\ r.inst = i
            /\ r.closes = p
<1> DEFINE r == Request("load", p, None)
<1>1. "load" \in Ops /\ None \in Content
  BY TextFacts DEF Ops
<1>2. r \in Req /\ r.op = "load" /\ r.path = p /\ r.stage = "sent" /\ r.closes = p
  BY <1>1, RequestFacts
<1> HIDE DEF r
<1>3. Load(p, i) = [r EXCEPT !.inst = i]
  BY DEF Load, r
<1> QED
  BY <1>2, <1>3 DEF Req

LEMMA NoEditorFacts ==
  ASSUME NEW i \in Nat
  PROVE  NoEditor(i) \in EditorState /\ NoEditor(i).path = None /\ NoEditor(i).inst = i
         /\ NoEditor(i).saved = None /\ NoEditor(i).calm = TRUE
  BY TextFacts DEF NoEditor, EditorState

LEMMA EditorFacts ==
  ASSUME PageOK
  PROVE  /\ editor.inst \in Nat /\ editor.path \in Paths \cup {None}
         /\ editor.buffer \in Content /\ editor.saved \in Content
         /\ Open => editor.path \in Paths /\ Name(editor.path) \in Names
  BY PathFacts DEF PageOK, EditorState, Open

\* Requests stay in order when the editor gets younger.
LEMMA MadeStays ==
  ASSUME PageOK, editor'.inst \in Nat, editor.inst <= editor'.inst, NEW r \in Req, WellMade(r)
  PROVE  WellMade(r)'
  BY EditorFacts DEF WellMade, Req

LEMMA PageKept ==
  ASSUME PageOK, UNCHANGED <<git, seen>>, editor' \in EditorState, editor.inst <= editor'.inst,
         unsaved' \subseteq {Staged(n) : n \in Names}, reqs' \subseteq Req,
         \A r \in reqs' \ reqs : WellMade(r)'
  PROVE  PageOK'
<1>1. editor'.inst \in Nat
  BY DEF EditorState
<1>2. \A r \in reqs : WellMade(r)'
  BY <1>1, MadeStays DEF PageOK
<1> QED
  BY <1>2 DEF PageOK

\* The window closes: the stub it shows, when never saved, is on its way out.
LEMMA ClosedBy ==
  ASSUME EInv, NEW p \in Paths, NEW others \in SUBSET reqs, NEW saved, CloseBy(p, others, saved),
         \A q \in reqs \ others : q.op \in Saves \cup {"load", "committing"},
         \A n \in Names \ excused : Staged(n) \in saved => disk[Staged(n)] = None,
         UNCHANGED <<files, seen, hist>>
  PROVE  EInv'
<1>0. FilesOK /\ PageOK /\ StubOK /\ UNCHANGED <<disk, git>>
  BY DEF EInv, files
<1>1. /\ editor' = NoEditor(editor.inst) /\ unsaved' = (unsaved \ saved) \ {p}
      /\ reqs' = others \cup (IF p \in unsaved \ saved THEN {Request("delete", p, None)} ELSE {})
      /\ excused' = IF Open /\ editor.path # p THEN excused \cup {Name(editor.path)} ELSE excused
  BY DEF CloseBy
<1>2. editor.inst \in Nat
  BY <1>0, EditorFacts
<1>3. editor' \in EditorState /\ editor'.path = None /\ editor'.inst = editor.inst
  BY <1>1, <1>2, NoEditorFacts
<1>d. PICK d : d = Request("delete", p, None)
  OBVIOUS
<1>4. d \in Req /\ d.op = "delete" /\ d.path = p /\ d.stage = "sent" /\ d.inst = editor.inst
  <2>1. "delete" \in Ops /\ None \in Content
    BY TextFacts DEF Ops
  <2> QED
    BY <1>0, <1>d, <2>1, RequestFacts
<1>5. reqs' \subseteq others \cup {d} /\ others \subseteq reqs' /\ (p \in unsaved \ saved => d \in reqs')
      /\ (d \in reqs' => d \in others \/ p \in unsaved)
  BY <1>1, <1>d
<1>6. PageOK'
  <2>1. p \in unsaved => WellMade(d)'
    <3>1. p \in unsaved => p = Staged(Name(p))
      BY <1>0, PathFacts DEF PageOK
    <3> QED
      BY <1>2, <1>3, <1>4, <3>1 DEF WellMade, Saves
  <2>2. \A r \in reqs' \ reqs : WellMade(r)'
    BY <1>5, <2>1
  <2>3. reqs' \subseteq Req /\ unsaved' \subseteq {Staged(n) : n \in Names}
    BY <1>0, <1>1, <1>4, <1>5 DEF PageOK
  <2> QED
    BY <1>0, <1>2, <1>3, <2>2, <2>3, PageKept
<1>7. StubOK'
  <2> SUFFICES ASSUME NEW n \in Names \ excused'
               PROVE  /\ SavedStaged(n)' => disk'[Final(n)] # None /\ disk'[Staged(n)] = None
                      /\ disk'[Staged(n)] # None => Staged(n) \in unsaved' \/ Created(n)' \/ Going(n)'
                      /\ Staged(n) \in unsaved' => Open' /\ editor'.path = Staged(n)
    BY DEF StubOK
  <2>1. n \in Names \ excused
    BY <1>1
  <2>2. /\ SavedStaged(n) => disk[Final(n)] # None /\ disk[Staged(n)] = None
        /\ disk[Staged(n)] # None => Staged(n) \in unsaved \/ Created(n) \/ Going(n)
        /\ Staged(n) \in unsaved => Open /\ editor.path = Staged(n)
    BY <1>0, <2>1 DEF StubOK
  <2>3. SavedStaged(n)' => SavedStaged(n)
    BY <1>4, <1>5 DEF SavedStaged, Saves
  <2>4. (Created(n) => Created(n)') /\ (Going(n) => Going(n)')
    BY <1>5 DEF Created, Going, Saves
  <2>5. Staged(n) \in unsaved => Staged(n) = p
    BY <1>1, <2>2, PathFacts
  <2>6. Staged(n) \in unsaved /\ disk[Staged(n)] # None => Going(n)'
    BY <1>4, <1>5, <2>1, <2>5 DEF Going
  <2> QED
    BY <1>0, <1>1, <2>2, <2>3, <2>4, <2>5, <2>6
<1> QED
  BY <1>3, <1>6, <1>7, CalmClosed, Beyond DEF EInv

----------------------------------------------------------------------------
(* Answers. *)

\* An answer that leaves the file alone, and the editor but for what it says of itself.
LEMMA Heard ==
  ASSUME EInv, NEW r \in reqs, reqs' = reqs \ {r}, r.stage # "sent" \/ r.op # "delete",
         r.op # "create" \/ r.stage # "ok", UNCHANGED <<files, seen, hist, excused>>,
         editor' \in EditorState, editor'.path = editor.path, editor'.inst = editor.inst,
         unsaved' = unsaved \/ (r.op \in Saves /\ r.stage = "ok" /\ unsaved' = unsaved \ {r.path}),
         CalmOK'
  PROVE  EInv'
<1>0. FilesOK /\ PageOK /\ StubOK /\ UNCHANGED <<disk, git>>
  BY DEF EInv, files
<1>1. PageOK'
  <2>1. reqs' \subseteq Req /\ unsaved' \subseteq {Staged(n) : n \in Names} /\ reqs' \ reqs = {}
    BY <1>0 DEF PageOK
  <2>2. editor.inst <= editor'.inst
    BY <1>0, EditorFacts
  <2> QED
    BY <1>0, <2>1, <2>2, PageKept
<1>2. StubOK'
  <2> SUFFICES ASSUME NEW n \in Names \ excused
               PROVE  /\ SavedStaged(n)' => disk[Final(n)] # None /\ disk[Staged(n)] = None
                      /\ disk[Staged(n)] # None => Staged(n) \in unsaved' \/ Created(n)' \/ Going(n)'
                      /\ Staged(n) \in unsaved' => Open' /\ editor'.path = Staged(n)
    BY <1>0 DEF StubOK
  <2>1. /\ SavedStaged(n) => disk[Final(n)] # None /\ disk[Staged(n)] = None
        /\ disk[Staged(n)] # None => Staged(n) \in unsaved \/ Created(n) \/ Going(n)
        /\ Staged(n) \in unsaved => Open /\ editor.path = Staged(n)
    BY <1>0 DEF StubOK
  <2>2. SavedStaged(n)' => SavedStaged(n)
    BY DEF SavedStaged
  <2>3. (Created(n) => Created(n)') /\ (Going(n) => Going(n)')
    BY DEF Created, Going
  <2>4. Staged(n) \in unsaved /\ Staged(n) \notin unsaved' => SavedStaged(n)
    BY DEF SavedStaged
  <2> QED
    BY <2>1, <2>2, <2>3, <2>4 DEF Open
<1> QED
  BY <1>1, <1>2, Beyond DEF EInv

\* What calm says of an answer to the open editor.
LEMMA CalmFacts ==
  ASSUME EInv, Open, editor.calm, NEW n, n = Name(editor.path)
  PROVE  /\ n \in Names
         /\ \A r \in Telling(n) : Fits(r)
         /\ \A r, q \in Telling(n) : r = q
         /\ (\A r \in Telling(n) : ~Unsettling(r)) => editor.saved = Effective(n)
         /\ \A r \in reqs : r.op \in Saves \cup {"load", "committing"} /\ r.inst = editor.inst =>
              Name(r.path) = n
  BY EditorFacts DEF EInv, CalmOK

\* The only request that can change what the editor shows has been answered.
LEMMA CalmHeard ==
  ASSUME EInv, NEW r \in reqs, reqs' = reqs \ {r}, UNCHANGED disk,
         editor'.path = editor.path, editor'.inst = editor.inst, editor'.calm = editor.calm,
         Open /\ editor.calm /\ r \in Telling(Name(editor.path)) =>
           editor'.saved = Effective(Name(editor.path)),
         Open /\ editor.calm /\ r \notin Telling(Name(editor.path)) => editor'.saved = editor.saved
  PROVE  CalmOK'
<1> SUFFICES ASSUME Open, editor.calm
             PROVE  CalmOK'
  BY DEF CalmOK, Open
<1>1. PICK n : n = Name(editor.path)
  OBVIOUS
<1>2. /\ \A q \in Telling(n) : Fits(q)
      /\ \A q, k \in Telling(n) : q = k
      /\ (\A q \in Telling(n) : ~Unsettling(q)) => editor.saved = Effective(n)
      /\ \A q \in reqs : q.op \in Saves \cup {"load", "committing"} /\ q.inst = editor.inst =>
           Name(q.path) = n
  BY <1>1, CalmFacts
<1>3. Telling(n)' = Telling(n) \ {r} /\ Effective(n)' = Effective(n)
  BY DEF Telling, About, Effective
<1>4. \A q : Fits(q) => Fits(q)'
  BY <1>1, <1>3 DEF Fits
<1>5. CASE r \in Telling(n)
  <2>1. Telling(n)' = {} /\ editor'.saved = Effective(n)
    BY <1>1, <1>2, <1>3, <1>5
  <2> QED
    BY <1>1, <1>2, <1>3, <2>1 DEF CalmOK
<1>6. CASE r \notin Telling(n)
  <2>1. Telling(n)' = Telling(n) /\ editor'.saved = editor.saved
    BY <1>1, <1>3, <1>6
  <2> QED
    BY <1>1, <1>2, <1>3, <1>4, <2>1 DEF CalmOK
<1> QED
  BY <1>5, <1>6

\* An answer the editor takes is about its file, and one it does not take is not.
LEMMA AliveIsMine ==
  ASSUME EInv, Open, editor.calm, NEW r \in reqs, r.op \in Saves \cup {"load", "committing"}
  PROVE  /\ Alive(r) <=> r \in Telling(Name(editor.path))
         /\ r \in Telling(Name(editor.path)) => Fits(r)
<1>1. PICK n : n = Name(editor.path)
  OBVIOUS
<1>2. r \in Telling(n) => Fits(r)
  BY <1>1, CalmFacts
<1>3. r.op \notin {"commit", "flush"}
  BY DEF Saves
<1>4. r.inst = editor.inst => Name(r.path) = n
  BY <1>1, CalmFacts
<1> QED
  BY <1>1, <1>2, <1>3, <1>4 DEF Alive, Telling, About, Fits

LEMMA SavedFacts ==
  ASSUME PageOK, NEW r \in Req
  PROVE  LET e == Saved(r)
         IN /\ e \in EditorState /\ e.path = editor.path /\ e.inst = editor.inst
            /\ e.calm = editor.calm
            /\ Alive(r) => e.saved = r.value
            /\ ~Alive(r) => e = editor
<1>1. editor \in EditorState /\ r.value \in Content
  BY DEF PageOK, Req
<1>2. CASE Alive(r)
  <2>1. PICK d \in BOOLEAN : Saved(r) = [editor EXCEPT !.saved = r.value, !.dirty = d]
    BY <1>1, <1>2 DEF Saved, EditorState
  <2> QED
    BY <1>1, <1>2, <2>1 DEF EditorState
<1>3. CASE ~Alive(r)
  BY <1>1, <1>3 DEF Saved
<1> QED
  BY <1>2, <1>3

LEMMA DlgDoneFacts ==
  ASSUME PageOK, NEW r
  PROVE  LET e == DlgDone(editor, r)
         IN /\ e \in EditorState /\ e.path = editor.path /\ e.inst = editor.inst
            /\ e.calm = editor.calm /\ e.saved = editor.saved
<1>1. editor \in EditorState
  BY DEF PageOK
<1> QED
  BY <1>1 DEF DlgDone, EditorState

LEMMA LoadedFacts ==
  ASSUME PageOK, NEW r \in Req
  PROVE  LET e == Loaded(r)
         IN /\ e \in EditorState /\ e.path = editor.path /\ e.inst = editor.inst
            /\ e.calm = editor.calm /\ e.saved = r.value
<1>1. editor \in EditorState /\ r.value \in Content
  BY DEF PageOK, Req
<1>2. PICK b \in Content, d \in BOOLEAN :
        Loaded(r) = [editor EXCEPT !.content = r.value, !.saved = r.value, !.buffer = b, !.dirty = d]
  BY <1>1 DEF Loaded, EditorState
<1> QED
  BY <1>1, <1>2 DEF EditorState

LEMMA LoadAnsweredStep ==
  ASSUME EInv, NEW r \in reqs, r.stage # "sent", LoadAnswered(r, reqs \ {r}),
         UNCHANGED <<files, seen, hist>>
  PROVE  EInv'
<1>0. PageOK /\ r \in Req /\ r.op = "load" /\ UNCHANGED disk
  BY DEF EInv, PageOK, LoadAnswered, files
<1>1. CASE /\ r.stage = "ok" /\ editor' = (IF Alive(r) THEN Loaded(r) ELSE editor)
           /\ reqs' = reqs \ {r} /\ UNCHANGED <<unsaved, excused>>
  <2>1. /\ editor' \in EditorState /\ editor'.path = editor.path /\ editor'.inst = editor.inst
        /\ editor'.calm = editor.calm
        /\ editor'.saved = IF Alive(r) THEN r.value ELSE editor.saved
    BY <1>0, <1>1, LoadedFacts DEF PageOK
  <2>2. ASSUME Open, editor.calm
        PROVE  /\ Alive(r) <=> r \in Telling(Name(editor.path))
               /\ Alive(r) => r.value = Effective(Name(editor.path))
    BY <1>0, <1>1, <2>2, AliveIsMine DEF Fits
  <2>3. CalmOK'
    BY <1>0, <1>1, <2>1, <2>2, CalmHeard
  <2> QED
    BY <1>0, <1>1, <2>1, <2>3, Heard
<1>2. CASE r.stage = "error" /\ CloseBy(r.closes, reqs \ {r}, {})
  <2>1. r.closes \in Paths /\ (\A q \in reqs \ (reqs \ {r}) : q.op \in Saves \cup {"load", "committing"})
        /\ reqs \ {r} \in SUBSET reqs
    BY <1>0 DEF Req
  <2> QED
    BY <1>2, <2>1, ClosedBy
<1> QED
  BY <1>1, <1>2 DEF LoadAnswered

LEMMA SaveAnsweredStep ==
  ASSUME EInv, NEW r \in reqs, r.stage # "sent", SaveAnswered(r, reqs \ {r}),
         UNCHANGED <<files, seen, hist>>
  PROVE  EInv'
<1>0. PageOK /\ r \in Req /\ r.op \in Saves /\ WellMade(r) /\ UNCHANGED disk
  BY DEF EInv, PageOK, SaveAnswered, files, Saves
<1>1. /\ editor' = IF r.stage = "ok" THEN Saved(r) ELSE DlgDone(editor, r)
      /\ unsaved' = unsaved \ savedPaths(r) /\ reqs' = reqs \ {r} /\ UNCHANGED excused
  BY DEF SaveAnswered
<1>2. /\ editor' \in EditorState /\ editor'.path = editor.path /\ editor'.inst = editor.inst
      /\ editor'.calm = editor.calm
      /\ editor'.saved = IF r.stage = "ok" /\ Alive(r) THEN r.value ELSE editor.saved
  BY <1>0, <1>1, SavedFacts, DlgDoneFacts
<1>3. ASSUME Open, editor.calm
      PROVE  /\ Alive(r) <=> r \in Telling(Name(editor.path))
             /\ Alive(r) /\ r.stage = "ok" => r.value = Effective(Name(editor.path))
             /\ Alive(r) /\ r.stage # "ok" => editor.saved = Effective(Name(editor.path))
  <2>1. /\ Alive(r) <=> r \in Telling(Name(editor.path))
        /\ r \in Telling(Name(editor.path)) => Fits(r)
    BY <1>0, <1>3, AliveIsMine
  <2>2. Alive(r) /\ r.stage = "ok" => r.value = disk[Final(Name(editor.path))] /\ r.value # None
    BY <1>0, <2>1 DEF Fits, WellMade
  <2>3. Alive(r) /\ r.stage # "ok" => editor.saved = Effective(Name(editor.path))
    <3>1. PICK n : n = Name(editor.path)
      OBVIOUS
    <3>2. /\ \A q, k \in Telling(n) : q = k
          /\ (\A q \in Telling(n) : ~Unsettling(q)) => editor.saved = Effective(n)
      BY <1>3, <3>1, CalmFacts
    <3>3. r.stage # "ok" => ~Unsettling(r)
      BY <1>0 DEF Unsettling, Saves
    <3> QED
      BY <2>1, <3>1, <3>2, <3>3
  <2> QED
    BY <2>1, <2>2, <2>3 DEF Effective
<1>4. CalmOK'
  BY <1>0, <1>1, <1>2, <1>3, CalmHeard
<1>5. unsaved' = unsaved \/ (r.stage = "ok" /\ unsaved' = unsaved \ {r.path})
  BY <1>1 DEF savedPaths
<1> QED
  BY <1>0, <1>1, <1>2, <1>4, <1>5, Heard DEF Saves

\* Save & Close: the commit is asked for under the final name, for the text just saved.
LEMMA CloseAnsweredStep ==
  ASSUME EInv, NEW r \in reqs, r.stage # "sent", handleSaveAndClose(r, reqs \ {r}),
         UNCHANGED <<files, seen, hist>>
  PROVE  EInv'
<1>0. /\ PageOK /\ StubOK /\ CalmOK /\ r \in Req /\ WellMade(r) /\ UNCHANGED <<disk, git>>
      /\ r.path \in Paths /\ Name(r.path) \in Names
  BY PathFacts DEF EInv, PageOK, files, Req
<1>1. ASSUME r.op = "close", r.stage = "ok", editor' = Saved(r), unsaved' = unsaved \ savedPaths(r),
             reqs' = (reqs \ {r}) \cup {[r EXCEPT !.op = "committing", !.path = finalTarget(r),
                                                 !.stage = "sent"]},
             UNCHANGED excused
      PROVE  EInv'
  <2>1. /\ editor' \in EditorState /\ editor'.path = editor.path /\ editor'.inst = editor.inst
        /\ editor'.calm = editor.calm
        /\ editor'.saved = IF Alive(r) THEN r.value ELSE editor.saved
    BY <1>0, <1>1, SavedFacts
  <2>2. PICK a : a = [r EXCEPT !.op = "committing", !.path = finalTarget(r), !.stage = "sent"]
    OBVIOUS
  <2>3. finalTarget(r) = Final(Name(r.path)) /\ finalTarget(r) \in Paths
    BY <1>0, PathFacts DEF finalTarget
  <2>4. /\ a \in Req /\ a.op = "committing" /\ a.path = Final(Name(r.path)) /\ a.stage = "sent"
        /\ a.value = r.value /\ a.inst = r.inst
    BY <1>0, <2>2, <2>3 DEF Req, Ops
  <2>5. reqs' = (reqs \ {r}) \cup {a}
    BY <1>1, <2>2
  <2>6. PageOK'
    <3>1. WellMade(a)'
      BY <1>0, <2>1, <2>4, PathFacts DEF WellMade, Saves
    <3>2. reqs' \subseteq Req /\ (\A q \in reqs' \ reqs : WellMade(q)')
      BY <1>0, <2>4, <2>5, <3>1 DEF PageOK
    <3>3. editor.inst <= editor'.inst /\ unsaved' \subseteq {Staged(n) : n \in Names}
      BY <1>0, <1>1, <2>1, EditorFacts DEF PageOK
    <3> QED
      BY <1>0, <2>1, <3>2, <3>3, PageKept
  <2>7. StubOK'
    <3> SUFFICES ASSUME NEW n \in Names \ excused
                 PROVE  /\ SavedStaged(n)' => disk[Final(n)] # None /\ disk[Staged(n)] = None
                        /\ disk[Staged(n)] # None => Staged(n) \in unsaved' \/ Created(n)' \/ Going(n)'
                        /\ Staged(n) \in unsaved' => Open' /\ editor'.path = Staged(n)
      BY <1>0, <1>1 DEF StubOK
    <3>1. /\ SavedStaged(n) => disk[Final(n)] # None /\ disk[Staged(n)] = None
          /\ disk[Staged(n)] # None => Staged(n) \in unsaved \/ Created(n) \/ Going(n)
          /\ Staged(n) \in unsaved => Open /\ editor.path = Staged(n)
      BY <1>0 DEF StubOK
    <3>2. SavedStaged(n)' => SavedStaged(n)
      BY <2>4, <2>5 DEF SavedStaged, Saves
    <3>3. (Created(n) => Created(n)') /\ (Going(n) => Going(n)')
      BY <1>1, <2>5 DEF Created, Going
    <3>4. Staged(n) \in unsaved /\ Staged(n) \notin unsaved' => SavedStaged(n)
      BY <1>1 DEF SavedStaged, savedPaths, Saves
    <3> QED
      BY <1>1, <2>1, <3>1, <3>2, <3>3, <3>4 DEF Open
  <2>8. CalmOK'
    <3> SUFFICES ASSUME Open, editor.calm
                 PROVE  CalmOK'
      BY <2>1 DEF CalmOK, Open
    <3>1. PICK n \in Names : n = Name(editor.path)
      BY CalmFacts
    <3>2. /\ \A q \in Telling(n) : Fits(q)
          /\ \A q, k \in Telling(n) : q = k
          /\ (\A q \in Telling(n) : ~Unsettling(q)) => editor.saved = Effective(n)
          /\ \A q \in reqs : q.op \in Saves \cup {"load", "committing"} /\ q.inst = editor.inst =>
               Name(q.path) = n
      BY <3>1, CalmFacts
    <3>3. (Alive(r) <=> r \in Telling(n)) /\ (r \in Telling(n) => Fits(r))
      BY <1>1, <3>1, AliveIsMine DEF Saves
    <3>4. \A q : Fits(q) => Fits(q)'
      BY <1>0, <2>1 DEF Fits, Effective
    <3>5. Effective(n)' = Effective(n)
      BY <1>0 DEF Effective
    <3>6. \A q \in reqs' : q.op \in Saves \cup {"load", "committing"} /\ q.inst = editor'.inst =>
            Name(q.path) = n
      <4>1. a.inst = editor.inst => Name(a.path) = n
        BY <1>0, <1>1, <2>4, <3>2, PathFacts DEF Saves
      <4> QED
        BY <2>1, <2>5, <3>2, <4>1
    <3>7. CASE r \in Telling(n)
      <4>1. Name(r.path) = n /\ r.value = disk[Final(n)] /\ r.value # None /\ r.inst = editor.inst
        BY <1>0, <1>1, <3>1, <3>3, <3>7 DEF Fits, Telling, About, WellMade, Saves
      <4>2. editor'.saved = Effective(n)
        BY <2>1, <3>3, <3>7, <4>1 DEF Effective
      <4>3. Telling(n)' = {a}
        <5>1. \A q : q \in Telling(n)' => q = a \/ (q \in Telling(n) /\ q # r)
          BY <2>5 DEF Telling, About
        <5>2. a \in Telling(n)'
          BY <1>0, <2>4, <2>5, <4>1, PathFacts DEF Telling, About
        <5> QED
          BY <3>2, <3>7, <5>1, <5>2
      <4>4. Fits(a)'
        BY <1>0, <2>1, <2>4, <3>1, <4>1 DEF Fits, Saves
      <4> QED
        BY <2>1, <3>1, <3>5, <3>6, <4>2, <4>3, <4>4 DEF CalmOK
    <3>8. CASE r \notin Telling(n)
      <4>1. Name(r.path) # n /\ editor'.saved = editor.saved
        BY <1>1, <2>1, <3>3, <3>8 DEF Telling, About
      <4>2. Telling(n)' = Telling(n)
        BY <1>0, <2>4, <2>5, <4>1, PathFacts DEF Telling, About
      <4> QED
        BY <2>1, <3>1, <3>2, <3>4, <3>5, <3>6, <4>1, <4>2 DEF CalmOK
    <3> QED
      BY <3>7, <3>8
  <2> QED
    BY <2>6, <2>7, <2>8, Beyond DEF EInv
<1>2. CASE r.op = "committing" /\ r.stage = "ok" /\ CloseBy(r.closes, reqs \ {r}, {})
  <2>1. r.closes \in Paths /\ (\A q \in reqs \ (reqs \ {r}) : q.op \in Saves \cup {"load", "committing"})
        /\ reqs \ {r} \in SUBSET reqs
    BY <1>0, <1>2 DEF Req
  <2> QED
    BY <1>2, <2>1, ClosedBy
<1>3. ASSUME r.op = "committing", editor' = DlgDone(editor, r), reqs' = reqs \ {r},
             UNCHANGED <<unsaved, excused>>
      PROVE  EInv'
  <2>1. /\ editor' \in EditorState /\ editor'.path = editor.path /\ editor'.inst = editor.inst
        /\ editor'.calm = editor.calm /\ editor'.saved = editor.saved
    BY <1>0, <1>3, DlgDoneFacts
  <2>2. ASSUME Open, editor.calm, r \in Telling(Name(editor.path))
        PROVE  editor.saved = Effective(Name(editor.path))
    <3>1. PICK n : n = Name(editor.path)
      OBVIOUS
    <3>2. /\ \A q, k \in Telling(n) : q = k
          /\ (\A q \in Telling(n) : ~Unsettling(q)) => editor.saved = Effective(n)
      BY <2>2, <3>1, CalmFacts
    <3>3. ~Unsettling(r)
      BY <1>3 DEF Unsettling, Saves
    <3> QED
      BY <2>2, <3>1, <3>2, <3>3
  <2>3. CalmOK'
    BY <1>0, <1>3, <2>1, <2>2, CalmHeard
  <2> QED
    BY <1>3, <2>1, <2>3, Heard
<1> QED
  BY <1>1, <1>2, <1>3 DEF handleSaveAndClose

LEMMA UpgradeAnsweredStep ==
  ASSUME EInv, NEW r \in reqs, handleSaveAndUpgrade(r, reqs \ {r}), UNCHANGED <<files, seen, hist>>
  PROVE  EInv'
<1>1. r.op = "upgrade" /\ r.stage = "ok" /\ CloseBy(r.path, reqs \ {r}, savedPaths(r))
  BY DEF handleSaveAndUpgrade
<1>2. r.path \in Paths /\ (\A q \in reqs \ (reqs \ {r}) : q.op \in Saves \cup {"load", "committing"})
      /\ reqs \ {r} \in SUBSET reqs
  BY <1>1 DEF EInv, PageOK, Req, Saves
<1>3. \A n \in Names \ excused : Staged(n) \in savedPaths(r) => disk[Staged(n)] = None
  <2>1. \A n : Staged(n) \in savedPaths(r) => SavedStaged(n)
    BY <1>1 DEF savedPaths, SavedStaged, Saves
  <2> QED
    BY <2>1 DEF EInv, StubOK
<1> QED
  BY <1>1, <1>2, <1>3, ClosedBy

\* The modal is mounted: it knows nothing yet, and nothing on its way is its own.
LEMMA MountedFacts ==
  ASSUME PageOK, NEW p \in Paths, NEW others
  PROVE  LET e == Mounted(p, others)
         IN /\ e \in EditorState /\ e.path = p
            /\ Open => e.inst = editor.inst /\ ~e.calm
            /\ ~Open => /\ e.inst = editor.inst + 1
                        /\ e.calm => /\ About(Name(p)) \cap others = {}
                                     /\ p = Final(Name(p)) \/ disk[Final(Name(p))] = None
<1>1. editor \in EditorState /\ editor.inst \in Nat
  BY EditorFacts DEF PageOK
<1>2. CASE Open
  BY <1>1, <1>2 DEF Mounted, EditorState
<1>3. CASE ~Open
  <2>1. PICK e : e = NoEditor(editor.inst + 1)
    OBVIOUS
  <2>2. e \in EditorState /\ e.inst = editor.inst + 1
    <3>1. editor.inst + 1 \in Nat
      BY <1>1
    <3> QED
      BY <2>1, <3>1, NoEditorFacts
  <2>3. PICK c :
          c = (About(Name(p)) \cap others = {} /\ (p = Final(Name(p)) \/ disk[Final(Name(p))] = None))
    OBVIOUS
  <2>4. Mounted(p, others) = [e EXCEPT !.path = p, !.calm = c]
    BY <1>3, <2>1, <2>3 DEF Mounted
  <2>5. Mounted(p, others) \in EditorState
    BY <2>2, <2>3, <2>4 DEF EditorState
  <2> QED
    BY <1>3, <2>2, <2>3, <2>4, <2>5 DEF EditorState
<1> QED
  BY <1>2, <1>3

LEMMA MountedCalm ==
  ASSUME PageOK, ~Open, NEW p \in Paths, NEW others \in SUBSET reqs,
         editor' = Mounted(p, others), reqs' = others \cup {Load(p, editor.inst + 1)},
         UNCHANGED disk
  PROVE  CalmOK'
<1>1. /\ editor'.path = p /\ editor'.inst = editor.inst + 1 /\ editor.inst \in Nat
      /\ editor'.calm => /\ About(Name(p)) \cap others = {}
                         /\ p = Final(Name(p)) \/ disk[Final(Name(p))] = None
  BY MountedFacts, EditorFacts
<1> SUFFICES ASSUME editor'.calm
             PROVE  CalmOK'
  BY DEF CalmOK
<1>2. PICK n \in Names : n = Name(p)
  BY PathFacts
<1>3. PICK a : a = Load(p, editor.inst + 1)
  OBVIOUS
<1>4. a \in Req /\ a.op = "load" /\ a.path = p /\ a.stage = "sent" /\ a.inst = editor.inst + 1
  BY <1>1, <1>3, LoadFacts
<1>5. Telling(n)' = {a}
  <2>1. \A q \in others : Name(q.path) # n
    BY <1>1, <1>2 DEF About
  <2> QED
    BY <1>2, <1>3, <1>4, <2>1 DEF Telling, About
<1>6. Fits(a)' /\ Unsettling(a)
  BY <1>1, <1>2, <1>4, PathFacts DEF Fits, Unsettling, Saves
<1>7. \A q \in reqs' : q.inst = editor'.inst => q = a
  <2>1. \A q \in reqs : q.inst \in Nat /\ q.inst <= editor.inst
    BY DEF PageOK, Req, WellMade
  <2> QED
    BY <1>1, <1>3, <2>1
<1> QED
  BY <1>1, <1>2, <1>4, <1>5, <1>6, <1>7 DEF CalmOK

LEMMA DeviceCreatedStep ==
  ASSUME EInv, NEW r \in reqs, DeviceCreated(r, reqs \ {r}), UNCHANGED <<files, seen, hist>>
  PROVE  EInv'
<1> DEFINE rest == reqs \ {r}
           Turned(q) == IF Alive(q) /\ q.op = "load" THEN [q EXCEPT !.closes = r.path] ELSE q
<1>0. /\ PageOK /\ StubOK /\ r \in Req /\ WellMade(r) /\ UNCHANGED <<disk, git>>
      /\ r.path \in Paths /\ Name(r.path) \in Names
  BY PathFacts DEF EInv, PageOK, files, Req
<1>1. /\ r.op = "create" /\ r.stage = "ok" /\ unsaved' = unsaved \cup {r.path}
      /\ editor' = Mounted(r.path, rest)
      /\ reqs' = {Turned(q) : q \in rest} \cup {Load(r.path, editor'.inst)}
      /\ excused' = IF Open THEN excused \cup {Name(editor.path)} ELSE excused
  BY DEF DeviceCreated
<1>2. PICK m \in Names : m = Name(r.path) /\ r.path = Staged(m)
  BY <1>0, <1>1 DEF WellMade
<1>3. /\ editor' \in EditorState /\ editor'.path = r.path /\ editor.inst \in Nat
      /\ editor'.inst = (IF Open THEN editor.inst ELSE editor.inst + 1)
      /\ Open => ~editor'.calm
  BY <1>0, <1>1, MountedFacts, EditorFacts
<1>4. PICK a : a = Load(r.path, editor'.inst)
  OBVIOUS
<1>5. a \in Req /\ a.op = "load" /\ a.path = r.path /\ a.stage = "sent" /\ a.inst = editor'.inst
  <2>1. editor'.inst \in Nat
    BY <1>3
  <2> QED
    BY <1>0, <1>4, <2>1, LoadFacts
<1>t. PICK turned : turned = {Turned(q) : q \in rest}
  OBVIOUS
<1>6. /\ \A k \in turned : /\ k \in Req /\ WellMade(k)
                           /\ k.op = "load" \/ k \in rest
      /\ \A q \in rest : q.op # "load" => q \in turned
      /\ ~Open => turned = rest
  <2>1. \A q \in rest : /\ Turned(q) \in Req /\ Turned(q).op = q.op /\ Turned(q).path = q.path
                        /\ Turned(q).inst = q.inst /\ Turned(q).value = q.value
                        /\ (q.op # "load" => Turned(q) = q)
                        /\ (~Open => Turned(q) = q)
    BY <1>0 DEF PageOK, Req, Alive
  <2>2. \A q \in rest : WellMade(Turned(q))
    BY <1>0, <2>1 DEF PageOK, WellMade
  <2> HIDE DEF Turned, rest
  <2> QED
    BY <1>t, <2>1, <2>2
<1>7. reqs' = turned \cup {a}
  BY <1>1, <1>4, <1>t
<1> HIDE DEF Turned
<1>8. PageOK'
  <2>1. editor'.inst \in Nat /\ editor.inst <= editor'.inst
    BY <1>3
  <2>2. \A k \in turned : WellMade(k)'
    BY <1>0, <1>6, <2>1, MadeStays
  <2>3. WellMade(a)'
    BY <1>5, <2>1 DEF WellMade, Saves
  <2>4. reqs' \subseteq Req /\ unsaved' \subseteq {Staged(n) : n \in Names}
    BY <1>0, <1>1, <1>2, <1>5, <1>6, <1>7 DEF PageOK
  <2> QED
    BY <1>0, <1>3, <1>7, <2>1, <2>2, <2>3, <2>4, PageKept
<1>9. StubOK'
  <2> SUFFICES ASSUME NEW n \in Names \ excused'
               PROVE  /\ SavedStaged(n)' => disk'[Final(n)] # None /\ disk'[Staged(n)] = None
                      /\ disk'[Staged(n)] # None => Staged(n) \in unsaved' \/ Created(n)' \/ Going(n)'
                      /\ Staged(n) \in unsaved' => Open' /\ editor'.path = Staged(n)
    BY DEF StubOK
  <2>1. n \in Names \ excused /\ (Open => n # Name(editor.path))
    BY <1>1
  <2>2. /\ SavedStaged(n) => disk[Final(n)] # None /\ disk[Staged(n)] = None
        /\ disk[Staged(n)] # None => Staged(n) \in unsaved \/ Created(n) \/ Going(n)
        /\ Staged(n) \in unsaved => Open /\ editor.path = Staged(n)
    BY <1>0, <2>1 DEF StubOK
  <2>3. SavedStaged(n)' => SavedStaged(n)
    BY <1>5, <1>6, <1>7 DEF SavedStaged, Saves
  <2>4. /\ Created(n) => Created(n)' \/ Staged(n) = r.path
        /\ Going(n) => Going(n)'
    BY <1>1, <1>6, <1>7 DEF Created, Going
  <2>5. Staged(n) \notin unsaved
    BY <2>1, <2>2, PathFacts
  <2>6. Open' /\ editor'.path = r.path
    BY <1>0, <1>3, PathFacts DEF Open
  <2> QED
    BY <1>0, <1>1, <2>2, <2>3, <2>4, <2>5, <2>6
<1>10. CalmOK'
  <2>1. CASE Open
    BY <1>3, <2>1, CalmOff
  <2>2. CASE ~Open
    <3>1. reqs' = rest \cup {Load(r.path, editor.inst + 1)} /\ rest \in SUBSET reqs
      BY <1>3, <1>4, <1>6, <1>7, <2>2
    <3> QED
      BY <1>0, <1>1, <2>2, <3>1, MountedCalm
  <2> QED
    BY <2>1, <2>2
<1> QED
  BY <1>8, <1>9, <1>10, Beyond DEF EInv

\* A version was brought back: an editor of the same file asks for it again.
LEMMA FileChangedStep ==
  ASSUME EInv, NEW r \in reqs, onFileChanged(r, reqs \ {r}), UNCHANGED <<files, seen, hist>>
  PROVE  EInv'
<1>0. /\ PageOK /\ StubOK /\ CalmOK /\ r \in Req /\ WellMade(r) /\ UNCHANGED <<disk, git>>
      /\ r.path \in Paths /\ Name(r.path) \in Names
      /\ r.op = "restore" /\ r.stage = "ok" /\ UNCHANGED <<editor, unsaved, excused>>
  BY PathFacts DEF EInv, PageOK, files, Req, onFileChanged
<1>1. CASE Open /\ editor.path = r.path
  <2>1. PICK a : a = Load(r.path, editor.inst)
    OBVIOUS
  <2>2. /\ a \in Req /\ a.op = "load" /\ a.path = r.path /\ a.stage = "sent" /\ a.inst = editor.inst
        /\ editor.inst \in Nat
    BY <1>0, <2>1, LoadFacts, EditorFacts
  <2>3. reqs' = (reqs \ {r}) \cup {a}
    BY <1>1, <2>1 DEF onFileChanged
  <2>4. PageOK'
    <3>1. WellMade(a)'
      BY <1>0, <2>2 DEF WellMade, Saves
    <3>2. reqs' \subseteq Req /\ (\A q \in reqs' \ reqs : WellMade(q)')
      BY <1>0, <2>2, <2>3, <3>1 DEF PageOK
    <3> QED
      BY <1>0, <2>2, <3>2, PageKept DEF PageOK
  <2>5. StubOK'
    <3>1. Weighty(reqs') = Weighty(reqs)
      BY <1>0, <2>2, <2>3 DEF Weighty, Saves
    <3> QED
      BY <1>0, <3>1, StubStays DEF Open
  <2>6. CalmOK'
    <3> SUFFICES ASSUME editor.calm
                 PROVE  CalmOK'
      BY <1>0 DEF CalmOK
    <3>1. PICK n \in Names : n = Name(editor.path)
      BY <1>1, CalmFacts
    <3>2. /\ \A q \in Telling(n) : Fits(q)
          /\ \A q, k \in Telling(n) : q = k
          /\ \A q \in reqs : q.op \in Saves \cup {"load", "committing"} /\ q.inst = editor.inst =>
               Name(q.path) = n
      BY <1>1, <3>1, CalmFacts
    <3>3. r \in Telling(n)
      BY <1>0, <1>1, <3>1 DEF Telling, About
    <3>4. Telling(n)' = {a}
      <4>1. \A q : q \in Telling(n)' => q = a \/ (q \in Telling(n) /\ q # r)
        BY <2>3 DEF Telling, About
      <4>2. a \in Telling(n)'
        BY <1>1, <2>2, <2>3, <3>1 DEF Telling, About
      <4> QED
        BY <3>2, <3>3, <4>1, <4>2
    <3>5. editor.path = Final(n)
      BY <1>0, <3>1, <3>2, <3>3 DEF Fits
    <3>6. Fits(a)' /\ Unsettling(a)
      BY <1>0, <1>1, <2>2, <3>1, <3>5, PathFacts DEF Fits, Unsettling, Saves
    <3>7. \A q \in reqs' : q.op \in Saves \cup {"load", "committing"} /\ q.inst = editor'.inst =>
            Name(q.path) = n
      BY <1>0, <1>1, <2>2, <2>3, <3>1, <3>2
    <3> QED
      BY <1>0, <3>1, <3>4, <3>6, <3>7 DEF CalmOK
  <2> QED
    BY <2>4, <2>5, <2>6, Beyond DEF EInv
<1>2. CASE ~(Open /\ editor.path = r.path)
  <2>1. reqs' = reqs \ {r}
    BY <1>2 DEF onFileChanged
  <2>2. ASSUME Open, editor.calm
        PROVE  r \notin Telling(Name(editor.path))
    <3>1. r \in Telling(Name(editor.path)) => Fits(r)
      BY <2>2, CalmFacts
    <3> QED
      BY <1>0, <1>2, <2>2, <3>1 DEF Fits, WellMade, Telling, About
  <2>3. CalmOK'
    BY <1>0, <2>1, <2>2, CalmHeard
  <2> QED
    BY <1>0, <2>1, <2>3, Heard DEF PageOK
<1> QED
  BY <1>1, <1>2

LEMMA ToastedStep ==
  ASSUME EInv, NEW r \in reqs, r.stage # "sent", Toasted(r, reqs \ {r}), UNCHANGED <<files, seen, hist>>
  PROVE  EInv'
<1>1. /\ r.op \in {"delete", "commit", "flush"} \/ (r.op \in {"create", "restore"} /\ r.stage = "error")
      /\ reqs' = reqs \ {r} /\ UNCHANGED <<editor, unsaved, excused, disk>>
      /\ editor \in EditorState
  BY DEF Toasted, files, EInv, PageOK
<1>2. ASSUME Open, editor.calm, r \in Telling(Name(editor.path))
      PROVE  editor.saved = Effective(Name(editor.path))
  <2>1. PICK n : n = Name(editor.path)
    OBVIOUS
  <2>2. /\ \A q \in Telling(n) : Fits(q)
        /\ \A q, k \in Telling(n) : q = k
        /\ (\A q \in Telling(n) : ~Unsettling(q)) => editor.saved = Effective(n)
    BY <1>2, <2>1, CalmFacts
  <2>3. r.op = "restore" /\ r.stage = "error"
    BY <1>1, <1>2, <2>1, <2>2 DEF Fits, Saves
  <2>4. ~Unsettling(r)
    BY <2>3 DEF Unsettling, Saves
  <2> QED
    BY <1>2, <2>1, <2>2, <2>4
<1>3. CalmOK'
  BY <1>1, <1>2, CalmHeard
<1> QED
  BY <1>1, <1>3, Heard

LEMMA AnsweredStep ==
  ASSUME EInv, NEW r \in reqs, Answered(r)
  PROVE  EInv'
<1>1. r.stage # "sent" /\ UNCHANGED <<files, seen, hist>>
  BY DEF Answered
<1>2. \/ LoadAnswered(r, reqs \ {r}) \/ SaveAnswered(r, reqs \ {r})
      \/ handleSaveAndClose(r, reqs \ {r}) \/ handleSaveAndUpgrade(r, reqs \ {r})
      \/ DeviceCreated(r, reqs \ {r}) \/ onFileChanged(r, reqs \ {r}) \/ Toasted(r, reqs \ {r})
  BY DEF Answered
<1> QED
  BY <1>1, <1>2, LoadAnsweredStep, SaveAnsweredStep, CloseAnsweredStep, UpgradeAnsweredStep,
     DeviceCreatedStep, FileChangedStep, ToastedStep

----------------------------------------------------------------------------
(* Losses, the debounce timer, and others who write. *)

\* The editor is as it was, or no longer calm.
LEMMA Unsettled ==
  ASSUME PageOK, editor' = [editor EXCEPT !.calm = FALSE] \/ UNCHANGED editor
  PROVE  /\ editor' \in EditorState /\ editor'.path = editor.path /\ editor'.inst = editor.inst
         /\ editor'.saved = editor.saved /\ (editor'.calm => UNCHANGED editor)
         /\ Open' = Open
  BY DEF PageOK, EditorState, Open

LEMMA LostStep ==
  ASSUME EInv, NEW r \in reqs, Lost(r)
  PROVE  EInv'
<1>0. /\ PageOK /\ StubOK /\ CalmOK /\ r \in Req /\ WellMade(r) /\ UNCHANGED <<disk, git>>
      /\ UNCHANGED <<files, seen, unsaved, hist>> /\ Name(r.path) \in Names
  BY PathFacts DEF EInv, PageOK, files, Lost, Req
<1>1. PICK a \in Req :
        /\ a.op = r.op /\ a.path = r.path /\ a.inst = r.inst /\ a.value = r.value /\ a.stage = "error"
        /\ reqs' = (reqs \ {r}) \cup {a}
  <2>1. PICK a : a = [r EXCEPT !.stage = "error"]
    OBVIOUS
  <2>2. /\ a \in Req /\ a.op = r.op /\ a.path = r.path /\ a.inst = r.inst /\ a.value = r.value
        /\ a.stage = "error"
    BY <1>0, <2>1 DEF Req
  <2> QED
    BY <2>1, <2>2 DEF Lost
<1>2. /\ excused' = IF r.op \in {"create", "delete"} THEN excused \cup {Name(r.path)} ELSE excused
      /\ editor' = IF Open /\ Name(editor.path) = Name(r.path)
                   THEN [editor EXCEPT !.calm = FALSE] ELSE editor
  BY DEF Lost
<1>3. /\ editor' \in EditorState /\ editor'.path = editor.path /\ editor'.inst = editor.inst
      /\ editor'.saved = editor.saved /\ (editor'.calm => UNCHANGED editor)
      /\ Open' = Open
  BY <1>0, <1>2, Unsettled
<1>4. PageOK'
  <2>1. WellMade(a)'
    BY <1>0, <1>1, <1>3 DEF WellMade
  <2>2. reqs' \subseteq Req /\ (\A q \in reqs' \ reqs : WellMade(q)') /\ editor.inst <= editor'.inst
    BY <1>0, <1>1, <1>3, <2>1, EditorFacts DEF PageOK
  <2> QED
    BY <1>0, <1>3, <2>2, PageKept DEF PageOK
<1>5. StubOK'
  <2> SUFFICES ASSUME NEW n \in Names \ excused'
               PROVE  /\ SavedStaged(n)' => disk'[Final(n)] # None /\ disk'[Staged(n)] = None
                      /\ disk'[Staged(n)] # None => Staged(n) \in unsaved' \/ Created(n)' \/ Going(n)'
                      /\ Staged(n) \in unsaved' => Open' /\ editor'.path = Staged(n)
    BY DEF StubOK
  <2>1. n \in Names \ excused /\ (r.op \in {"create", "delete"} => n # Name(r.path))
    BY <1>2
  <2>2. /\ SavedStaged(n) => disk[Final(n)] # None /\ disk[Staged(n)] = None
        /\ disk[Staged(n)] # None => Staged(n) \in unsaved \/ Created(n) \/ Going(n)
        /\ Staged(n) \in unsaved => Open /\ editor.path = Staged(n)
    BY <1>0, <2>1 DEF StubOK
  <2>3. SavedStaged(n)' => SavedStaged(n)
    BY <1>1 DEF SavedStaged
  <2>4. (Created(n) => Created(n)') /\ (Going(n) => Going(n)')
    BY <1>1, <2>1, PathFacts DEF Created, Going
  <2> QED
    BY <1>0, <1>3, <2>2, <2>3, <2>4
<1>6. CalmOK'
  <2>1. CASE Open /\ Name(editor.path) = Name(r.path)
    <3>1. ~editor'.calm
      BY <1>0, <1>2, <2>1 DEF PageOK, EditorState
    <3> QED
      BY <3>1, CalmOff
  <2>2. CASE ~Open
    BY <1>3, <2>2, CalmClosed DEF Open
  <2>3. CASE Open /\ Name(editor.path) # Name(r.path)
    <3>1. PICK n \in Names : n = Name(editor.path)
      BY <1>0, <2>3, EditorFacts
    <3>2. Telling(n)' = Telling(n)
      BY <1>1, <2>3, <3>1 DEF Telling, About
    <3>3. editor.calm => \A q \in reqs' \ reqs : q.op \in Saves \cup {"load", "committing"} /\ q.inst = editor.inst =>
                             Name(q.path) = n
      <4>1. editor.calm => \A q \in reqs : q.op \in Saves \cup {"load", "committing"} /\ q.inst = editor.inst =>
                             Name(q.path) = n
        BY <2>3, <3>1, CalmFacts
      <4> QED
        BY <1>1, <4>1
    <3> QED
      BY <1>0, <1>3, <3>1, <3>2, <3>3, CalmStays
  <2> QED
    BY <2>1, <2>2, <2>3
<1> QED
  BY <1>0, <1>4, <1>5, <1>6, Beyond DEF EInv

\* A step that leaves the page and the files alone, but for the histories.
LEMMA LogOnly ==
  ASSUME EInv, FilesOK', LogStep, git.enabled # "unset" => git'.enabled # "unset",
         UNCHANGED <<disk, page, excused>>
  PROVE  EInv'
<1>0. FilesOK /\ PageOK /\ StubOK /\ CalmOK /\ HistOK /\ UNCHANGED <<seen, editor, unsaved, reqs, hist>>
  BY DEF EInv, page
<1>1. HistOK'
  BY <1>0, HistStays
<1>2. PageOK'
  BY <1>0 DEF PageOK, WellMade
<1>3. StubOK'
  BY <1>0, StubStays DEF Open
<1>4. CalmOK'
  BY <1>0, CalmStays DEF Telling, About
<1> QED
  BY <1>1, <1>2, <1>3, <1>4 DEF EInv

LEMMA TimerStep ==
  ASSUME EInv, NEW n \in Names, TimerFires(n)
  PROVE  EInv'
<1>1. FilesOK /\ UNCHANGED <<disk, auto, git, page, excused>>
      /\ log' = (IF auto THEN Committed(n, disk[Final(n)]) ELSE log)
  BY DEF EInv, TimerFires
<1>2. disk[Final(n)] \in Content
  BY <1>1, PathFacts DEF FilesOK
<1>3. FilesOK' /\ LogStep
  <2>1. CASE auto
    <3>1. /\ log' \in [Names -> Seq(Content)]
          /\ \A m \in Names : Len(log'[m]) <= MaxCommits /\ Len(log[m]) <= Len(log'[m])
      BY <1>1, <1>2, <2>1, Commits
    <3> QED
      BY <1>1, <3>1 DEF FilesOK, LogStep
  <2>2. CASE ~auto
    BY <1>1, <2>2, LogSame DEF FilesOK
  <2> QED
    BY <2>1, <2>2
<1> QED
  BY <1>1, <1>3, LogOnly

LEMMA OthersStep ==
  ASSUME EInv, NEW n \in Names, NEW text \in Content, OthersWrite(n, text)
  PROVE  EInv'
<1>0. /\ FilesOK /\ PageOK /\ StubOK /\ CalmOK /\ HistOK
      /\ UNCHANGED <<log, timer, auto, git, seen, unsaved, reqs, hist>>
      /\ disk' = [disk EXCEPT ![Final(n)] = text]
      /\ editor' = (IF Open /\ Name(editor.path) = n THEN [editor EXCEPT !.calm = FALSE] ELSE editor)
      /\ excused' = (IF text = None THEN excused \cup {n} ELSE excused)
  BY DEF EInv, OthersWrite
<1>1. /\ disk' \in [Paths -> Content] /\ disk'[Final(n)] = text
      /\ \A m \in Names : disk'[Staged(m)] = disk[Staged(m)]
      /\ \A m \in Names : m # n => disk'[Final(m)] = disk[Final(m)]
  BY <1>0, PathFacts DEF FilesOK
<1>2. FilesOK' /\ LogStep
  BY <1>0, <1>1, LogSame DEF FilesOK
<1>3. HistOK'
  BY <1>0, <1>2, HistStays
<1>4. /\ editor' \in EditorState /\ editor'.path = editor.path /\ editor'.inst = editor.inst
      /\ editor'.saved = editor.saved /\ (editor'.calm => UNCHANGED editor)
      /\ Open' = Open
  BY <1>0, Unsettled
<1>5. PageOK'
  BY <1>0, <1>4, PageKept, EditorFacts DEF PageOK
<1>6. StubOK'
  <2> SUFFICES ASSUME NEW m \in Names \ excused'
               PROVE  /\ SavedStaged(m)' => disk'[Final(m)] # None /\ disk'[Staged(m)] = None
                      /\ disk'[Staged(m)] # None => Staged(m) \in unsaved' \/ Created(m)' \/ Going(m)'
                      /\ Staged(m) \in unsaved' => Open' /\ editor'.path = Staged(m)
    BY DEF StubOK
  <2>1. m \in Names \ excused /\ (m = n => text # None)
    BY <1>0
  <2>2. /\ SavedStaged(m) => disk[Final(m)] # None /\ disk[Staged(m)] = None
        /\ disk[Staged(m)] # None => Staged(m) \in unsaved \/ Created(m) \/ Going(m)
        /\ Staged(m) \in unsaved => Open /\ editor.path = Staged(m)
    BY <1>0, <2>1 DEF StubOK
  <2>3. (SavedStaged(m)' <=> SavedStaged(m)) /\ (Created(m)' <=> Created(m)) /\ (Going(m)' <=> Going(m))
    BY <1>0 DEF SavedStaged, Created, Going
  <2>4. disk'[Final(m)] = None => disk[Final(m)] = None
    BY <1>1, <2>1
  <2> QED
    BY <1>0, <1>1, <1>4, <2>2, <2>3, <2>4
<1>7. CalmOK'
  <2>1. CASE Open /\ Name(editor.path) = n
    <3>1. ~editor'.calm
      BY <1>0, <2>1 DEF PageOK, EditorState
    <3> QED
      BY <3>1, CalmOff
  <2>2. CASE ~Open
    BY <1>4, <2>2, CalmClosed DEF Open
  <2>3. CASE Open /\ Name(editor.path) # n
    <3> SUFFICES ASSUME editor.calm
                 PROVE  CalmOK'
      BY <1>4, CalmOff
    <3>1. PICK m \in Names : m = Name(editor.path)
      BY <1>0, <2>3, EditorFacts
    <3>2. /\ \A q \in Telling(m) : Fits(q)
          /\ \A q, k \in Telling(m) : q = k
          /\ (\A q \in Telling(m) : ~Unsettling(q)) => editor.saved = Effective(m)
          /\ \A q \in reqs : q.op \in Saves \cup {"load", "committing"} /\ q.inst = editor.inst =>
               Name(q.path) = m
      BY <2>3, <3>1, CalmFacts
    <3>3. disk'[Final(m)] = disk[Final(m)] /\ disk'[Staged(m)] = disk[Staged(m)]
      BY <1>1, <2>3, <3>1
    <3>4. Effective(m)' = Effective(m) /\ Telling(m)' = Telling(m)
      BY <1>0, <3>3 DEF Effective, Telling, About
    <3>5. \A q : Fits(q) => Fits(q)'
      BY <1>4, <3>1, <3>3, <3>4 DEF Fits
    <3> QED
      BY <1>0, <1>4, <3>1, <3>2, <3>4, <3>5 DEF CalmOK
  <2> QED
    BY <2>1, <2>2, <2>3
<1> QED
  BY <1>2, <1>3, <1>5, <1>6, <1>7 DEF EInv

----------------------------------------------------------------------------
(* What the user does with the editor. *)

\* The editor changes in what the invariant does not speak of.
LEMMA EditorTouched ==
  ASSUME EInv, editor' \in EditorState, editor'.path = editor.path, editor'.inst = editor.inst,
         editor'.saved = editor.saved, editor'.calm = editor.calm,
         UNCHANGED <<files, seen, unsaved, reqs, hist, excused>>
  PROVE  EInv'
<1>0. PageOK /\ StubOK /\ CalmOK /\ UNCHANGED <<disk, git>>
  BY DEF EInv, files
<1>1. PageOK'
  BY <1>0, PageKept, EditorFacts DEF PageOK
<1>2. StubOK'
  BY <1>0, StubStays
<1>3. CalmOK'
  BY <1>0, CalmStays DEF Telling, About
<1> QED
  BY <1>1, <1>2, <1>3, Beyond DEF EInv

\* Requests are sent; none of them removes a stub.
LEMMA Asked ==
  ASSUME EInv, NEW new \in SUBSET Req, reqs' = reqs \cup new,
         \A a \in new : a.stage = "sent" /\ a.op # "delete" /\ WellMade(a)',
         editor' \in EditorState, editor.inst <= editor'.inst, Open => editor'.path = editor.path,
         UNCHANGED <<files, seen, unsaved, hist, excused>>, CalmOK'
  PROVE  EInv'
<1>0. PageOK /\ StubOK /\ UNCHANGED <<disk, git>>
  BY DEF EInv, files
<1>1. PageOK'
  BY <1>0, PageKept DEF PageOK
<1>2. StubOK'
  <2>1. Weighty(reqs') = Weighty(reqs)
    BY DEF Weighty, Saves
  <2> QED
    BY <1>0, <2>1, StubStays
<1> QED
  BY <1>1, <1>2, Beyond DEF EInv

LEMMA OpenStep ==
  ASSUME EInv, NEW n \in Names, OpenEditor(n)
  PROVE  EInv'
<1>0. /\ PageOK /\ ~Open /\ UNCHANGED <<files, seen, unsaved, hist, excused>> /\ UNCHANGED disk
      /\ editor' = Mounted(Final(n), reqs) /\ reqs' = reqs \cup {Load(Final(n), editor.inst + 1)}
      /\ Final(n) \in Paths
  BY PathFacts DEF EInv, OpenEditor, files
<1>1. editor' \in EditorState /\ editor'.inst = editor.inst + 1 /\ editor.inst \in Nat
  BY <1>0, MountedFacts, EditorFacts
<1>2. CalmOK'
  BY <1>0, MountedCalm
<1>3. PICK a : a = Load(Final(n), editor.inst + 1)
  OBVIOUS
<1>4. a \in Req /\ a.op = "load" /\ a.stage = "sent" /\ a.inst = editor'.inst
  <2>1. editor.inst + 1 \in Nat
    BY <1>1
  <2> QED
    BY <1>0, <1>1, <1>3, <2>1, LoadFacts
<1>5. WellMade(a)' /\ editor.inst <= editor'.inst
  BY <1>1, <1>4 DEF WellMade, Saves
<1>6. reqs' = reqs \cup {a} /\ {a} \in SUBSET Req
  BY <1>0, <1>3, <1>4
<1> QED
  BY <1>0, <1>1, <1>2, <1>4, <1>5, <1>6, Asked

LEMMA CreateStep ==
  ASSUME EInv, NEW n \in Names, NEW text \in Texts, CreateDevice(n, text)
  PROVE  EInv'
<1>0. /\ PageOK /\ ~Open /\ UNCHANGED <<files, seen, editor, unsaved, hist, excused>>
      /\ reqs' = reqs \cup {Request("create", Staged(n), text)}
      /\ Staged(n) \in Paths /\ text \in Content /\ text # None /\ "create" \in Ops
  BY PathFacts, TextFacts DEF EInv, CreateDevice, Ops
<1>1. PICK a : a = Request("create", Staged(n), text)
  OBVIOUS
<1>2. /\ a \in Req /\ a.op = "create" /\ a.stage = "sent" /\ a.inst = editor.inst
      /\ a.path = Staged(n) /\ a.value = text
  BY <1>0, <1>1, RequestFacts
<1>3. editor \in EditorState /\ editor.inst \in Nat /\ editor.path = None
  BY <1>0, EditorFacts DEF PageOK, Open
<1>4. WellMade(a)' /\ editor.inst <= editor'.inst
  BY <1>0, <1>2, <1>3, PathFacts DEF WellMade, Saves
<1>5. reqs' = reqs \cup {a} /\ {a} \in SUBSET Req
  BY <1>0, <1>1, <1>2
<1> QED
  BY <1>0, <1>2, <1>3, <1>4, <1>5, Asked, CalmClosed

LEMMA TypeStep ==
  ASSUME EInv, NEW text \in Texts, Type(text)
  PROVE  EInv'
<1>1. /\ editor \in EditorState /\ UNCHANGED <<files, seen, unsaved, reqs, hist, excused>>
      /\ editor' = [editor EXCEPT !.buffer = text, !.dirty = text # editor.saved]
      /\ text \in Content
  BY TextFacts DEF EInv, PageOK, Type
<1>2. PICK d \in BOOLEAN : d = (text # editor.saved)
  OBVIOUS
<1>3. /\ editor' \in EditorState /\ editor'.path = editor.path /\ editor'.inst = editor.inst
      /\ editor'.saved = editor.saved /\ editor'.calm = editor.calm
  BY <1>1, <1>2 DEF EditorState
<1> QED
  BY <1>1, <1>3, EditorTouched

\* A save leaves with the buffer: calm stays when nothing else is on its way.
LEMMA SendStep ==
  ASSUME EInv, NEW op \in Saves, Open, Send(op)
  PROVE  EInv'
<1>0. /\ PageOK /\ UNCHANGED <<files, seen, unsaved, hist, excused>> /\ UNCHANGED disk
      /\ reqs' = reqs \cup {Request(op, editor.path, editor.buffer)} /\ editor.buffer # None
      /\ editor' = [editor EXCEPT !.calm = @ /\ About(Name(editor.path)) = {},
                                  !.dlg = IF @ = "none" THEN @ ELSE "busy"]
  BY DEF EInv, Send, files
<1>1. PICK n \in Names : n = Name(editor.path)
  BY <1>0, EditorFacts
<1>2. /\ editor \in EditorState /\ editor.path \in Paths /\ editor.buffer \in Content
      /\ editor.inst \in Nat /\ op \in Ops
  BY <1>0, EditorFacts DEF PageOK, Ops
<1>3. PICK a : a = Request(op, editor.path, editor.buffer)
  OBVIOUS
<1>4. /\ a \in Req /\ a.op = op /\ a.path = editor.path /\ a.value = editor.buffer
      /\ a.stage = "sent" /\ a.inst = editor.inst
  BY <1>0, <1>2, <1>3, RequestFacts
<1>5. /\ editor' \in EditorState /\ editor'.path = editor.path /\ editor'.inst = editor.inst
      /\ editor'.saved = editor.saved /\ (editor'.calm => editor.calm /\ About(n) = {})
  <2>1. PICK c : c = (editor.calm /\ About(Name(editor.path)) = {})
    OBVIOUS
  <2>2. PICK d \in {"none", "busy"} : d = IF editor.dlg = "none" THEN editor.dlg ELSE "busy"
    OBVIOUS
  <2>3. editor' = [editor EXCEPT !.calm = c, !.dlg = d]
    BY <1>0, <2>1, <2>2
  <2>4. c \in BOOLEAN /\ (c => editor.calm /\ About(n) = {})
    BY <1>1, <1>2, <2>1 DEF EditorState
  <2> QED
    BY <1>2, <2>3, <2>4 DEF EditorState
<1>6. CalmOK'
  <2> SUFFICES ASSUME editor'.calm
               PROVE  CalmOK'
    BY CalmOff
  <2>1. editor.calm /\ About(n) = {}
    BY <1>5
  <2>2. /\ (\A q \in Telling(n) : ~Unsettling(q)) => editor.saved = Effective(n)
        /\ \A q \in reqs : q.op \in Saves \cup {"load", "committing"} /\ q.inst = editor.inst =>
             Name(q.path) = n
    BY <1>1, <2>1, CalmFacts
  <2>3. Telling(n)' = {a} /\ editor.saved = Effective(n) /\ Effective(n)' = Effective(n)
    <3>1. Telling(n) = {} /\ (\A q \in reqs : Name(q.path) # n)
      BY <2>1 DEF Telling, About
    <3>2. a.op \notin {"commit", "flush"} /\ Name(a.path) = n
      BY <1>1, <1>4 DEF Saves
    <3> QED
      BY <1>0, <1>3, <2>2, <3>1, <3>2 DEF Telling, About, Effective
  <2>4. Fits(a)' /\ ~Unsettling(a)
    BY <1>4, <1>5 DEF Fits, Unsettling, Saves
  <2>5. \A q \in reqs' : q.op \in Saves \cup {"load", "committing"} /\ q.inst = editor'.inst =>
          Name(q.path) = n
    BY <1>0, <1>1, <1>3, <1>4, <1>5, <2>2
  <2> QED
    BY <1>1, <1>5, <2>3, <2>4, <2>5 DEF CalmOK, Unsettling
<1>7. WellMade(a)' /\ editor.inst <= editor'.inst /\ a.op # "delete"
  BY <1>0, <1>2, <1>4, <1>5 DEF WellMade, Saves
<1>8. reqs' = reqs \cup {a} /\ {a} \in SUBSET Req
  BY <1>0, <1>3, <1>4
<1> QED
  BY <1>0, <1>4, <1>5, <1>6, <1>7, <1>8, Asked

\* A dialog of the editor opens or goes.
LEMMA DialogStep ==
  ASSUME EInv, NEW d \in {"none", "confirm", "close", "upgrade"}, editor' = [editor EXCEPT !.dlg = d],
         UNCHANGED <<files, seen, unsaved, reqs, hist, excused>>
  PROVE  EInv'
<1>1. editor \in EditorState
  BY DEF EInv, PageOK
<1>2. /\ editor' \in EditorState /\ editor'.path = editor.path /\ editor'.inst = editor.inst
      /\ editor'.saved = editor.saved /\ editor'.calm = editor.calm
  BY <1>1 DEF EditorState
<1> QED
  BY <1>2, EditorTouched

LEMMA CloseStep ==
  ASSUME EInv, CloseClicked
  PROVE  EInv'
<1>1. CASE editor' = [editor EXCEPT !.dlg = "confirm"] /\ UNCHANGED <<unsaved, reqs, excused>>
  BY <1>1, DialogStep DEF CloseClicked
<1>2. CASE CloseBy(editor.path, reqs, {})
  <2>1. editor.path \in Paths /\ reqs \in SUBSET reqs /\ UNCHANGED <<files, seen, hist>>
    BY EditorFacts DEF CloseClicked, EInv
  <2> QED
    BY <1>2, <2>1, ClosedBy
<1> QED
  BY <1>1, <1>2 DEF CloseClicked

LEMMA EditingStep ==
  ASSUME EInv, Editing
  PROVE  EInv'
<1>1. ASSUME NEW op \in {"close", "upgrade"}, AskMessage(op)
      PROVE  EInv'
  BY <1>1, DialogStep DEF AskMessage
<1>2. CASE \E n \in Names : OpenEditor(n) \/ \E text \in Texts : CreateDevice(n, text)
  BY <1>2, OpenStep, CreateStep
<1>3. CASE \E text \in Texts : Type(text)
  BY <1>3, TypeStep
<1>4. CASE handleSave \/ Validate
  BY <1>4, SendStep DEF handleSave, Validate, Saves
<1>5. CASE onSaveAndCloseClicked
  BY <1>1, <1>5, SendStep DEF onSaveAndCloseClicked, Saves
<1>6. CASE onSaveAndUpgradeClicked
  BY <1>1, <1>6, SendStep DEF onSaveAndUpgradeClicked, Saves
<1>7. CASE \E op \in {"close", "upgrade"} : confirmCommitDialog(op)
  BY <1>7, SendStep DEF confirmCommitDialog, Saves
<1>8. CASE DismissDialog
  BY <1>8, DialogStep DEF DismissDialog
<1>9. CASE CloseClicked
  BY <1>9, CloseStep
<1> QED
  BY <1>2, <1>3, <1>4, <1>5, <1>6, <1>7, <1>8, <1>9 DEF Editing

----------------------------------------------------------------------------
(* The history panel. *)

\* Neither the editor nor a file is touched.
LEMMA Aside ==
  ASSUME EInv, FilesOK', HistOK', seen' \in Seen, seen'.git # "unset" => git'.enabled # "unset",
         UNCHANGED <<disk, editor, unsaved, reqs, excused>>
  PROVE  EInv'
<1>0. PageOK /\ StubOK /\ CalmOK
  BY DEF EInv
<1>1. PageOK'
  BY <1>0 DEF PageOK, WellMade
<1>2. StubOK'
  BY <1>0, StubStays
<1>3. CalmOK'
  BY <1>0, CalmStays DEF Telling, About
<1> QED
  BY <1>1, <1>2, <1>3 DEF EInv

LEMMA HistOnly ==
  ASSUME EInv, HistOK', UNCHANGED <<files, seen, editor, unsaved, reqs, excused>>
  PROVE  EInv'
<1>1. FilesOK' /\ seen' \in Seen /\ (seen'.git # "unset" => git'.enabled # "unset") /\ UNCHANGED disk
  BY DEF EInv, files, FilesOK, PageOK
<1> QED
  BY <1>1, Aside

\* The panel as the actions see it.
LEMMA HistFacts ==
  ASSUME EInv, hist # NoHist
  PROVE  /\ hist \in Hist /\ hist.file \in Names /\ hist.entries \in -1..MaxCommits
         /\ hist.from \in 0..Elsewhere /\ hist.to \in 1..Elsewhere /\ hist.rounds \in 0..3
         /\ hist.link \in {0, Elsewhere} \cup 1..MaxCommits /\ hist.due \subseteq {"swap", "preset"}
         /\ MaxCommits \in Nat /\ WORKING_TREE = MaxCommits + 1 /\ Elsewhere = MaxCommits + 2
         /\ Len(log[hist.file]) \in 0..MaxCommits /\ hist.entries <= Len(log[hist.file])
         /\ log[hist.file] \in Seq(Content)
<1>1. hist \in Hist /\ hist.entries <= Len(log[hist.file]) /\ FilesOK
  BY DEF EInv, HistOK
<1>2. hist.file \in Names
  BY <1>1 DEF Hist
<1>3. log[hist.file] \in Seq(Content) /\ Len(log[hist.file]) <= MaxCommits
  BY <1>1, <1>2 DEF FilesOK
<1>4. Len(log[hist.file]) \in Nat
  BY <1>3, LenProperties
<1> QED
  BY <1>1, <1>2, <1>3, <1>4, EditorAssumption DEF Hist, WORKING_TREE, Elsewhere

\* Of two versions at most one is newer than the other.
LEMMA NewerOneWay ==
  ASSUME NEW a \in Int, NEW b \in Int, NEW e \in Int, newer(a, b, e)
  PROVE  ~newer(b, a, e)
  BY DEF newer, Known

LEMMA OpenHistoryStep ==
  ASSUME EInv, NEW n \in Names, NEW link \in {0, Elsewhere} \cup 1..MaxCommits, OpenHistory(n, link)
  PROVE  EInv'
<1>0. /\ FilesOK /\ git.enabled # "unset" /\ UNCHANGED <<files, seen, editor, unsaved, reqs, excused>>
      /\ UNCHANGED <<log, git>>
      /\ hist' = [file |-> n, link |-> link, entries |-> -1, from |-> 0, to |-> WORKING_TREE,
                  due |-> {"swap", "preset"}, rounds |-> 0]
  BY DEF EInv, PageOK, OpenHistory, files
<1>1. hist' \in Hist /\ -1 <= Len(log'[n])
  <2>1. Len(log[n]) \in Nat
    BY <1>0, LenProperties DEF FilesOK
  <2>2. -1 \in -1..MaxCommits /\ 0 \in 0..Elsewhere /\ WORKING_TREE \in 1..Elsewhere /\ 0 \in 0..3
    BY EditorAssumption DEF WORKING_TREE, Elsewhere
  <2> QED
    BY <1>0, <2>1, <2>2 DEF Hist
<1>2. HistOK'
  BY <1>0, <1>1 DEF HistOK
<1> QED
  BY <1>0, <1>2, HistOnly

LEMMA ArrivesStep ==
  ASSUME EInv, HistoryArrives
  PROVE  EInv'
<1>0. /\ hist # NoHist /\ HistOK /\ UNCHANGED <<files, seen, editor, unsaved, reqs, excused>>
      /\ UNCHANGED <<log, git>>
      /\ hist' = [hist EXCEPT !.entries = Len(log[hist.file]), !.due = {"swap", "preset"}, !.rounds = 0]
  BY DEF EInv, HistoryArrives, files
<1>1. PICK e \in 0..MaxCommits : e = Len(log[hist.file])
  BY <1>0, HistFacts
<1>2. hist \in Hist /\ MaxCommits \in Nat
  BY <1>0, HistFacts
<1>3. /\ hist' \in Hist /\ hist'.entries = e /\ hist'.file = hist.file /\ hist'.rounds = 0
      /\ hist'.due = {"swap", "preset"}
  <2>1. hist' = [hist EXCEPT !.entries = e, !.due = {"swap", "preset"}, !.rounds = 0]
    BY <1>0, <1>1
  <2>2. e \in -1..MaxCommits /\ 0 \in 0..3 /\ {"swap", "preset"} \in SUBSET {"swap", "preset"}
    BY <1>1, <1>2
  <2> QED
    BY <1>2, <2>1, <2>2 DEF Hist
<1>4. HistOK'
  BY <1>0, <1>1, <1>3 DEF HistOK
<1> QED
  BY <1>0, <1>4, HistOnly

\* A pair is picked among the versions the panel shows.
LEMMA PickStep ==
  ASSUME EInv, NEW from, NEW to, Pick(from, to), Shown(from), Shown(to)
  PROVE  EInv'
<1>0. /\ hist # NoHist /\ HistOK /\ UNCHANGED <<files, seen, editor, unsaved, reqs, excused>>
      /\ UNCHANGED <<log, git>> /\ hist.entries > 0
      /\ hist' = [hist EXCEPT !.from = from, !.to = to, !.due = {"swap"}, !.rounds = 0]
  BY DEF EInv, Pick, files
<1>1. hist \in Hist /\ from \in 1..Elsewhere /\ to \in 1..Elsewhere /\ Elsewhere \in Nat
  BY <1>0, HistFacts DEF Shown, Known
<1>2. /\ hist' \in Hist /\ hist'.entries = hist.entries /\ hist'.file = hist.file /\ hist'.rounds = 0
      /\ hist'.due = {"swap"} /\ hist'.from = from /\ hist'.to = to
  <2>1. from \in 0..Elsewhere /\ 0 \in 0..3 /\ {"swap"} \in SUBSET {"swap", "preset"}
    BY <1>1
  <2> QED
    BY <1>0, <1>1, <2>1 DEF Hist
<1>3. HistOK'
  BY <1>0, <1>2 DEF HistOK, Shown
<1> QED
  BY <1>0, <1>3, HistOnly

LEMMA PickersStep ==
  ASSUME EInv, NEW h, HashPicker(h) \/ ClickCommit(h)
  PROVE  EInv'
<1>1. hist # NoHist /\ hist.due = {} /\ hist.entries > 0
  BY DEF HashPicker, ClickCommit, Pick
<1>2. Shown(hist.from) /\ Shown(hist.to)
  BY <1>1 DEF EInv, HistOK
<1>3. hist.entries \in Int
  BY <1>1, HistFacts
<1>4. CASE HashPicker(h)
  <2>1. Shown(h)
    BY <1>4 DEF HashPicker, Shown, Known
  <2> QED
    BY <1>2, <1>4, <2>1, PickStep DEF HashPicker
<1>5. CASE ClickCommit(h)
  <2>1. PICK g : g = IF h = 1 THEN 1 ELSE h - 1
    OBVIOUS
  <2>2. Shown(h) /\ Shown(g)
    BY <1>1, <1>3, <1>5, <2>1 DEF ClickCommit, Shown, Known
  <2> QED
    BY <1>5, <2>1, <2>2, PickStep DEF ClickCommit
<1> QED
  BY <1>4, <1>5

\* One render: after the preset the pair is one of the list, after a swap it is in order.
LEMMA EffectsStep ==
  ASSUME EInv, Effects
  PROVE  EInv'
<1> DEFINE e == hist.entries
           swap == "swap" \in hist.due /\ hist.from # 0 /\ newer(hist.from, hist.to, e)
           f1 == IF swap THEN hist.to ELSE hist.from
           t1 == IF swap THEN hist.from ELSE hist.to
           f2 == IF "preset" \notin hist.due THEN f1
                 ELSE IF e <= 0 \/ (hist.link # 0 /\ Known(hist.link, e)) THEN hist.link
                 ELSE IF Known(f1, e) THEN f1 ELSE e
           t2 == IF "preset" \in hist.due /\ (e <= 0 \/ ~Known(t1, e)) THEN WORKING_TREE ELSE t1
           due2 == IF <<f2, t2>> = <<hist.from, hist.to>> THEN {} ELSE {"swap"}
<1>0. /\ hist # NoHist /\ hist.due # {} /\ HistOK
      /\ UNCHANGED <<files, seen, editor, unsaved, reqs, excused>> /\ UNCHANGED <<log, git>>
      /\ hist' = [hist EXCEPT !.from = f2, !.to = t2, !.rounds = @ + 1, !.due = due2]
  BY DEF EInv, Effects, files
<1>1. /\ hist \in Hist /\ e \in -1..MaxCommits
      /\ hist.from \in 0..Elsewhere /\ hist.to \in 1..Elsewhere /\ hist.rounds \in 0..3
      /\ hist.link \in {0, Elsewhere} \cup 1..MaxCommits /\ hist.due \subseteq {"swap", "preset"}
      /\ MaxCommits \in Nat /\ WORKING_TREE = MaxCommits + 1 /\ Elsewhere = MaxCommits + 2
  BY <1>0, HistFacts
<1>2. /\ hist.rounds <= 2
      /\ "preset" \in hist.due => "swap" \in hist.due /\ hist.rounds = 0
      /\ hist.rounds = 2 => Swapped
      /\ "preset" \notin hist.due =>
           IF e > 0 THEN Shown(hist.from) /\ Shown(hist.to) ELSE hist.to = WORKING_TREE
  BY <1>0 DEF HistOK
<1>3. f1 \in 0..Elsewhere /\ t1 \in 1..Elsewhere
  BY <1>1
<1>4. f2 \in 0..Elsewhere /\ t2 \in 1..Elsewhere
  <2>1. f2 \in 0..Elsewhere
    <3> HIDE DEF f1
    <3> QED
      BY <1>1, <1>3
  <2>2. t2 \in 1..Elsewhere
    <3>1. WORKING_TREE \in 1..Elsewhere
      BY <1>1
    <3>2. t2 = WORKING_TREE \/ t2 = t1
      OBVIOUS
    <3> HIDE DEF t1, t2
    <3> QED
      BY <1>3, <3>1, <3>2
  <2> QED
    BY <2>1, <2>2
\* When the pair has not changed, it is in order.
<1>5. due2 = {} => f2 = 0 \/ ~newer(f2, t2, e)
  <2> SUFFICES ASSUME f2 = hist.from, t2 = hist.to, f2 # 0, newer(f2, t2, e)
               PROVE  FALSE
    OBVIOUS
  <2>1. hist.from # hist.to /\ newer(hist.from, hist.to, e) /\ hist.from # 0
    BY DEF newer
  <2>2. "swap" \in hist.due
    BY <1>0, <1>1, <1>2
  <2>3. f1 = hist.to /\ t1 = hist.from
    BY <2>1, <2>2
  <2>4. "preset" \in hist.due
    BY <2>1, <2>3
  <2>5. CASE e <= 0
    <3>1. hist.to = WORKING_TREE
      BY <2>4, <2>5
    <3> QED
      BY <2>1, <3>1 DEF newer
  <2>6. CASE e > 0
    <3>1. ~Known(hist.from, e)
      BY <1>1, <2>1, <2>3, <2>4, <2>6
    <3>2. hist.from = WORKING_TREE
      BY <2>1, <3>1 DEF newer
    <3>3. Known(f2, e)
      BY <1>1, <2>3, <2>4, <2>6 DEF Known
    <3> QED
      BY <3>1, <3>3
  <2> QED
    BY <1>1, <2>5, <2>6
\* A swap puts the pair in order, and the second render swaps only what the preset has left.
<1>6. due2 # {} => hist.rounds <= 1
  <2> SUFFICES ASSUME hist.rounds = 2
               PROVE  due2 = {}
    BY <1>1, <1>2
  <2>1. Swapped /\ "preset" \notin hist.due
    BY <1>2
  <2>2. ~swap
    BY <2>1 DEF Swapped
  <2> QED
    BY <2>1, <2>2
<1>7. hist.rounds + 1 = 2 => f2 = 0 \/ ~newer(f2, t2, e)
  <2> SUFFICES ASSUME hist.rounds + 1 = 2
               PROVE  f2 = 0 \/ ~newer(f2, t2, e)
    OBVIOUS
  <2>1. "preset" \notin hist.due /\ "swap" \in hist.due
    BY <1>0, <1>1, <1>2
  <2>2. f2 = f1 /\ t2 = t1
    BY <2>1
  <2>3. CASE swap
    <3>1. f2 = hist.to /\ t2 = hist.from /\ newer(hist.from, hist.to, e)
      BY <2>2, <2>3
    <3>2. hist.from \in Int /\ hist.to \in Int /\ e \in Int
      BY <1>1
    <3>3. ~newer(hist.to, hist.from, e)
      BY <3>1, <3>2, NewerOneWay
    <3> QED
      BY <3>1, <3>3
  <2>4. CASE ~swap
    BY <2>1, <2>2, <2>4
  <2> QED
    BY <2>3, <2>4
<1>8. IF e > 0 THEN (Known(f2, e) \/ f2 = WORKING_TREE) /\ (Known(t2, e) \/ t2 = WORKING_TREE)
      ELSE t2 = WORKING_TREE
  <2>1. CASE "preset" \in hist.due
    <3> HIDE DEF f1, t1
    <3>1. e > 0 => Known(f2, e)
      BY <1>1, <2>1 DEF Known
    <3>2. t2 = WORKING_TREE \/ (e > 0 /\ Known(t2, e))
      <4>1. e <= 0 \/ e > 0
        BY <1>1
      <4> QED
        BY <2>1, <4>1
    <3> QED
      BY <1>1, <3>1, <3>2
  <2>2. CASE "preset" \notin hist.due
    <3>1. f2 = f1 /\ t2 = t1
      BY <2>2
    <3>2. hist.to = WORKING_TREE => ~swap
      BY DEF newer
    <3> QED
      BY <1>2, <2>2, <3>1, <3>2 DEF Shown
  <2> QED
    BY <2>1, <2>2
<1>9. due2 \in {{}, {"swap"}}
  OBVIOUS
<1>10. PICK F, T, D : F = f2 /\ T = t2 /\ D = due2
  OBVIOUS
<1>11. /\ hist' \in Hist /\ hist'.entries = hist.entries /\ hist'.file = hist.file
       /\ hist'.rounds = hist.rounds + 1 /\ hist'.due = D /\ hist'.from = F /\ hist'.to = T
  <2>1. hist' = [hist EXCEPT !.from = F, !.to = T, !.rounds = @ + 1, !.due = D]
    BY <1>0, <1>10
  <2>2. F \in 0..Elsewhere /\ T \in 1..Elsewhere /\ D \in SUBSET {"swap", "preset"}
    BY <1>4, <1>9, <1>10
  <2>3. hist.rounds + 1 \in 0..3
    BY <1>1, <1>2
  <2> HIDE DEF f2, t2, due2, e
  <2> QED
    BY <1>1, <2>1, <2>2, <2>3 DEF Hist
<1>12. HistOK'
  <2>1. git'.enabled # "unset" /\ hist'.entries <= Len(log'[hist'.file])
    BY <1>0, <1>11 DEF HistOK
  <2>2. hist'.due # {} => hist'.rounds <= 2
    <3>1. D # {} => hist.rounds <= 1
      BY <1>6, <1>10
    <3> QED
      BY <1>1, <1>11, <3>1
  <2>3. "preset" \notin hist'.due
    BY <1>9, <1>10, <1>11
  <2>4. hist'.due = {} \/ hist'.rounds = 2 => Swapped'
    <3>1. D = {} \/ hist.rounds + 1 = 2 => F = 0 \/ ~newer(F, T, hist.entries)
      BY <1>5, <1>7, <1>10
    <3>2. newer(F, T, hist.entries) <=> newer(hist'.from, hist'.to, hist'.entries)
      BY <1>11
    <3> QED
      BY <1>11, <3>1, <3>2 DEF Swapped
  <2>5. IF hist'.entries > 0 THEN Shown(hist.from)' /\ Shown(hist.to)' ELSE hist'.to = WORKING_TREE
    <3>1. IF hist.entries > 0
          THEN /\ Known(F, hist.entries) \/ F = WORKING_TREE
               /\ Known(T, hist.entries) \/ T = WORKING_TREE
          ELSE T = WORKING_TREE
      BY <1>8, <1>10
    <3> QED
      BY <1>11, <3>1 DEF Shown
  <2> QED
    BY <1>11, <2>1, <2>2, <2>3, <2>4, <2>5 DEF HistOK
<1> QED
  BY <1>0, <1>12, HistOnly

\* Roll-back: one request about the file, beside which the editor is calm only
\* when it goes by the same name and has nothing else on its way.
LEMMA RollbackStep ==
  ASSUME EInv, NEW k, handleRollback(k)
  PROVE  EInv'
<1>0. /\ PageOK /\ CalmOK /\ hist # NoHist /\ UNCHANGED <<files, seen, unsaved, hist, excused>>
      /\ UNCHANGED disk /\ Known(k, hist.entries) /\ log[hist.file][k] # None
      /\ reqs' = reqs \cup {Request("restore", Final(hist.file), log[hist.file][k])}
      /\ editor' = Beside(hist.file)
  BY DEF EInv, handleRollback, files
<1>1. PICK m \in Names, v \in Content : m = hist.file /\ v = log[hist.file][k] /\ v # None
  <2>1. /\ hist.file \in Names /\ log[hist.file] \in Seq(Content) /\ Len(log[hist.file]) \in Nat
        /\ hist.entries \in Int /\ hist.entries <= Len(log[hist.file])
    BY <1>0, HistFacts
  <2>2. k \in 1..Len(log[hist.file])
    BY <1>0, <2>1 DEF Known
  <2>3. log[hist.file][k] \in Content
    BY <2>1, <2>2, ElementOfSeq
  <2> QED
    BY <1>0, <2>1, <2>3
<1>2. PICK a : a = Request("restore", Final(m), v)
  OBVIOUS
<1>3. /\ a \in Req /\ a.op = "restore" /\ a.path = Final(m) /\ a.value = v
      /\ a.stage = "sent" /\ a.inst = editor.inst
  <2>1. "restore" \in Ops /\ Final(m) \in Paths
    BY PathFacts DEF Ops
  <2> QED
    BY <1>0, <1>2, <2>1, RequestFacts
<1>4. /\ editor' \in EditorState /\ editor'.path = editor.path /\ editor'.inst = editor.inst
      /\ editor'.saved = editor.saved /\ (editor'.calm => UNCHANGED editor)
      /\ Open' = Open /\ editor.inst \in Nat
  BY <1>0, Unsettled, EditorFacts DEF Beside
<1>5. reqs' = reqs \cup {a} /\ {a} \in SUBSET Req
  BY <1>0, <1>1, <1>2, <1>3
<1>6. CalmOK'
  <2> SUFFICES ASSUME Open, editor'.calm
               PROVE  CalmOK'
    BY <1>4 DEF CalmOK
  <2>1. PICK n \in Names : n = Name(editor.path)
    BY <1>0, EditorFacts
  <2>2. editor.calm /\ UNCHANGED editor
    BY <1>4
  <2>3. /\ \A q \in Telling(n) : Fits(q)
        /\ (\A q \in Telling(n) : ~Unsettling(q)) => editor.saved = Effective(n)
        /\ \A q \in reqs : q.op \in Saves \cup {"load", "committing"} /\ q.inst = editor.inst =>
             Name(q.path) = n
    BY <2>1, <2>2, CalmFacts
  <2>4. \A q \in reqs' : q.op \in Saves \cup {"load", "committing"} /\ q.inst = editor'.inst =>
          Name(q.path) = n
    BY <1>3, <1>5, <2>2, <2>3 DEF Saves
  <2>5. CASE n = m
    <3>1. About(n) = {} /\ editor.path = Final(n)
      <4>1. editor.calm = TRUE /\ editor \in EditorState
        BY <1>0, <2>2 DEF PageOK, EditorState
      <4>2. [editor EXCEPT !.calm = FALSE].calm = FALSE
        BY <4>1 DEF EditorState
      <4> QED
        BY <1>0, <1>1, <2>1, <2>2, <2>5, <4>1, <4>2 DEF Beside
    <3>2. Telling(n) = {} /\ (\A q \in reqs : Name(q.path) # n)
      BY <3>1 DEF Telling, About
    <3>3. Telling(n)' = {a}
      <4>1. Name(a.path) = n
        BY <1>3, <2>5, PathFacts
      <4> QED
        BY <1>3, <1>5, <3>2, <4>1 DEF Telling, About
    <3>4. Fits(a)' /\ ~Unsettling(a)
      BY <1>3, <2>1, <2>2, <3>1 DEF Fits, Unsettling, Saves
    <3>5. editor.saved = Effective(n) /\ Effective(n)' = Effective(n)
      BY <1>0, <2>3, <3>2 DEF Effective
    <3> QED
      BY <2>1, <2>2, <2>4, <3>3, <3>4, <3>5 DEF CalmOK, Unsettling
  <2>6. CASE n # m
    <3>1. Telling(n)' = Telling(n)
      BY <1>3, <1>5, <2>6, PathFacts DEF Telling, About
    <3>2. \A q \in reqs' \ reqs : q.op \notin Saves \cup {"load", "committing"}
      BY <1>3, <1>5 DEF Saves
    <3> QED
      BY <1>0, <2>1, <2>2, <3>1, <3>2, CalmStays
  <2> QED
    BY <2>5, <2>6
<1>7. WellMade(a)' /\ editor.inst <= editor'.inst /\ a.op # "delete"
  BY <1>1, <1>3, <1>4, PathFacts DEF WellMade, Saves
<1> QED
  BY <1>0, <1>3, <1>4, <1>5, <1>6, <1>7, Asked

\* Commits, asked for one by one or before auto-commit is turned on, change no file.
LEMMA CommitRequests ==
  ASSUME EInv, NEW ns \in SUBSET Names, NEW op \in {"commit", "flush"},
         reqs' = reqs \cup {Request(op, Final(n), None) : n \in ns},
         UNCHANGED <<files, seen, editor, unsaved, hist, excused>>
  PROVE  EInv'
<1>0. PageOK /\ CalmOK /\ UNCHANGED disk /\ editor \in EditorState /\ editor.inst \in Nat
  BY EditorFacts DEF EInv, PageOK, files
<1>1. PICK new : new = {Request(op, Final(n), None) : n \in ns}
  OBVIOUS
<1>2. \A a \in new : /\ a \in Req /\ a.op = op /\ a.stage = "sent" /\ a.inst = editor.inst
                     /\ a.path = Final(Name(a.path))
  <2> SUFFICES ASSUME NEW n \in ns
               PROVE  LET a == Request(op, Final(n), None)
                      IN /\ a \in Req /\ a.op = op /\ a.stage = "sent" /\ a.inst = editor.inst
                         /\ a.path = Final(Name(a.path))
    BY <1>1
  <2>1. n \in Names /\ Final(n) \in Paths /\ Name(Final(n)) = n /\ op \in Ops /\ None \in Content
    BY PathFacts, TextFacts DEF Ops
  <2>2. PICK a : a = Request(op, Final(n), None)
    OBVIOUS
  <2>3. a \in Req /\ a.op = op /\ a.stage = "sent" /\ a.inst = editor.inst /\ a.path = Final(n)
    BY <1>0, <2>1, <2>2, RequestFacts
  <2> QED
    BY <2>1, <2>2, <2>3
<1>3. \A a \in new : a.op # "delete" /\ WellMade(a)'
  BY <1>0, <1>2 DEF WellMade, Saves
<1>4. reqs' = reqs \cup new /\ new \in SUBSET Req
  BY <1>1, <1>2
<1>5. CalmOK'
  <2>1. \A n : Telling(n)' = Telling(n)
    BY <1>2, <1>4 DEF Telling, About
  <2>2. \A q \in reqs' \ reqs : q.op \notin Saves \cup {"load", "committing"}
    BY <1>2, <1>4 DEF Saves
  <2> QED
    BY <1>0, <2>1, <2>2, CalmStays
<1>6. editor.inst <= editor'.inst
  BY <1>0
<1> QED
  BY <1>0, <1>2, <1>3, <1>4, <1>5, <1>6, Asked

LEMMA HistoryStep ==
  ASSUME EInv, History
  PROVE  EInv'
<1>1. CASE \E n \in Names, link \in {0, Elsewhere} \cup 1..MaxCommits : OpenHistory(n, link)
  BY <1>1, OpenHistoryStep
<1>2. CASE CloseHistory
  <2>1. HistOK'
    BY <1>2 DEF CloseHistory, HistOK
  <2> QED
    BY <1>2, <2>1, HistOnly DEF CloseHistory
<1>3. CASE HistoryArrives
  BY <1>3, ArrivesStep
<1>4. CASE Effects
  BY <1>4, EffectsStep
<1>5. CASE \E h \in 1..WORKING_TREE : HashPicker(h) \/ ClickCommit(h)
  BY <1>5, PickersStep
<1>6. CASE \E k \in 1..MaxCommits : handleRollback(k)
  BY <1>6, RollbackStep
<1>7. ASSUME NEW ns \in SUBSET Names, Commit(ns)
      PROVE  EInv'
  BY <1>7, CommitRequests DEF Commit
<1>8. CASE \E n \in Names : CommitRow(n)
  BY <1>7, <1>8 DEF CommitRow
<1>9. CASE handleManualCommit
  <2>1. hist # NoHist /\ Commit({hist.file})
    BY <1>9 DEF handleManualCommit
  <2>2. {hist.file} \in SUBSET Names
    BY <2>1, HistFacts
  <2> QED
    BY <1>7, <2>1, <2>2
<1>10. CASE handleCommitAll
  <2>1. seen.dirty \in SUBSET Names
    BY DEF EInv, PageOK, Seen
  <2> QED
    BY <1>7, <1>10, <2>1 DEF handleCommitAll
<1> QED
  BY <1>1, <1>2, <1>3, <1>4, <1>5, <1>6, <1>8, <1>9, <1>10 DEF History

----------------------------------------------------------------------------
(* Settings and the poll. *)

LEMMA PatchedStep ==
  ASSUME EInv, NEW b \in BOOLEAN, Patched(b),
         UNCHANGED <<disk, log, git, editor, unsaved, reqs, hist, excused>>
  PROVE  EInv'
<1>0. FilesOK /\ PageOK /\ HistOK /\ auto' = b /\ seen' = [seen EXCEPT !.auto = b]
  BY DEF EInv, Patched
<1>1. FilesOK' /\ LogStep
  BY <1>0, LogSame DEF FilesOK
<1>2. HistOK'
  BY <1>0, <1>1, HistStays
<1>3. seen' \in Seen /\ seen'.git = seen.git
  BY <1>0 DEF PageOK, Seen
<1> QED
  BY <1>0, <1>1, <1>2, <1>3, Aside DEF PageOK

LEMMA AskOnly ==
  ASSUME EInv, UNCHANGED <<disk, log, auto, git, seen, editor, unsaved, reqs, hist, excused>>
  PROVE  EInv'
<1>0. FilesOK /\ PageOK /\ HistOK
  BY DEF EInv
<1>1. FilesOK' /\ LogStep
  BY <1>0, LogSame DEF FilesOK
<1>2. HistOK'
  BY <1>0, <1>1, HistStays
<1> QED
  BY <1>0, <1>1, <1>2, Aside DEF PageOK

LEMMA VersioningStep ==
  ASSUME EInv, NEW v \in {"on", "off"}, SetVersioning(v)
  PROVE  EInv'
<1>0. /\ FilesOK /\ PageOK /\ HistOK /\ git' = [enabled |-> v, repo |-> git.repo \/ v = "on"]
      /\ log' = (IF v = "on" /\ ~git.repo
                 THEN [n \in Names |-> IF disk[Final(n)] = None THEN <<>> ELSE <<disk[Final(n)]>>]
                 ELSE log)
      /\ seen' = [seen EXCEPT !.git = v]
      /\ UNCHANGED <<disk, timer, auto, editor, unsaved, reqs, hist, ask, excused>>
      /\ git.enabled = "unset" \/ hist = NoHist
  BY DEF EInv, SetVersioning
<1>1. FilesOK'
  <2>1. \A n \in Names : disk[Final(n)] \in Content
    BY <1>0, PathFacts DEF FilesOK
  <2>2. \A c \in Content : <<c>> \in Seq(Content) /\ Len(<<c>>) <= MaxCommits
    BY EditorAssumption
  <2>3. <<>> \in Seq(Content) /\ Len(<<>>) <= MaxCommits
    BY EditorAssumption
  <2>4. log' \in [Names -> Seq(Content)] /\ \A n \in Names : Len(log'[n]) <= MaxCommits
    <3>1. CASE v = "on" /\ ~git.repo
      BY <1>0, <2>1, <2>2, <2>3, <3>1
    <3>2. CASE ~(v = "on" /\ ~git.repo)
      BY <1>0, <3>2 DEF FilesOK
    <3> QED
      BY <3>1, <3>2
  <2>5. git' \in [enabled : Settled, repo : BOOLEAN]
    BY <1>0 DEF FilesOK, Settled
  <2> QED
    BY <1>0, <2>4, <2>5 DEF FilesOK
<1>2. HistOK'
  BY <1>0 DEF HistOK
<1>3. seen' \in Seen /\ git'.enabled # "unset"
  BY <1>0 DEF PageOK, Seen, Settled
<1> QED
  BY <1>0, <1>1, <1>2, <1>3, Aside

LEMMA SettingsStep ==
  ASSUME EInv, Settings
  PROVE  EInv'
<1>0. seen.auto \in BOOLEAN /\ seen.dirty \in SUBSET Names
  BY DEF EInv, PageOK, Seen
<1>1. CASE ToggleAuto
  BY <1>0, <1>1, PatchedStep, AskOnly DEF ToggleAuto
<1>2. CASE TurnOnAnyway
  BY <1>2, PatchedStep DEF TurnOnAnyway
<1>3. CASE CommitAndTurnOn
  BY <1>0, <1>3, CommitRequests DEF CommitAndTurnOn
<1>4. CASE TurnOnAfterCommits
  BY <1>4, PatchedStep, AskOnly DEF TurnOnAfterCommits
<1>5. CASE DismissAsk
  BY <1>5, AskOnly DEF DismissAsk, files
<1>6. CASE \E v \in {"on", "off"} : SetVersioning(v)
  BY <1>6, VersioningStep
<1> QED
  BY <1>1, <1>2, <1>3, <1>4, <1>5, <1>6 DEF Settings

LEMMA ViewFacts ==
  ASSUME FilesOK
  PROVE  View \in Seen /\ View.git = git.enabled
<1>1. PICK D \in SUBSET Names : D = IF Versioned THEN {n \in Names : Dirty(n)} ELSE {}
  OBVIOUS
<1>2. PICK T \in SUBSET Names : T = {n \in Names : disk[Final(n)] # None}
  OBVIOUS
<1>3. View = [auto |-> auto, git |-> git.enabled, targets |-> T, dirty |-> D]
  BY <1>1, <1>2 DEF View
<1> QED
  BY <1>3 DEF FilesOK, Seen

LEMMA PollStep ==
  ASSUME EInv, Poll
  PROVE  EInv'
<1>1. FilesOK' /\ HistOK'
  BY Beyond DEF Poll
<1>2. seen' \in Seen /\ seen'.git = git.enabled /\ UNCHANGED git
  BY ViewFacts DEF EInv, Poll, files
<1> QED
  BY <1>1, <1>2, Aside DEF Poll, files

----------------------------------------------------------------------------
(* The theorems. *)

LEMMA InitEInv == Init => EInv
<1> SUFFICES ASSUME Init
             PROVE  EInv
  OBVIOUS
<1>1. disk \in [Paths -> Content] /\ \A n \in Names : disk[Staged(n)] = None
  <2>1. PICK there \in SUBSET Names :
          disk = [p \in Paths |-> IF p[2] = "yaml" /\ p[1] \in there THEN Stub ELSE None]
    BY DEF Init
  <2>2. \A n \in Names : Staged(n)[2] = "pending"
    BY DEF Staged
  <2> QED
    BY <2>1, <2>2, TextFacts, PathFacts
<1>2. git \in [enabled : Settled, repo : BOOLEAN]
  <2>1. git = [enabled |-> "unset", repo |-> FALSE] \/ git = [enabled |-> "on", repo |-> TRUE]
    BY DEF Init
  <2>2. [enabled |-> "unset", repo |-> FALSE] \in [enabled : Settled, repo : BOOLEAN]
    BY DEF Settled
  <2>3. [enabled |-> "on", repo |-> TRUE] \in [enabled : Settled, repo : BOOLEAN]
    BY DEF Settled
  <2> QED
    BY <2>1, <2>2, <2>3
<1>3. log \in [Names -> Seq(Content)] /\ \A n \in Names : Len(log[n]) <= MaxCommits
  <2>1. PICK past \in {<<>>} \cup {<<text>> : text \in Texts \ {Stub}} :
          log = [n \in Names |-> IF git.repo /\ disk[Final(n)] # None
                                 THEN Append(past, disk[Final(n)]) ELSE <<>>]
    BY DEF Init
  <2>2. past \in Seq(Content) /\ Len(past) \in Nat /\ Len(past) <= 1
    <3>1. CASE past = <<>>
      BY <3>1
    <3>2. ASSUME NEW text \in Texts, past = <<text>>
          PROVE  past \in Seq(Content) /\ Len(past) \in Nat /\ Len(past) <= 1
      BY <3>2, TextFacts
    <3> QED
      BY <2>1, <3>1, <3>2
  <2>3. \A c \in Content : Append(past, c) \in Seq(Content) /\ Len(Append(past, c)) = Len(past) + 1
    BY <2>2, AppendProperties
  <2>4. \A n \in Names : disk[Final(n)] \in Content
    BY <1>1, PathFacts
  <2>5. <<>> \in Seq(Content) /\ Len(<<>>) = 0
    OBVIOUS
  <2>6. MaxCommits \in Nat /\ MaxCommits >= 2
    BY EditorAssumption
  <2> QED
    BY <2>1, <2>2, <2>3, <2>4, <2>5, <2>6
<1>4. FilesOK
  BY <1>1, <1>2, <1>3 DEF Init, FilesOK
<1>5. PageOK
  <2>1. seen \in Seen /\ seen.git = git.enabled
    BY <1>4, ViewFacts DEF Init
  <2>2. editor \in EditorState /\ unsaved = {} /\ reqs = {}
    BY NoEditorFacts DEF Init
  <2> QED
    BY <2>1, <2>2 DEF PageOK
<1>6. StubOK
  BY <1>1 DEF Init, StubOK, SavedStaged
<1>7. CalmOK
  BY NoEditorFacts DEF Init, CalmOK, Open
<1>8. HistOK
  BY DEF Init, HistOK
<1> QED
  BY <1>4, <1>5, <1>6, <1>7, <1>8 DEF EInv

LEMMA NextEInv == EInv /\ [Next]_vars => EInv'
<1> SUFFICES ASSUME EInv, [Next]_vars
             PROVE  EInv'
  OBVIOUS
<1>1. CASE Editing
  BY <1>1, EditingStep
<1>2. CASE History
  BY <1>2, HistoryStep
<1>3. CASE Settings
  BY <1>3, SettingsStep
<1>4. CASE Poll
  BY <1>4, PollStep
<1>5. CASE \E r \in reqs : Serve(r) \/ Answered(r) \/ Lost(r)
  BY <1>5, ServeStep, AnsweredStep, LostStep
<1>6. CASE \E n \in Names : TimerFires(n) \/ \E text \in Texts \cup {None} : OthersWrite(n, text)
  BY <1>6, TimerStep, OthersStep DEF Content
<1>7. CASE UNCHANGED vars
  BY <1>7, AskOnly DEF vars, files, page
<1> QED
  BY <1>1, <1>2, <1>3, <1>4, <1>5, <1>6, <1>7 DEF Next

\* EInv holds in every reachable state: the files and the histories, the page
\* and its requests have their types, the stub of a new device is marked, just
\* created or about to be removed, a calm editor has at most one request that
\* can change its file, and the panel has at most three renders to go.
THEOREM EditorInvariant == Spec => []EInv
<1>1. Init => EInv
  BY InitEInv
<1>2. EInv /\ [Next]_vars => EInv'
  BY NextEInv
<1> QED
  BY <1>1, <1>2, PTL DEF Spec

\* What the editor shows as saved is in the file (EditorModal, savedContentRef):
\* with nothing on its way, a buffer equal to the text believed to be saved is
\* the text of the file, under its final or its staged name.
THEOREM CleanIsOnDisk == Spec => []CleanMeansSaved
<1>1. EInv => CleanMeansSaved
  <2> SUFFICES ASSUME EInv, Open, editor.calm, About(Name(editor.path)) = {},
                      editor.buffer = editor.saved
               PROVE  editor.buffer = Effective(Name(editor.path))
    BY DEF CleanMeansSaved, Effective
  <2>1. Telling(Name(editor.path)) = {}
    BY DEF Telling
  <2> QED
    BY <2>1, CalmFacts
<1> QED
  BY <1>1, EditorInvariant, PTL

\* However the editor of a new device is closed, its stub does not stay behind
\* (App.tsx, unsavedNewTargetsRef): a staged file is shown by the editor, or a
\* request about it is on its way.
THEOREM StubsAreLookedAfter == Spec => []NoOrphanStub
<1>1. EInv => NoOrphanStub
  <2> SUFFICES ASSUME EInv, NEW n \in Names \ excused, disk[Staged(n)] # None
               PROVE  (Open /\ editor.path = Staged(n)) \/ About(n) # {}
    BY DEF NoOrphanStub
  <2>1. \/ Open /\ editor.path = Staged(n)
        \/ Created(n) \/ Going(n)
    BY DEF EInv, StubOK
  <2>2. Created(n) \/ Going(n) => About(n) # {}
    BY PathFacts DEF Created, Going, About
  <2> QED
    BY <2>1, <2>2
<1> QED
  BY <1>1, EditorInvariant, PTL

\* The effects of the history panel (HistoryPanel.tsx) settle within three
\* renders whatever is picked and whenever the list arrives, and they leave the
\* older version on the left.
THEOREM OlderVersionOnLeft == Spec => []OlderOnLeft
<1>1. EInv => OlderOnLeft
  <2> SUFFICES ASSUME EInv, hist # NoHist
               PROVE  /\ hist.rounds <= 3
                      /\ hist.due = {} /\ hist.from # 0 /\ hist.entries >= 0 =>
                           \/ hist.from = hist.to \/ hist.to = WORKING_TREE
                           \/ hist.from < hist.to
    BY DEF OlderOnLeft
  <2>1. /\ hist.rounds \in 0..3 /\ hist.from \in Int /\ hist.to \in Int /\ hist.entries \in Int
    BY HistFacts
  <2>2. ASSUME hist.due = {}, hist.from # 0, hist.entries >= 0
        PROVE  hist.from = hist.to \/ hist.to = WORKING_TREE \/ hist.from < hist.to
    <3>1. /\ ~newer(hist.from, hist.to, hist.entries)
          /\ IF hist.entries > 0 THEN Shown(hist.from) /\ Shown(hist.to) ELSE hist.to = WORKING_TREE
      BY <2>2 DEF EInv, HistOK, Swapped
    <3> QED
      BY <2>1, <2>2, <3>1 DEF newer, Shown, Known
  <2> QED
    BY <2>1, <2>2
<1> QED
  BY <1>1, EditorInvariant, PTL

\* Save & Close commits the text it has saved, under the name the first save of
\* a new device gave it (EditorModal, handleSaveAndClose): when the commit is
\* served, the newest version of the file is that text.
THEOREM CommitIsWhatWasSaved == Spec => CommitsWhatWasSaved
<1> DEFINE Right(r) ==
      LET n == Name(r.path)
      IN Len(log[n]) = MaxCommits \/ (log'[n] # <<>> /\ Last(log'[n]) = r.value)
<1>1. ASSUME EInv, NEW r \in reqs, Serve(r), r.op = "committing", Alive(r), editor.calm, Versioned
      PROVE  Right(r)
  <2>1. PICK n \in Names : n = Name(r.path)
    BY <1>1, PathFacts DEF EInv, PageOK, Req
  <2>2. /\ FilesOK /\ WellMade(r) /\ Open
    BY <1>1 DEF EInv, PageOK, Alive
  <2>3. r.path = Final(n) /\ Final(n) \in Paths
    BY <1>1, <2>1, <2>2, PathFacts DEF WellMade
  <2>4. r \in Telling(Name(editor.path)) /\ Fits(r)
    BY <1>1, <2>2, AliveIsMine
  <2>5. r.value = disk[r.path] /\ r.value # None
    BY <1>1, <2>1, <2>3, <2>4 DEF Fits, Telling, About
  <2>6. ~Refused(r)
    BY <1>1 DEF Refused
  <2>7. log' = Committed(n, disk[r.path])
    BY <1>1, <2>1, <2>3, <2>6 DEF Serve
  <2>8. disk[r.path] \in Content
    BY <2>2, <2>3 DEF FilesOK
  <2> QED
    BY <1>1, <2>1, <2>2, <2>5, <2>7, <2>8, Commits
<1>2. EInv /\ [Next]_vars =>
        [\A r \in reqs : Serve(r) /\ r.op = "committing" /\ Alive(r) /\ editor.calm /\ Versioned =>
           LET n == Name(r.path)
           IN Len(log[n]) = MaxCommits \/ (log'[n] # <<>> /\ Last(log'[n]) = r.value)]_vars
  BY <1>1
<1> QED
  BY <1>2, EditorInvariant, PTL DEF Spec, CommitsWhatWasSaved

=============================================================================
