------------------------- MODULE EditStorageProofs -------------------------
(***************************************************************************)
(* Proofs about EditStorage, for any directory, any files that other       *)
(* programs write at any time, and any edits.                              *)
(*                                                                         *)
(* That no change is missed rests on the order in which a load takes its   *)
(* time and reads, and on loads not overlapping: nothing is left to scan   *)
(* when the program is ready (ScanInv).  That memory and file agree rests  *)
(* on MatchInv, which holds in the middle of a load too, and on what the   *)
(* parser makes of a file: always a valid component or none (ParsedValid), *)
(* of a file with a single one that component (ParsedSingle).              *)
(***************************************************************************)
EXTENDS EditStorage, WellFoundedInduction, TLAPS

ClockInv ==
    /\ mtime \in [Uids -> Nat]
    /\ clock \in Nat /\ loaded \in Nat /\ loaded <= clock
    /\ since \in Int

ScanInv == status = "ready" => scan = {}

LoadInv == ClockInv /\ ScanInv /\ LoadMissesNothing

\* A file is a sequence of components.
IsFile(content) ==
    /\ \E S : content \in Seq(S)
    /\ \A i \in DOMAIN content : DOMAIN content[i] = Fields

FilesInv ==
    /\ files = [u \in Uids |-> files[u]]
    /\ \A u \in Uids : files[u] # NoFile => IsFile(files[u])

(***************************************************************************)
(* Loads                                                                   *)
(***************************************************************************)
\* Whoever writes a file gives it a time that the last load has not passed.
LEMMA WriteInv ==
    ASSUME LoadInv, files = [w \in Uids |-> files[w]], NEW u \in Uids, NEW content,
           Write(u, content),
           unseen' \subseteq unseen \cup {u},
           scan \subseteq scan', UNCHANGED <<clock, loaded, since>>,
           status' = status \/ status' \in Stopped,
           status = "ready" => scan' = scan
    PROVE  LoadInv'
  <1> USE DEF LoadInv, ClockInv
  <1>1. mtime' \in [Uids -> Nat] /\ mtime'[u] = clock
    BY DEF Write
  <1>2. \A w \in Uids \ {u} : mtime'[w] = mtime[w] /\ files'[w] = files[w]
    BY DEF Write
  <1>3. ClockInv'
    BY <1>1
  <1>4. ScanInv'
    BY DEF ScanInv, Stopped
  <1>5. ASSUME NEW w \in (unseen \cap Present)', status' \notin Stopped
        PROVE  \/ mtime'[w] >= loaded'
               \/ w \in scan' /\ mtime'[w] >= since'
    <2>1. CASE w = u
      BY <1>1, <2>1
    <2>2. CASE w # u
      <3>1. w \in unseen \cap Present /\ w \in Uids
        BY <1>2, <2>2 DEF Present
      <3>2. status' = status
        BY <1>5
      <3>3. mtime[w] >= loaded \/ (w \in scan /\ mtime[w] >= since)
        BY <1>5, <3>1, <3>2 DEF LoadMissesNothing
      <3> QED
        BY <1>2, <2>2, <3>1, <3>3
    <2> QED
      BY <2>1, <2>2
  <1>6. LoadMissesNothing'
    BY <1>5 DEF LoadMissesNothing
  <1> QED
    BY <1>3, <1>4, <1>6

\* A file that goes is none to be read.
LEMMA RemoveInv ==
    ASSUME LoadInv, files = [w \in Uids |-> files[w]], NEW u \in Uids,
           files' = [files EXCEPT ![u] = NoFile],
           unseen' \subseteq unseen \cup {u},
           scan' \in {scan, scan \ {u}}, UNCHANGED <<mtime, clock, loaded, since>>,
           status' = status \/ status' \in Stopped
    PROVE  LoadInv'
  <1> USE DEF LoadInv
  <1>1. ClockInv'
    BY DEF ClockInv
  <1>2. ScanInv'
    BY DEF ScanInv, Stopped
  <1>3. ASSUME NEW w \in (unseen \cap Present)', status' \notin Stopped
        PROVE  \/ mtime'[w] >= loaded'
               \/ w \in scan' /\ mtime'[w] >= since'
    <2>1. w # u /\ w \in unseen \cap Present
      BY DEF Present
    <2>2. mtime[w] >= loaded \/ (w \in scan /\ mtime[w] >= since)
      BY <1>3, <2>1 DEF LoadMissesNothing
    <2> QED
      BY <2>1, <2>2
  <1> QED
    BY <1>1, <1>2, <1>3 DEF LoadMissesNothing

LEMMA LoadInitInv == Init => LoadInv
  BY DEF Init, LoadInv, ClockInv, ScanInv, LoadMissesNothing, Present

LEMMA LoadStepInv == LoadInv /\ FilesInv /\ [Next]_vars => LoadInv'
  <1> SUFFICES ASSUME LoadInv, FilesInv, [Next]_vars PROVE LoadInv'
    OBVIOUS
  <1> USE DEF LoadInv, ClockInv, FilesInv, storageVars, loadVars
  <1>1. CASE BeginLoad
    BY <1>1 DEF BeginLoad, ScanInv, LoadMissesNothing, Present, Stopped
  <1>2. ASSUME NEW u \in Uids, ReadFile(u) PROVE LoadInv'
    BY <1>2 DEF ReadFile, timespec_leq, ScanInv, LoadMissesNothing, Present, Stopped
  <1>3. ASSUME NEW u \in Uids, ReadMissing(u) PROVE LoadInv'
    BY <1>3 DEF ReadMissing, ScanInv, LoadMissesNothing, Stopped
  <1>4. CASE EndLoad
    BY <1>4 DEF EndLoad, ScanInv, LoadMissesNothing, Present, Stopped
  <1>5. CASE Frame
    BY <1>5 DEF Frame, ScanInv, LoadMissesNothing, Present
  <1>6. ASSUME NEW u \in Uids, NEW es \in Edits, Update(u, es) PROVE LoadInv'
    <2>1. PICK content : Write(u, content)
      BY <1>6 DEF Update
    <2>2. /\ UNCHANGED <<unseen, scan, clock, loaded, since>>
          /\ status' = status \/ status' \in Stopped
      BY <1>6 DEF Update, Stopped
    <2> QED
      BY <2>1, <2>2, WriteInv
  <1>7. ASSUME NEW u \in Uids, NEW es \in Edits, KilledWhileWriting(u, es) PROVE LoadInv'
    <2>1. Write(u, <<>>) /\ UNCHANGED <<unseen, scan, clock, loaded, since>>
      BY <1>7 DEF KilledWhileWriting
    <2>2. status' \in Stopped
      BY <1>7 DEF KilledWhileWriting, Stopped
    <2> QED
      BY <2>1, <2>2, WriteInv
  <1>8. ASSUME NEW u \in Uids, NEW es \in Edits, EditAborts(u, es) PROVE LoadInv'
    BY <1>8 DEF EditAborts, ScanInv, LoadMissesNothing, Stopped
  <1>9. ASSUME NEW u \in Uids, NEW es \in Edits, Create(u, es) PROVE LoadInv'
    <2>1. PICK content : Write(u, content)
      BY <1>9 DEF Create
    <2>2. /\ UNCHANGED <<scan, clock, loaded, since>> /\ unseen' \subseteq unseen
          /\ status' = status \/ status' \in Stopped
      BY <1>9 DEF Create, Stopped
    <2> QED
      BY <2>1, <2>2, WriteInv
  <1>10. ASSUME NEW u \in Uids, NEW es \in Edits, Delete(u, es) PROVE LoadInv'
    <2>1. /\ files' = [files EXCEPT ![u] = NoFile]
          /\ UNCHANGED <<mtime, scan, clock, loaded, since>> /\ unseen' \subseteq unseen
          /\ status' = status \/ status' \in Stopped
      BY <1>10 DEF Delete, Stopped
    <2> QED
      BY <2>1, RemoveInv
  <1>11. CASE Tick
    BY <1>11 DEF Tick, ScanInv, LoadMissesNothing, Present
  <1>12. ASSUME NEW u \in Uids, NEW content \in Contents, ExternalWrite(u, content)
         PROVE  LoadInv'
    <2>1. /\ Write(u, content) /\ unseen' = unseen \cup {u}
          /\ scan \subseteq scan' /\ (status = "ready" => scan' = scan)
          /\ UNCHANGED <<clock, loaded, since, status>>
      BY <1>12 DEF ExternalWrite
    <2> QED
      BY <2>1, WriteInv
  <1>13. ASSUME NEW u \in Uids, ExternalDelete(u) PROVE LoadInv'
    BY <1>13, RemoveInv DEF ExternalDelete
  <1>14. CASE Restart
    BY <1>14 DEF Restart, ScanInv, LoadMissesNothing, Present
  <1>15. CASE UNCHANGED vars
    BY <1>15 DEF vars, ScanInv, LoadMissesNothing, Present
  <1> QED
    BY <1>1, <1>2, <1>3, <1>4, <1>5, <1>6, <1>7, <1>8, <1>9, <1>10, <1>11, <1>12, <1>13,
       <1>14, <1>15
    DEF Next, Load, Edit, World

(***************************************************************************)
(* Files                                                                   *)
(***************************************************************************)
LEMMA AppendKeeps ==
    ASSUME NEW S, NEW c \in Seq(S), NEW e
    PROVE  /\ Append(c, e) \in Seq(S \cup {e})
           /\ DOMAIN Append(c, e) = DOMAIN c \cup {Len(c) + 1}
           /\ \A i \in DOMAIN c : Append(c, e)[i] = c[i]
           /\ Append(c, e)[Len(c) + 1] = e
  <1>1. c \in Seq(S \cup {e})
    OBVIOUS
  <1> QED
    BY <1>1

\* What an update writes.
LEMMA UpdatedFile ==
    ASSUME NEW u \in Uids, NEW es \in Edits, IsFile(files[u])
    PROVE  LET c == files[u]
               d == StorageUpdate(u, es)
           IN  /\ IsFile(d)
               /\ DOMAIN c \subseteq DOMAIN d
               /\ \A i \in DOMAIN c : d[i].p \in {c[i].p, apply_props_to_icalcomponent(c[i].p, es)}
  <1> DEFINE c == files[u]
             d == StorageUpdate(u, es)
  <1>1. PICK S : c \in Seq(S)
    BY DEF IsFile
  <1>2. \A i \in DOMAIN c : DOMAIN c[i] = Fields
    BY DEF IsFile
  <1>3. CASE Hits(u, es) # {}
    <2> DEFINE h == FirstHit(u, es)
    <2>1. d = [c EXCEPT ![h].p = apply_props_to_icalcomponent(@, es)]
      BY <1>3 DEF StorageUpdate
    <2> DEFINE r == [c[h] EXCEPT !.p = apply_props_to_icalcomponent(@, es)]
    <2>2. d = [i \in DOMAIN c |-> IF i = h THEN r ELSE c[i]]
      BY <2>1
    <2>3. d \in Seq(S \cup {r})
      <3> HIDE DEF r, h, d, c
      <3>1. \A i \in 1..Len(c) : c[i] \in S
        BY <1>1
      <3>2. d \in [1..Len(c) -> S \cup {r}] /\ Len(c) \in Nat
        BY <1>1, <2>2, <3>1
      <3> QED
        BY <3>2
    <2>4. h \in DOMAIN c => DOMAIN r = Fields /\ r.p = apply_props_to_icalcomponent(c[h].p, es)
      BY <1>2 DEF Fields
    <2> HIDE DEF r, h, d
    <2>5. DOMAIN d = DOMAIN c
      BY <2>2
    <2>6. \A i \in DOMAIN d : DOMAIN d[i] = Fields
      BY <1>2, <2>2, <2>4
    <2>7. \A i \in DOMAIN c : d[i].p \in {c[i].p, apply_props_to_icalcomponent(c[i].p, es)}
      BY <2>2, <2>4
    <2> QED
      BY <2>3, <2>5, <2>6, <2>7 DEF IsFile, d
  <1>4. CASE Hits(u, es) = {}
    <2> DEFINE e == [rid |-> es.rid, type |-> es.type, recurs |-> FALSE,
                     p |-> apply_props_to_icalcomponent(mem[u].p, es)]
    <2>1. d = Append(c, e)
      BY <1>4 DEF StorageUpdate
    <2>2. DOMAIN e = Fields
      BY DEF Fields
    <2> HIDE DEF e, d
    <2>3. /\ d \in Seq(S \cup {e})
          /\ DOMAIN d = DOMAIN c \cup {Len(c) + 1}
          /\ \A i \in DOMAIN c : d[i] = c[i]
          /\ d[Len(c) + 1] = e
      BY <1>1, <2>1, AppendKeeps
    <2>4. \A i \in DOMAIN d : DOMAIN d[i] = Fields
      BY <1>2, <2>2, <2>3
    <2> QED
      BY <2>3, <2>4 DEF IsFile, d
  <1> QED
    BY <1>3, <1>4

LEMMA FilesInitInv == Init => FilesInv
  <1> SUFFICES ASSUME Init PROVE FilesInv
    OBVIOUS
  <1>1. files \in [Uids -> Contents \cup {NoFile}]
    BY DEF Init
  <1>2. ASSUME NEW u \in Uids, files[u] # NoFile PROVE IsFile(files[u])
    BY <1>1, <1>2, ContentsAssumption DEF IsFile
  <1> QED
    BY <1>1, <1>2 DEF FilesInv

LEMMA FilesStepInv == FilesInv /\ [Next]_vars => FilesInv'
  <1> SUFFICES ASSUME FilesInv, [Next]_vars PROVE FilesInv'
    OBVIOUS
  <1>1. ASSUME NEW u \in Uids, NEW content, files' = [files EXCEPT ![u] = content],
               content # NoFile => IsFile(content)
        PROVE  FilesInv'
    BY <1>1 DEF FilesInv
  <1>2. CASE UNCHANGED files
    BY <1>2 DEF FilesInv
  <1>3. ASSUME NEW u \in Uids, NEW es \in Edits,
               \/ Update(u, es) \/ KilledWhileWriting(u, es) \/ EditAborts(u, es)
               \/ Create(u, es) \/ Delete(u, es)
        PROVE  FilesInv'
    <2>1. CASE Update(u, es)
      <3>1. IsFile(files[u]) /\ files' = [files EXCEPT ![u] = StorageUpdate(u, es)]
        BY <2>1 DEF Update, CanUpdate, Write, FilesInv
      <3>2. IsFile(StorageUpdate(u, es))
        BY <3>1, UpdatedFile
      <3> QED
        BY <1>1, <3>1, <3>2
    <2>2. CASE KilledWhileWriting(u, es)
      <3>1. files' = [files EXCEPT ![u] = <<>>]
        BY <2>2 DEF KilledWhileWriting, Write
      <3>2. <<>> \in Seq({}) /\ DOMAIN <<>> = {}
        OBVIOUS
      <3>3. IsFile(<<>>)
        BY <3>2 DEF IsFile
      <3> QED
        BY <1>1, <3>1, <3>3
    <2>3. CASE EditAborts(u, es)
      BY <1>2, <2>3 DEF EditAborts, storageVars
    <2>4. CASE Create(u, es)
      <3> DEFINE e == [rid |-> -1, type |-> es.type, recurs |-> FALSE,
                       p |-> apply_props_to_icalcomponent(NoProps, es)]
      <3>1. files' = [files EXCEPT ![u] = <<e>>]
        BY <2>4 DEF Create, Write
      <3>2. DOMAIN e = Fields
        BY DEF Fields
      <3> HIDE DEF e
      <3>3. <<e>> \in Seq({e}) /\ \A i \in DOMAIN <<e>> : <<e>>[i] = e
        OBVIOUS
      <3>4. IsFile(<<e>>)
        BY <3>2, <3>3 DEF IsFile
      <3> QED
        BY <1>1, <3>1, <3>4
    <2>5. CASE Delete(u, es)
      BY <1>1, <2>5 DEF Delete
    <2> QED
      BY <1>3, <2>1, <2>2, <2>3, <2>4, <2>5
  <1>4. ASSUME NEW u \in Uids, NEW content \in Contents, ExternalWrite(u, content)
        PROVE  FilesInv'
    <2>1. IsFile(content)
      BY ContentsAssumption DEF IsFile
    <2> QED
      BY <1>1, <1>4, <2>1 DEF ExternalWrite, Write
  <1>5. ASSUME NEW u \in Uids, ExternalDelete(u) PROVE FilesInv'
    BY <1>1, <1>5 DEF ExternalDelete
  <1>6. CASE Load \/ Frame \/ Tick \/ Restart \/ UNCHANGED vars
    BY <1>2, <1>6
    DEF Load, BeginLoad, EndLoad, ReadFile, ReadMissing, Frame, Tick, Restart, vars,
        storageVars
  <1> QED
    BY <1>3, <1>4, <1>5, <1>6 DEF Next, Edit, World

(***************************************************************************)
(* What a file comes to in memory                                          *)
(***************************************************************************)
CompFields == {"type", "p", "recurs", "times", "recur_insts", "recur_cache", "deleted"}

\* An occurrence has no dates that its type does not have.
RdpFits(rdp, type) == rdp[IF type = "event" THEN "due" ELSE "end"] = -1

\* A component that is valid for its type, with instances that could be but for
\* the order of their dates, and occurrences that can become such instances.
IsComp(c) ==
    /\ DOMAIN c = CompFields
    /\ props_valid_for_type(c.p, c.type)
    /\ \A t \in DOMAIN c.recur_insts : WellFormed(c.recur_insts[t], c.type)
    /\ \A t \in DOMAIN c.recur_cache : RdpFits(c.recur_cache[t], c.type)

IsMem(c) == c = NoComp \/ IsComp(c)

MemInv ==
    /\ mem = [u \in Uids |-> mem[u]]
    /\ \A u \in Uids : IsMem(mem[u])

LEMMA CompIsNoSentinel ==
    ASSUME NEW c, DOMAIN c = CompFields
    PROVE  c # NoComp
  BY DEF CompFields, NoComp

\* A set of numbers with 0, and with every number the next, has them all.
LEMMA AllNumbers ==
    ASSUME NEW S \in SUBSET Nat, 0 \in S, \A n \in S : n + 1 \in S
    PROVE  S = Nat
  <1> SUFFICES ASSUME Nat \ S # {} PROVE FALSE
    OBVIOUS
  <1>1. IsWellFoundedOn(OpToRel(<, Nat), Nat)
    BY NatLessThanWellFounded
  <1>2. PICK b \in Nat \ S : \A c \in Nat \ S : ~(<<c, b>> \in OpToRel(<, Nat))
    BY <1>1, WFMin
  <1>3. b \in Nat /\ b - 1 \in Nat /\ (b - 1) + 1 = b
    OBVIOUS
  <1>4. b - 1 \in S
    <2>1. b - 1 < b
      BY <1>3
    <2>2. <<b - 1, b>> \in OpToRel(<, Nat)
      BY <1>3, <2>1 DEF OpToRel
    <2> QED
      BY <1>2, <1>3, <2>2
  <1>5. b \in S
    BY <1>3, <1>4
  <1> QED
    BY <1>5

\* What a parser that has read n components has come to.
IsParsed(f, c, content, m) ==
    f = [n \in 0..m |-> IF n = 0 THEN c ELSE ParseOne(content, f[n - 1], content[n])]

LEMMA ParsedExists ==
    ASSUME NEW c, NEW content, NEW m \in Nat
    PROVE  \E f : IsParsed(f, c, content, m)
  <1> DEFINE S == {k \in Nat : \E f : IsParsed(f, c, content, k)}
  <1>1. 0 \in S
    <2>1. IsParsed([n \in 0..0 |-> c], c, content, 0)
      BY DEF IsParsed
    <2> QED
      BY <2>1
  <1>2. ASSUME NEW k \in S PROVE k + 1 \in S
    <2>1. PICK f : IsParsed(f, c, content, k)
      OBVIOUS
    <2> DEFINE g == [n \in 0..(k + 1) |->
                        IF n = k + 1 THEN ParseOne(content, f[k], content[n]) ELSE f[n]]
    <2>2. k \in Nat
      OBVIOUS
    <2>3. ASSUME NEW n \in 0..(k + 1)
          PROVE  g[n] = IF n = 0 THEN c ELSE ParseOne(content, g[n - 1], content[n])
      <3>1. CASE n = k + 1
        BY <2>2, <3>1
      <3>2. CASE n # k + 1
        <4>1. n \in 0..k /\ g[n] = f[n] /\ (n # 0 => n - 1 \in 0..k /\ g[n - 1] = f[n - 1])
          BY <2>2, <3>2
        <4>2. f[n] = IF n = 0 THEN c ELSE ParseOne(content, f[n - 1], content[n])
          BY <2>1, <4>1 DEF IsParsed
        <4> QED
          BY <4>1, <4>2
      <3> QED
        BY <3>1, <3>2
    <2>4. IsParsed(g, c, content, k + 1)
      <3> HIDE DEF g
      <3>1. g = [n \in 0..(k + 1) |-> g[n]]
        BY DEF g
      <3> QED
        BY <2>3, <3>1 DEF IsParsed
    <2> QED
      BY <2>2, <2>4
  <1>3. S = Nat
    BY <1>1, <1>2, AllNumbers
  <1> QED
    BY <1>3

\* The parser takes one component after the other.
LEMMA ParserSteps ==
    ASSUME NEW c, NEW content, Len(content) \in Nat
    PROVE  \E f : /\ libical_parse_ics(c, content) = f[Len(content)]
                  /\ f[0] = c
                  /\ \A n \in 1..Len(content) : f[n] = ParseOne(content, f[n - 1], content[n])
  <1> DEFINE m == Len(content)
             f == CHOOSE f : IsParsed(f, c, content, m)
  <1>1. IsParsed(f, c, content, m)
    BY ParsedExists
  <1>2. libical_parse_ics(c, content) = f[m]
    BY DEF libical_parse_ics, IsParsed
  <1> HIDE DEF f
  <1>3. f[0] = c /\ \A n \in 1..m : f[n] = ParseOne(content, f[n - 1], content[n])
    BY <1>1 DEF IsParsed
  <1> QED
    BY <1>2, <1>3

LEMMA AddRecurInstValid ==
    ASSUME NEW c, IsComp(c), NEW t, NEW p, WellFormed(p, c.type)
    PROVE  /\ IsComp(AddRecurInst(c, t, p))
           /\ AddRecurInst(c, t, p).type = c.type
  <1> DEFINE insts == [u \in DOMAIN c.recur_insts \cup {t} |->
                          IF u = t THEN p ELSE c.recur_insts[u]]
  <1>1. AddRecurInst(c, t, p) = [c EXCEPT !.recur_insts = insts]
    BY DEF AddRecurInst
  <1>2. \A u \in DOMAIN insts : WellFormed(insts[u], c.type)
    BY DEF IsComp
  <1> HIDE DEF insts
  <1> QED
    BY <1>1, <1>2 DEF IsComp, CompFields

LEMMA NewCompValid ==
    ASSUME NEW e, NEW times, props_valid_for_type(e.p, e.type),
           NEW c, c = comp_init_from_ical(e, times)
    PROVE  /\ IsComp(c) /\ c # NoComp
           /\ c.type = e.type /\ c.p = e.p /\ c.recurs = e.recurs /\ c.deleted = FALSE
  <1>1. IsComp(c)
    BY DEF comp_init_from_ical, IsComp, CompFields
  <1> QED
    BY <1>1, CompIsNoSentinel DEF comp_init_from_ical, IsComp

LEMMA ParseOneValid ==
    ASSUME NEW content, NEW c, IsMem(c), NEW e
    PROVE  IsMem(ParseOne(content, c, e))
  BY NewCompValid, AddRecurInstValid DEF ParseOne, IsMem, props_valid_for_type

\* Whatever a file holds, what is read of it is valid.
LEMMA ParsedValid ==
    ASSUME NEW content, Len(content) \in Nat, NEW c, IsMem(c)
    PROVE  IsMem(libical_parse_ics(c, content))
  <1> DEFINE m == Len(content)
  <1>1. PICK f : /\ libical_parse_ics(c, content) = f[m]
                 /\ f[0] = c
                 /\ \A n \in 1..m : f[n] = ParseOne(content, f[n - 1], content[n])
    BY ParserSteps
  <1> DEFINE S == {k \in Nat : k <= m => IsMem(f[k])}
  <1>2. 0 \in S
    BY <1>1
  <1>3. ASSUME NEW k \in S PROVE k + 1 \in S
    <2>1. CASE k + 1 <= m
      <3>1. k \in Nat /\ IsMem(f[k]) /\ k + 1 \in 1..m /\ (k + 1) - 1 = k
        BY <2>1
      <3>2. f[k + 1] = ParseOne(content, f[k], content[k + 1])
        BY <1>1, <3>1
      <3> QED
        BY <3>1, <3>2, ParseOneValid
    <2>2. CASE ~(k + 1 <= m)
      BY <2>2
    <2> QED
      BY <2>1, <2>2
  <1>4. S = Nat
    BY <1>2, <1>3, AllNumbers
  <1> QED
    BY <1>1, <1>4

\* A file with one component that does not recur, valid or not.
Single(content) ==
    content # NoFile /\ Len(content) = 1 /\ content[1].rid = -1 /\ ~content[1].recurs

\* It is read as it is.
LEMMA ParsedSingle ==
    ASSUME NEW content, NEW c, Single(content),
           props_valid_for_type(content[1].p, content[1].type)
    PROVE  \E times : libical_parse_ics(c, content) = comp_init_from_ical(content[1], times)
  <1>1. Len(content) = 1 /\ 1 \in 1..1
    BY DEF Single
  <1>2. PICK f : /\ libical_parse_ics(c, content) = f[1]
                 /\ f[1] = ParseOne(content, f[0], content[1])
    BY <1>1, ParserSteps
  <1> QED
    BY <1>2 DEF ParseOne, Single

LEMMA MemInitInv == Init => MemInv
  BY DEF Init, MemInv, IsMem

LEMMA MemSetInv ==
    ASSUME MemInv, NEW u \in Uids, NEW c, IsMem(c), mem' = [mem EXCEPT ![u] = c]
    PROVE  MemInv'
  BY DEF MemInv, IsMem, IsComp

\* An edit that leaves a component valid leaves its instances well-formed.
LEMMA AssignWellFormed ==
    ASSUME NEW p, NEW q, NEW es, NEW type,
           WellFormed(assign_props(p, es), type), WellFormed(q, type)
    PROVE  WellFormed(assign_props(q, es), type)
  <1> DEFINE r == assign_props(p, es)
             s == assign_props(q, es)
  <1>1. /\ DOMAIN r = (DOMAIN p \cup DOMAIN es.p) \ es.rem
        /\ DOMAIN s = (DOMAIN q \cup DOMAIN es.p) \ es.rem
    BY DEF assign_props, props_union, props_apply_mask
  <1>2. "status" \in DOMAIN s =>
            s.status = IF "status" \in DOMAIN es.p THEN r.status ELSE q.status
    BY DEF assign_props, props_union, props_apply_mask, Copied
  <1> HIDE DEF r, s
  <1>3. type = "event" <=> "end" \in DOMAIN s
    BY <1>1 DEF WellFormed, r
  <1>4. "end" \in DOMAIN s => "start" \in DOMAIN s
    BY <1>1, <1>3 DEF WellFormed, r
  <1>5. type = "event" => TodoKeys \cap DOMAIN s = {}
    BY <1>1 DEF WellFormed, r
  <1>6. "status" \in DOMAIN s => s.status \in StatusesOf(type)
    BY <1>1, <1>2 DEF WellFormed, r
  <1> QED
    BY <1>3, <1>4, <1>5, <1>6 DEF WellFormed, s

\* So is what an occurrence is made an instance with.
LEMMA InstanceWellFormed ==
    ASSUME NEW c, IsComp(c), NEW rid, comp_get_recur_point(c, rid)
    PROVE  WellFormed(Instance(c, rid), c.type)
  <1>1. CASE rid \in DOMAIN c.recur_insts
    BY <1>1 DEF Instance, IsComp
  <1>2. CASE rid \notin DOMAIN c.recur_insts
    <2> DEFINE t == First(Starting(c, rid))
               rdp == c.recur_cache[t]
               p == c.p
               q == recur_dep_props_set_props(Copy(p), rdp)
    <2>1. Instance(c, rid) = q
      BY <1>2 DEF Instance
    <2>2. t \in Starting(c, rid)
      <3> DEFINE S == Starting(c, rid)
                 Least(u) == (\E v \in S : \A w \in S : v <= w) => \A w \in S : u <= w
      <3>1. S # {}
        BY <1>2 DEF comp_get_recur_point
      <3>2. \E u \in S : Least(u)
        BY <3>1
      <3> QED
        BY <3>2 DEF First
    <2>3. RdpFits(rdp, c.type)
      BY <2>2 DEF Starting, IsComp
    <2>4. WellFormed(p, c.type)
      BY DEF IsComp, props_valid_for_type
    <2> HIDE DEF rdp, p, t
    <2>5. /\ DOMAIN q = DOMAIN p \cup {k \in DateKeys : rdp[k] # -1}
          /\ "status" \in DOMAIN q => q.status = p.status
      BY DEF recur_dep_props_set_props, Copy, NoProps, props_union, Copied, DateKeys
    <2> HIDE DEF q
    <2>6. "status" \in DOMAIN q => "status" \in DOMAIN p
      BY <2>5 DEF DateKeys
    <2>7. ASSUME c.type = "event" PROVE WellFormed(q, c.type)
      BY <2>3, <2>4, <2>5, <2>6, <2>7 DEF WellFormed, RdpFits, DateKeys, TodoKeys
    <2>8. ASSUME c.type # "event" PROVE WellFormed(q, c.type)
      BY <2>3, <2>4, <2>5, <2>6, <2>8 DEF WellFormed, RdpFits, DateKeys
    <2> QED
      BY <2>1, <2>7, <2>8 DEF q
  <1> QED
    BY <1>1, <1>2

\* What an update leaves: an instance is well-formed, but nobody asks whether it
\* still ends after its start.
LEMMA MemoryUpdateValid ==
    ASSUME NEW c, IsComp(c), NEW es, es.type = c.type,
           props_valid_for_type(assign_props(c.p, es), es.type),
           es.rid = -1 \/ comp_get_recur_point(c, es.rid)
    PROVE  IsComp(MemoryUpdate(c, es))
  <1>1. CASE es.rid = -1
    <2>1. MemoryUpdate(c, es) = [c EXCEPT !.p = assign_props(c.p, es)]
      BY <1>1 DEF MemoryUpdate
    <2> DEFINE q == assign_props(c.p, es)
    <2> HIDE DEF q
    <2>2. props_valid_for_type(q, c.type)
      BY DEF q
    <2>3. MemoryUpdate(c, es) = [c EXCEPT !.p = q]
      BY <2>1 DEF q
    <2> QED
      BY <2>2, <2>3 DEF IsComp, CompFields
  <1>2. CASE es.rid # -1
    <2> DEFINE q == assign_props(Instance(c, es.rid), es)
    <2>1. WellFormed(Instance(c, es.rid), c.type)
      BY <1>2, InstanceWellFormed
    <2>2. WellFormed(q, c.type)
      BY <2>1, AssignWellFormed DEF props_valid_for_type
    <2>3. MemoryUpdate(c, es) = AddRecurInst(c, es.rid, q)
      BY <1>2 DEF MemoryUpdate
    <2> QED
      BY <2>2, <2>3, AddRecurInstValid
  <1> QED
    BY <1>1, <1>2

\* An occurrence has the dates of the component, or of its instance.
LEMMA ExpandedFits ==
    ASSUME NEW c, IsComp(c)
    PROVE  \A t \in DOMAIN comp_recur_expand(c) : RdpFits(comp_recur_expand(c)[t], c.type)
  <1> DEFINE key == IF c.type = "event" THEN "due" ELSE "end"
  <1>1. key \in DateKeys /\ key # "start" /\ key \notin DOMAIN c.p
    BY DEF IsComp, props_valid_for_type, WellFormed, DateKeys, TodoKeys
  <1>2. RdpOf(c.p)[key] = -1
    BY <1>1 DEF RdpOf
  <1>3. ASSUME NEW t PROVE recur_cb_fn(c, t)[key] = -1
    <2> DEFINE own == IF t \in DOMAIN c.recur_insts THEN c.recur_insts[t] ELSE NoProps
    <2>1. key \notin DOMAIN own
      BY DEF IsComp, WellFormed, TodoKeys, NoProps
    <2> HIDE DEF own, key
    <2>2. recur_cb_fn(c, t) =
              [k \in DateKeys |->
                  IF k \in DOMAIN own THEN own[k]
                  ELSE IF k = "start" THEN t
                  ELSE IF {"start", k} \subseteq DOMAIN c.p THEN t + (c.p[k] - c.p.start)
                  ELSE -1]
      BY DEF recur_cb_fn, own
    <2> QED
      BY <1>1, <2>1, <2>2
  <1> QED
    BY <1>2, <1>3 DEF comp_recur_expand, RdpFits

LEMMA FrameKeepsComp ==
    ASSUME NEW c, NEW cache
    PROVE  LET d == [c EXCEPT !.recur_cache = cache]
           IN  /\ IsComp(c) /\ (\A t \in DOMAIN cache : RdpFits(cache[t], c.type)) => IsComp(d)
               /\ DOMAIN c = CompFields =>
                      /\ DOMAIN d = CompFields
                      /\ d.type = c.type /\ d.p = c.p /\ d.recurs = c.recurs
                      /\ d.deleted = c.deleted
  BY DEF IsComp, CompFields

LEMMA MemStepInv == MemInv /\ FilesInv /\ [Next]_vars => MemInv'
  <1> SUFFICES ASSUME MemInv, FilesInv, [Next]_vars PROVE MemInv'
    OBVIOUS
  <1>1. CASE UNCHANGED mem
    BY <1>1 DEF MemInv, IsMem, IsComp
  <1>2. ASSUME NEW u \in Uids, ReadFile(u) PROVE MemInv'
    <2>1. IsMem(libical_parse_ics(mem[u], files[u]))
      BY <1>2, ParsedValid DEF ReadFile, MemInv, FilesInv, IsFile
    <2>2. \/ UNCHANGED mem
          \/ mem' = [mem EXCEPT ![u] = libical_parse_ics(mem[u], files[u])]
      BY <1>2 DEF ReadFile
    <2> QED
      BY <1>1, <2>1, <2>2, MemSetInv
  <1>3. CASE Frame
    <2> DEFINE cache(u) == IF mem[u].deleted THEN [t \in {} |-> RdpOf(NoProps)]
                           ELSE comp_recur_expand(mem[u])
               d(u) == [mem[u] EXCEPT !.recur_cache = cache(u)]
    <2>1. mem' = [u \in Uids |-> IF mem[u] = NoComp THEN NoComp ELSE d(u)]
      BY <1>3 DEF Frame
    <2>2. ASSUME NEW u \in Uids PROVE IsMem(mem'[u])
      <3>1. CASE mem[u] = NoComp
        BY <2>1, <3>1 DEF IsMem
      <3>2. CASE mem[u] # NoComp
        <4>1. IsComp(mem[u]) /\ mem'[u] = d(u)
          BY <2>1, <3>2 DEF MemInv, IsMem
        <4>2. \A t \in DOMAIN cache(u) : RdpFits(cache(u)[t], mem[u].type)
          BY <4>1, ExpandedFits
        <4> QED
          BY <4>1, <4>2, FrameKeepsComp DEF IsMem
      <3> QED
        BY <3>1, <3>2
    <2> QED
      BY <2>1, <2>2 DEF MemInv, IsMem, IsComp
  <1>4. ASSUME NEW u \in Uids, NEW es \in Edits, Update(u, es) PROVE MemInv'
    <2>1. IsComp(mem[u]) /\ es.type = mem[u].type
          /\ props_valid_for_type(assign_props(mem[u].p, es), es.type)
      BY <1>4 DEF Update, CanUpdate, MemInv, IsMem
    <2>2. CASE (es.rid = -1 \/ comp_get_recur_point(mem[u], es.rid)) /\ status' # "segfault"
      <3>1. IsMem(MemoryUpdate(mem[u], es))
        BY <2>1, <2>2, MemoryUpdateValid DEF IsMem
      <3>2. mem' = [mem EXCEPT ![u] = MemoryUpdate(mem[u], es)]
        BY <1>4, <2>2 DEF Update
      <3> QED
        BY <3>1, <3>2, MemSetInv
    <2>3. CASE ~(es.rid = -1 \/ comp_get_recur_point(mem[u], es.rid)) \/ status' = "segfault"
      BY <1>1, <1>4, <2>3 DEF Update, CanUpdate
    <2> QED
      BY <2>2, <2>3
  <1>5. ASSUME NEW u \in Uids, NEW es \in Edits, Create(u, es) PROVE MemInv'
    <2> DEFINE e == [rid |-> -1, type |-> es.type, recurs |-> FALSE,
                     p |-> assign_props(NoProps, es)]
    <2>1. IsMem(comp_init_from_ical(e, {}))
      BY <1>5, NewCompValid DEF Create, IsMem
    <2>2. UNCHANGED mem \/ mem' = [mem EXCEPT ![u] = comp_init_from_ical(e, {})]
      BY <1>5 DEF Create
    <2> HIDE DEF e
    <2> QED
      BY <1>1, <2>1, <2>2, MemSetInv
  <1>6. ASSUME NEW u \in Uids, NEW es \in Edits, Delete(u, es) PROVE MemInv'
    <2>1. CASE mem[u] = NoComp
      BY <1>1, <1>6, <2>1 DEF Delete
    <2>2. CASE mem[u] # NoComp
      <3>1. mem' = [mem EXCEPT ![u] = [mem[u] EXCEPT !.deleted = TRUE]]
        BY <1>6, <2>2 DEF Delete
      <3>2. IsComp(mem[u])
        BY <2>2 DEF MemInv, IsMem
      <3>3. IsMem([mem[u] EXCEPT !.deleted = TRUE])
        BY <3>2 DEF IsMem, IsComp, CompFields
      <3> QED
        BY <3>1, <3>3, MemSetInv
    <2> QED
      BY <2>1, <2>2
  <1>7. CASE Restart
    BY <1>7 DEF Restart, MemInv, IsMem
  <1> QED
    BY <1>1, <1>2, <1>3, <1>4, <1>5, <1>6, <1>7
    DEF Next, Load, Edit, World, BeginLoad, EndLoad, ReadMissing, KilledWhileWriting,
        EditAborts, Tick, ExternalWrite, ExternalDelete, vars

(***************************************************************************)
(* Memory and file                                                         *)
(***************************************************************************)
\* Of a file that is neither to be read nor was refused: what is gone is gone
\* from memory, and one component that does not recur is there as it is, but for
\* relations that were cut off.
Matches(u) ==
    /\ files[u] = NoFile => mem[u] = NoComp \/ mem[u].deleted
    /\ Single(files[u]) =>
           /\ mem[u] # NoComp /\ ~mem[u].deleted /\ ~mem[u].recurs
           /\ mem[u].type = files[u][1].type /\ Copy(mem[u].p) = Copy(files[u][1].p)

MatchInv ==
    status \in {"loading", "ready"} => \A u \in Uids \ (unseen \cup refused) : Matches(u)

\* A step that concerns one uid leaves the others as they are.
LEMMA MatchOne ==
    ASSUME MatchInv, MemInv, FilesInv, NEW u \in Uids,
           status \in {"loading", "ready"},
           \A w \in Uids \ {u} :
               /\ files'[w] = files[w] /\ mem'[w] = mem[w]
               /\ w \in unseen => w \in unseen'
               /\ w \in refused => w \in refused',
           u \notin (unseen \cup refused)' => Matches(u)'
    PROVE  MatchInv'
  BY DEF MatchInv, Matches, Single

\* An edit makes equals of equals.
LEMMA CopyApplied ==
    ASSUME NEW p, NEW q, NEW es, Copy(p) = Copy(q)
    PROVE  Copy(assign_props(p, es)) = Copy(apply_props_to_icalcomponent(q, es))
  <1> DEFINE r == assign_props(p, es)
             s == apply_props_to_icalcomponent(q, es)
  <1>1. ASSUME NEW x PROVE Copy(x) = [k \in DOMAIN x |-> Copied(k, x[k])]
    BY DEF Copy, props_union, NoProps
  <1>2. DOMAIN p = DOMAIN q /\ \A k \in DOMAIN p : Copied(k, p[k]) = Copied(k, q[k])
    BY <1>1
  <1>3. /\ r = [k \in (DOMAIN p \cup DOMAIN es.p) \ es.rem |->
                   IF k \in DOMAIN es.p THEN Copied(k, es.p[k]) ELSE p[k]]
        /\ s = [k \in (DOMAIN p \cup DOMAIN es.p) \ es.rem |->
                   IF k \in DOMAIN es.p THEN es.p[k] ELSE q[k]]
    BY <1>2 DEF assign_props, props_union, props_apply_mask, apply_props_to_icalcomponent
  <1> HIDE DEF r, s
  <1>4. ASSUME NEW k \in DOMAIN r PROVE Copied(k, r[k]) = Copied(k, s[k])
    <2>1. CASE k \in DOMAIN es.p
      BY <1>3, <2>1 DEF Copied
    <2>2. CASE k \notin DOMAIN es.p
      BY <1>2, <1>3, <2>2
    <2> QED
      BY <2>1, <2>2
  <1>5. DOMAIN r = DOMAIN s
    BY <1>3
  <1>6. [k \in DOMAIN r |-> Copied(k, r[k])] = [k \in DOMAIN s |-> Copied(k, s[k])]
    BY <1>4, <1>5
  <1> QED
    BY <1>1, <1>6 DEF r, s

\* An update leaves a file with one component only where it found one, and
\* changes it like the one in memory.
LEMMA UpdateMatches ==
    ASSUME MatchInv, MemInv, FilesInv, NEW u \in Uids, NEW es \in Edits, Update(u, es)
    PROVE  MatchInv'
  <1> USE DEF MatchInv
  <1>1. /\ status = "ready" /\ mem[u] # NoComp /\ files[u] # NoFile /\ Matching(u, es) # {}
        /\ files' = [files EXCEPT ![u] = StorageUpdate(u, es)]
        /\ UNCHANGED <<unseen, refused>>
    BY DEF Update, CanUpdate, Write
  <1>2. CASE ~(es.rid = -1 \/ comp_get_recur_point(mem[u], es.rid)) \/ status' = "segfault"
    BY <1>2 DEF Update
  <1>3. CASE (es.rid = -1 \/ comp_get_recur_point(mem[u], es.rid)) /\ status' # "segfault"
    <2> DEFINE c == files[u]
               d == StorageUpdate(u, es)
    <2>1. mem' = [mem EXCEPT ![u] = MemoryUpdate(mem[u], es)]
      BY <1>3 DEF Update
    <2>2. files'[u] = d /\ mem'[u] = MemoryUpdate(mem[u], es)
      BY <1>1, <2>1 DEF FilesInv, MemInv
    <2>3. IsFile(c) /\ IsFile(d)
      BY <1>1, UpdatedFile DEF FilesInv
    <2>4. d # NoFile
      <3>1. 0 \notin DOMAIN d
        BY <2>3 DEF IsFile
      <3> QED
        BY <3>1 DEF NoFile
    <2>5. ASSUME Single(d), u \notin unseen, u \notin refused
          PROVE  /\ mem'[u] # NoComp /\ ~mem'[u].deleted /\ ~mem'[u].recurs
                 /\ mem'[u].type = d[1].type /\ Copy(mem'[u].p) = Copy(d[1].p)
      <3>1. Hits(u, es) # {}
        <4>1. SUFFICES ASSUME Hits(u, es) = {} PROVE FALSE
          OBVIOUS
        <4> DEFINE e == [rid |-> es.rid, type |-> es.type, recurs |-> FALSE,
                         p |-> apply_props_to_icalcomponent(mem[u].p, es)]
        <4>2. d = Append(c, e)
          BY <4>1 DEF StorageUpdate
        <4> HIDE DEF e, d
        <4>3. Len(d) = Len(c) + 1 /\ Len(c) \in Nat /\ DOMAIN c = 1..Len(c)
          BY <2>3, <4>2 DEF IsFile
        <4>4. DOMAIN c = {}
          BY <2>5, <4>3 DEF Single
        <4> QED
          BY <1>1, <4>4 DEF Matching
      <3> DEFINE h == FirstHit(u, es)
                 r == [c[h] EXCEPT !.p = apply_props_to_icalcomponent(@, es)]
      <3>2. d = [i \in DOMAIN c |-> IF i = h THEN r ELSE c[i]]
        <4>1. d = [c EXCEPT ![h].p = apply_props_to_icalcomponent(@, es)]
          BY <3>1 DEF StorageUpdate
        <4> QED
          BY <4>1
      <3>3. DOMAIN d = DOMAIN c
        BY <3>2
      <3>4. Len(c) = 1 /\ DOMAIN c = {1}
        BY <2>3, <2>5, <3>3 DEF IsFile, Single
      <3>5. Hits(u, es) = {1}
        BY <3>1, <3>4 DEF Hits, Matching
      <3>6. h = 1
        BY <3>5 DEF FirstHit
      <3>7. d[1] = r /\ DOMAIN c[1] = Fields
        BY <2>3, <3>2, <3>4, <3>6 DEF IsFile
      <3> HIDE DEF h
      <3>8. /\ d[1].rid = c[1].rid /\ d[1].type = c[1].type /\ d[1].recurs = c[1].recurs
            /\ d[1].p = apply_props_to_icalcomponent(c[1].p, es)
        BY <3>6, <3>7 DEF Fields
      <3>9. Single(c)
        BY <1>1, <2>5, <3>4, <3>8 DEF Single
      <3>10. /\ ~mem[u].deleted /\ ~mem[u].recurs
             /\ mem[u].type = c[1].type /\ Copy(mem[u].p) = Copy(c[1].p)
        BY <1>1, <2>5, <3>9 DEF Matches
      <3>11. es.rid = -1
        <4>1. 1 \in Hits(u, es) /\ c[1].rid = -1
          BY <3>5, <3>9 DEF Single
        <4> QED
          BY <4>1 DEF Hits
      <3>12. mem'[u] = [mem[u] EXCEPT !.p = assign_props(mem[u].p, es)]
        BY <2>2, <3>11 DEF MemoryUpdate
      <3>13. DOMAIN mem[u] = CompFields
        BY <1>1 DEF MemInv, IsMem, IsComp
      <3> DEFINE q == assign_props(mem[u].p, es)
      <3>16. Copy(q) = Copy(d[1].p)
        BY <3>8, <3>10, CopyApplied
      <3> HIDE DEF q, d, c, r
      <3>14. /\ DOMAIN mem'[u] = CompFields
             /\ mem'[u].deleted = mem[u].deleted /\ mem'[u].recurs = mem[u].recurs
             /\ mem'[u].type = mem[u].type /\ mem'[u].p = q
        BY <3>12, <3>13 DEF CompFields, q
      <3>15. mem'[u] # NoComp
        BY <3>14, CompIsNoSentinel
      <3> QED
        BY <3>8, <3>10, <3>14, <3>15, <3>16
    <2>6. u \notin (unseen \cup refused)' => Matches(u)'
      BY <1>1, <2>2, <2>4, <2>5 DEF Matches
    <2>7. \A w \in Uids \ {u} : files'[w] = files[w] /\ mem'[w] = mem[w]
      BY <1>1, <2>1 DEF FilesInv, MemInv
    <2> QED
      BY <1>1, <2>6, <2>7, MatchOne
  <1> QED
    BY <1>2, <1>3

LEMMA ReadMatches ==
    ASSUME MatchInv, MemInv, FilesInv, NEW u \in Uids, ReadFile(u)
    PROVE  MatchInv'
  <1>1. /\ status = "loading" /\ files[u] # NoFile
        /\ UNCHANGED <<files, status>>
    BY DEF ReadFile
  <1>2. CASE UNCHANGED <<mem, unseen, refused>>
    BY <1>1, <1>2 DEF MatchInv, Matches, Single
  <1>3. CASE /\ mem' = [mem EXCEPT ![u] = libical_parse_ics(mem[u], files[u])]
             /\ unseen' = unseen \ {u}
             /\ refused' = IF HasInvalid(files[u]) THEN refused \cup {u} ELSE refused \ {u}
    <2>1. \A w \in Uids \ {u} : mem'[w] = mem[w]
      BY <1>3 DEF MemInv
    <2>2. mem'[u] = libical_parse_ics(mem[u], files[u])
      BY <1>3 DEF MemInv
    <2>3. ASSUME Single(files[u]), u \notin refused'
          PROVE  /\ mem'[u] # NoComp /\ ~mem'[u].deleted /\ ~mem'[u].recurs
                 /\ mem'[u].type = files[u][1].type
                 /\ Copy(mem'[u].p) = Copy(files[u][1].p)
      <3> DEFINE e == files[u][1]
      <3>1. 1 \in DOMAIN files[u]
        BY <1>1, <2>3 DEF Single, FilesInv, IsFile
      <3>2. props_valid_for_type(e.p, e.type)
        BY <1>3, <2>3, <3>1 DEF HasInvalid
      <3>3. PICK times : mem'[u] = comp_init_from_ical(e, times)
        BY <2>2, <2>3, <3>2, ParsedSingle
      <3>4. ~e.recurs
        BY <2>3 DEF Single
      <3> HIDE DEF e
      <3> DEFINE c == mem'[u]
      <3>5. c = comp_init_from_ical(e, times)
        BY <3>3
      <3> HIDE DEF c
      <3>6. /\ c # NoComp /\ c.type = e.type /\ c.p = e.p
            /\ c.recurs = e.recurs /\ c.deleted = FALSE
        BY <3>2, <3>5, NewCompValid
      <3> QED
        BY <3>4, <3>6 DEF e, c
    <2>4. u \notin (unseen \cup refused)' => Matches(u)'
      BY <1>1, <2>3 DEF Matches
    <2> QED
      BY <1>1, <1>3, <2>1, <2>4, MatchOne
  <1> QED
    BY <1>2, <1>3 DEF ReadFile

LEMMA CreateMatches ==
    ASSUME MatchInv, MemInv, FilesInv, NEW u \in Uids, NEW es \in Edits, Create(u, es)
    PROVE  MatchInv'
  <1> DEFINE new(p) == [rid |-> -1, type |-> es.type, recurs |-> FALSE, p |-> p]
             e == new(assign_props(NoProps, es))
             f == new(apply_props_to_icalcomponent(NoProps, es))
  <1>1. /\ status = "ready" /\ props_valid_for_type(e.p, e.type)
        /\ files' = [files EXCEPT ![u] = <<f>>]
    BY DEF Create, Write
  <1>2. CASE mem[u] # NoComp
    BY <1>2 DEF Create, MatchInv
  <1>3. CASE mem[u] = NoComp
    <2>1. /\ mem' = [mem EXCEPT ![u] = comp_init_from_ical(e, {})]
          /\ unseen' = unseen \ {u} /\ refused' = refused \ {u}
      BY <1>3 DEF Create
    <2>2. e.recurs = FALSE /\ e.type = f.type /\ Copy(e.p) = Copy(f.p)
      BY CopyApplied
    <2> HIDE DEF e, f
    <2>3. files'[u] = <<f>> /\ mem'[u] = comp_init_from_ical(e, {})
      BY <1>1, <2>1 DEF FilesInv, MemInv
    <2> DEFINE c == mem'[u]
    <2>4. c = comp_init_from_ical(e, {})
      BY <2>3
    <2> HIDE DEF c
    <2>4a. /\ c # NoComp /\ c.type = e.type /\ c.p = e.p
          /\ c.recurs = e.recurs /\ c.deleted = FALSE
      BY <1>1, <2>4, NewCompValid
    <2>5. /\ c # NoComp /\ c.type = f.type /\ Copy(c.p) = Copy(f.p)
          /\ c.recurs = FALSE /\ c.deleted = FALSE
      BY <2>2, <2>4a
    <2>6. files'[u] # NoFile /\ files'[u][1] = f
      <3>1. 0 \notin DOMAIN <<f>> /\ <<f>>[1] = f
        OBVIOUS
      <3> QED
        BY <2>3, <3>1 DEF NoFile
    <2>7. Matches(u)'
      BY <2>5, <2>6 DEF Matches, c
    <2>8. \A w \in Uids \ {u} : files'[w] = files[w] /\ mem'[w] = mem[w]
      BY <1>1, <2>1 DEF FilesInv, MemInv
    <2> QED
      BY <1>1, <2>1, <2>7, <2>8, MatchOne
  <1> QED
    BY <1>2, <1>3

LEMMA DeleteMatches ==
    ASSUME MatchInv, MemInv, FilesInv, NEW u \in Uids, NEW es \in Edits, Delete(u, es)
    PROVE  MatchInv'
  <1>1. status = "ready" /\ files' = [files EXCEPT ![u] = NoFile]
    BY DEF Delete
  <1>2. CASE mem[u] = NoComp
    BY <1>2 DEF Delete, MatchInv
  <1>3. CASE mem[u] # NoComp
    <2>1. /\ mem' = [mem EXCEPT ![u] = [mem[u] EXCEPT !.deleted = TRUE]]
          /\ unseen' = unseen \ {u} /\ refused' = refused \ {u}
      BY <1>3 DEF Delete
    <2>2. files'[u] = NoFile /\ mem'[u] = [mem[u] EXCEPT !.deleted = TRUE]
      BY <1>1, <2>1 DEF FilesInv, MemInv
    <2>3. mem'[u].deleted
      BY <1>3, <2>2 DEF MemInv, IsMem, IsComp, CompFields
    <2>4. Matches(u)'
      BY <2>2, <2>3 DEF Matches, Single
    <2>5. \A w \in Uids \ {u} : files'[w] = files[w] /\ mem'[w] = mem[w]
      BY <1>1, <2>1 DEF FilesInv, MemInv
    <2> QED
      BY <1>1, <2>1, <2>4, <2>5, MatchOne
  <1> QED
    BY <1>2, <1>3

LEMMA FrameMatches ==
    ASSUME MatchInv, MemInv, Frame
    PROVE  MatchInv'
  <1>1. UNCHANGED <<files, unseen, refused, status>>
    BY DEF Frame, storageVars
  <1>2. ASSUME NEW u \in Uids, Matches(u) PROVE Matches(u)'
    <2>1. CASE mem[u] = NoComp
      BY <1>1, <1>2, <2>1 DEF Frame, Matches, Single
    <2>2. CASE mem[u] # NoComp
      <3> DEFINE cache == IF mem[u].deleted THEN [t \in {} |-> RdpOf(NoProps)]
                          ELSE comp_recur_expand(mem[u])
      <3>1. mem'[u] = [mem[u] EXCEPT !.recur_cache = cache]
        BY <2>2 DEF Frame
      <3>2. DOMAIN mem[u] = CompFields
        BY <2>2 DEF MemInv, IsMem, IsComp
      <3> HIDE DEF cache
      <3>3. /\ DOMAIN mem'[u] = CompFields
            /\ mem'[u].type = mem[u].type /\ mem'[u].p = mem[u].p
            /\ mem'[u].recurs = mem[u].recurs /\ mem'[u].deleted = mem[u].deleted
        BY <3>1, <3>2, FrameKeepsComp
      <3>4. mem'[u] # NoComp
        BY <3>3, CompIsNoSentinel
      <3> QED
        BY <1>1, <1>2, <2>2, <3>3, <3>4 DEF Matches, Single
    <2> QED
      BY <2>1, <2>2
  <1> QED
    BY <1>1, <1>2 DEF MatchInv

LEMMA MatchInitInv == Init => MatchInv
  BY DEF Init, MatchInv, Matches, Single

LEMMA MatchStepInv == MatchInv /\ MemInv /\ FilesInv /\ [Next]_vars => MatchInv'
  <1> SUFFICES ASSUME MatchInv, MemInv, FilesInv, [Next]_vars PROVE MatchInv'
    OBVIOUS
  <1>1. CASE BeginLoad \/ EndLoad \/ Tick \/ UNCHANGED vars
    <2>1. /\ UNCHANGED <<files, mem, unseen, refused>>
          /\ status \in {"loading", "ready"} <=> status' \in {"loading", "ready"}
      BY <1>1 DEF BeginLoad, EndLoad, Tick, vars, storageVars
    <2> QED
      BY <2>1 DEF MatchInv, Matches, Single
  <1>2. ASSUME status' \in Stopped PROVE MatchInv'
    BY <1>2 DEF MatchInv, Stopped
  <1>3. ASSUME NEW u \in Uids, NEW es \in Edits,
               KilledWhileWriting(u, es) \/ EditAborts(u, es) \/ ReadMissing(u)
        PROVE  MatchInv'
    BY <1>2, <1>3 DEF KilledWhileWriting, EditAborts, ReadMissing, Stopped
  <1>4. ASSUME NEW u \in Uids, ReadMissing(u) PROVE MatchInv'
    BY <1>2, <1>4 DEF ReadMissing, Stopped
  <1>5. ASSUME NEW u \in Uids, NEW content, files' = [files EXCEPT ![u] = content],
               unseen' = unseen \cup {u}, UNCHANGED <<mem, refused, status>>
        PROVE  MatchInv'
    <2>1. CASE status \in {"loading", "ready"}
      <3>1. \A w \in Uids \ {u} : files'[w] = files[w]
        BY <1>5 DEF FilesInv
      <3> QED
        BY <1>5, <2>1, <3>1, MatchOne
    <2>2. CASE status \notin {"loading", "ready"}
      BY <1>5, <2>2 DEF MatchInv
    <2> QED
      BY <2>1, <2>2
  <1>6. ASSUME NEW u \in Uids, NEW content \in Contents, ExternalWrite(u, content)
        PROVE  MatchInv'
    BY <1>5, <1>6 DEF ExternalWrite, Write
  <1>7. ASSUME NEW u \in Uids, ExternalDelete(u) PROVE MatchInv'
    BY <1>5, <1>7 DEF ExternalDelete
  <1>8. CASE Restart
    BY <1>8 DEF Restart, MatchInv, Matches, Present, Single
  <1> QED
    BY <1>1, <1>3, <1>4, <1>6, <1>7, <1>8, ReadMatches, UpdateMatches, CreateMatches,
       DeleteMatches, FrameMatches
    DEF Next, Load, Edit, World

(***************************************************************************)
(* Types                                                                   *)
(***************************************************************************)
\* TypeOK but for the components.
TimesOK ==
    /\ mtime \in [Uids -> 0..MaxClock]
    /\ clock \in 0..MaxClock
    /\ loaded \in 0..clock
    /\ since \in -1..loaded
    /\ scan \in SUBSET Uids /\ unseen \in SUBSET Uids /\ refused \in SUBSET Uids
    /\ dirty \in BOOLEAN
    /\ status \in {"loading", "ready"} \cup Stopped

LEMMA TimesInitOK == Init => TimesOK
  <1> SUFFICES ASSUME Init PROVE TimesOK
    OBVIOUS
  <1>1. 0 \in 0..MaxClock /\ 0 \in 0..0 /\ -1 \in -1..0
    BY MaxClockAssumption
  <1> QED
    BY <1>1 DEF Init, TimesOK

LEMMA TimesStepOK == TimesOK /\ [Next]_vars => TimesOK'
  <1> SUFFICES ASSUME TimesOK, [Next]_vars PROVE TimesOK'
    OBVIOUS
  <1> USE MaxClockAssumption DEF TimesOK, storageVars, loadVars
  <1>1. clock \in 0..clock /\ loaded \in -1..clock /\ -1 \in -1..clock
    OBVIOUS
  <1>2. Present \in SUBSET Uids
    BY DEF Present
  <1>3. CASE EndLoad \/ Frame \/ UNCHANGED vars
    BY <1>3 DEF EndLoad, Frame, vars
  <1>4. CASE Tick
    BY <1>4 DEF Tick
  <1>5. CASE BeginLoad
    <2>1. /\ loaded' \in 0..clock' /\ since' \in -1..loaded' /\ clock' \in 0..MaxClock
      BY <1>5, <1>1 DEF BeginLoad
    <2> QED
      BY <1>5, <1>2, <2>1 DEF BeginLoad
  <1>6. ASSUME NEW u \in Uids, ReadFile(u) \/ ReadMissing(u) PROVE TimesOK'
    BY <1>6 DEF ReadFile, ReadMissing, Stopped
  <1>7. ASSUME NEW u \in Uids, NEW es \in Edits,
               \/ Update(u, es) \/ KilledWhileWriting(u, es) \/ EditAborts(u, es)
               \/ Create(u, es) \/ Delete(u, es)
        PROVE  TimesOK'
    <2>1. UNCHANGED <<clock, loaded, since, scan>> /\ mtime' \in [Uids -> 0..MaxClock]
      BY <1>7
      DEF Update, KilledWhileWriting, EditAborts, Create, Delete, CanUpdate, Write
    <2>2. unseen' \in SUBSET Uids /\ refused' \in SUBSET Uids /\ dirty' \in BOOLEAN
      BY <1>7 DEF Update, KilledWhileWriting, EditAborts, Create, Delete
    <2>3. status' \in {"loading", "ready"} \cup Stopped
      BY <1>7 DEF Update, KilledWhileWriting, EditAborts, Create, Delete, Stopped
    <2> QED
      BY <2>1, <2>2, <2>3
  <1>8. ASSUME NEW u \in Uids, NEW content \in Contents,
               ExternalWrite(u, content) \/ ExternalDelete(u)
        PROVE  TimesOK'
    BY <1>8 DEF ExternalWrite, ExternalDelete, Write
  <1>9. ASSUME NEW u \in Uids, ExternalDelete(u) PROVE TimesOK'
    BY <1>9 DEF ExternalDelete
  <1>10. CASE Restart
    BY <1>10, <1>1, <1>2 DEF Restart
  <1> QED
    BY <1>3, <1>4, <1>5, <1>6, <1>7, <1>8, <1>9, <1>10 DEF Next, Load, Edit, World

StorageInv == LoadInv /\ FilesInv /\ MemInv /\ MatchInv /\ TimesOK

\* The inductive invariant of the two representations.
THEOREM StorageInvariant == Spec => []StorageInv
  <1>1. Init => StorageInv
    BY LoadInitInv, FilesInitInv, MemInitInv, MatchInitInv, TimesInitOK DEF StorageInv
  <1>2. StorageInv /\ [Next]_vars => StorageInv'
    BY LoadStepInv, FilesStepInv, MemStepInv, MatchStepInv, TimesStepOK DEF StorageInv
  <1> QED
    BY <1>1, <1>2, PTL DEF Spec

(***************************************************************************)
(* What it is for                                                          *)
(***************************************************************************)
\* A file that another program changes is read by the running load or by the
\* next one, whenever in a load the change happens and whatever is edited,
\* killed or started again.
THEOREM NoChangeMissed == Spec => []LoadMissesNothing
  BY StorageInvariant, PTL DEF StorageInv, LoadInv

\* No edit, no file and no load leaves a component in memory that is not valid
\* for its type, or an instance with properties of the other type.
THEOREM StorageTypes == Spec => []TypeOK
  <1>1. StorageInv => TypeOK
    BY DEF StorageInv, TimesOK, MemInv, IsMem, IsComp, TypeOK
  <1> QED
    BY <1>1, StorageInvariant, PTL

LEMMA CopyRdp ==
    ASSUME NEW p, NEW q, Copy(p) = Copy(q)
    PROVE  RdpOf(p) = RdpOf(q)
  <1>1. ASSUME NEW x PROVE Copy(x) = [k \in DOMAIN x |-> Copied(k, x[k])]
    BY DEF Copy, props_union, NoProps
  <1>2. DOMAIN p = DOMAIN q /\ \A k \in DOMAIN p : Copied(k, p[k]) = Copied(k, q[k])
    BY <1>1
  <1>3. \A k \in DateKeys : k # "related_to"
    BY DEF DateKeys
  <1> QED
    BY <1>2, <1>3 DEF RdpOf, Copied

\* Memory and file of a component that does not recur have the same properties,
\* but for relations that memory cuts off, unless the file was changed since it
\* was read, or was refused.
THEOREM MemoryAlwaysMatchesFile == Spec => []MemoryMatchesFile
  <1>1. StorageInv => MemoryMatchesFile
    <2> SUFFICES ASSUME StorageInv, status = "ready", NEW u \in Uids \ (unseen \cup refused),
                        files[u] = NoFile \/ Plain(files[u])
                 PROVE  Shown(mem[u]) = ShownFromFile(u)
      BY DEF MemoryMatchesFile
    <2>1. Matches(u)
      BY DEF StorageInv, MatchInv
    <2>2. CASE files[u] = NoFile
      BY <2>1, <2>2 DEF Matches, Shown, ShownFromFile
    <2>3. CASE files[u] # NoFile
      <3> DEFINE e == files[u][1]
      <3>1. Single(files[u]) /\ props_valid_for_type(e.p, e.type) /\ ~e.recurs
        BY <2>3 DEF Plain, Single
      <3>2. Shown(mem[u]) = {<<e.type, -1, RdpOf(e.p), Copy(e.p)>>}
        BY <2>1, <3>1, CopyRdp DEF Matches, Shown
      <3>3. PICK times : libical_parse_ics(NoComp, files[u]) = comp_init_from_ical(e, times)
        BY <3>1, ParsedSingle
      <3> DEFINE c == comp_init_from_ical(e, times)
      <3>4. c = comp_init_from_ical(e, times)
        OBVIOUS
      <3> HIDE DEF c, e
      <3>5. /\ c # NoComp /\ c.type = e.type /\ c.p = e.p /\ c.recurs = e.recurs
            /\ c.deleted = FALSE
        BY <3>1, <3>4, NewCompValid
      <3>6. Shown(c) = {<<e.type, -1, RdpOf(e.p), Copy(e.p)>>}
        BY <3>1, <3>5 DEF Shown
      <3> QED
        BY <2>3, <3>2, <3>3, <3>6 DEF ShownFromFile, c
    <2> QED
      BY <2>2, <2>3
  <1> QED
    BY <1>1, StorageInvariant, PTL

LEMMA ApplyKeepsRest ==
    ASSUME NEW p, NEW es
    PROVE  KeepsRest(p, apply_props_to_icalcomponent(p, es), es)
  BY DEF KeepsRest, apply_props_to_icalcomponent

\* An edit leaves in the file whatever it does not name, also what another
\* program wrote there after the last load.
THEOREM ForeignChangesKept == Spec => EditKeepsForeignChanges
  <1>1. ASSUME FilesInv, NEW u \in Uids, NEW es \in Edits, Update(u, es)
        PROVE  \A i \in DOMAIN files[u] : KeepsRest(files[u][i].p, files'[u][i].p, es)
    <2>1. IsFile(files[u]) /\ files'[u] = StorageUpdate(u, es)
      BY <1>1 DEF Update, CanUpdate, Write, FilesInv
    <2>2. \A i \in DOMAIN files[u] :
              files'[u][i].p \in {files[u][i].p, apply_props_to_icalcomponent(files[u][i].p, es)}
      BY <2>1, UpdatedFile
    <2>3. \A p : KeepsRest(p, p, es)
      BY DEF KeepsRest
    <2> QED
      BY <2>2, <2>3, ApplyKeepsRest
  <1>2. FilesInv => [\A u \in Uids, es \in Edits :
                        Update(u, es) => \A i \in DOMAIN files[u] :
                            KeepsRest(files[u][i].p, files'[u][i].p, es)]_vars
    BY <1>1
  <1> QED
    BY <1>2, StorageInvariant, PTL DEF EditKeepsForeignChanges, StorageInv
=============================================================================
