---------------------------- MODULE LibraryProofs ----------------------------
(***************************************************************************)
(* The libraries that the compiler leaves behind.                          *)
(*                                                                         *)
(* What compile promises of the cached ones, for any number of processes,  *)
(* sources, targets, outputs and object files: in an orderly directory     *)
(* processes do not disturb each other, and a cached library always        *)
(* belongs to its name.                                                    *)
(*                                                                         *)
(* What an emitted one does, for every word size and every set of modules: *)
(* the memory of model and instance keeps its layout, only access marks a  *)
(* parameter and it marks no other, and every call of the library is a     *)
(* call on the device of AbstractDevice.                                   *)
(***************************************************************************)
EXTENDS BatchCompile, OsdiLibrary, FiniteSetTheorems, TLAPS

-----------------------------------------------------------------------------
(* The cache of compile                                                    *)

Task == 1 .. Len(Objects)

Labels  == {"lookup", "analyse", "emit", "link", "write", "linked", "clean", "ended"}
Results == {"none", "compiled", "diagnostic", "bad_input", "link_failed", "cleanup_failed",
            "killed"}
Kinds   == {"absent", "partial", "object", "library"}
Codes   == Source \X Target

Contents == [kind : Kinds, of : SUBSET Codes]
State    == [pc : Labels, req : Request \cup {NoRequest}, opened : SUBSET Task,
             emitted : SUBSET Task, parts : SUBSET Codes, removed : Nat, result : Results]

TypeOK ==
  /\ orderly \in BOOLEAN
  /\ fs \in [Path -> Contents]
  /\ st \in [Proc -> State]
  /\ \A p \in Proc : Running(p) => st[p].req \in Request

\* In an orderly directory, processes with the same library take turns.
Turns ==
  orderly => \A p \in Proc : Running(p) =>
    /\ st[p].req.target \notin ImportTargets
    /\ \A q \in Proc \ {p} : Running(q) => Lib(q)[1] # Lib(p)[1]

\* The k-th object of p is whole, and the one that p wrote.
Whole(p, k) == fs[Obj(p, k)] = File("object", {Code(st[p].req)})

\* What a process in an orderly directory finds in its files, at each point.
Finds(p) ==
  /\ st[p].pc \in {"lookup", "analyse"} => st[p].emitted = {}
  /\ st[p].pc # "clean" => st[p].removed = 0
  /\ st[p].pc \in {"analyse", "emit", "link"} /\ st[p].req.batch => fs[Lib(p)] = Absent
  /\ st[p].pc = "emit" =>
       st[p].emitted \subseteq st[p].opened /\ \A k \in st[p].emitted : Whole(p, k)
  /\ st[p].pc \in {"link", "write", "linked"} => \A k \in Task : Whole(p, k)
  /\ st[p].pc = "write" => fs[Lib(p)] = Partial /\ st[p].parts \subseteq {Code(st[p].req)}
  /\ st[p].pc \in {"linked", "clean"} =>
       fs[Lib(p)].kind = "library" /\ fs[Lib(p)].of \subseteq {Code(st[p].req)}
  /\ st[p].pc = "clean" =>
       /\ \A k \in Task : k <= st[p].removed => fs[Obj(p, k)] = Absent
       /\ \A k \in Task : k > st[p].removed => Whole(p, k)

Files == orderly => \A p \in Proc : Finds(p)

\* In an orderly directory a cached library is whole or the linker is at it.
CacheWhole ==
  orderly => \A s \in Source :
    \/ fs[<<s, "osdi">>] = Absent
    \/ fs[<<s, "osdi">>].kind = "library"
    \/ \E p \in Proc : st[p].pc = "write" /\ Lib(p) = <<s, "osdi">>

\* In any directory, files named after a source hold code of that source, and
\* so does what a linker has read for such a file.
NamesMatch ==
  /\ \A f \in Path : f[1] \in Source => \A c \in fs[f].of : c[1] = f[1]
  /\ \A p \in Proc : st[p].pc = "write" /\ Lib(p)[1] \in Source =>
       \A c \in st[p].parts : c[1] = Lib(p)[1]

\* The inductive invariant.
IInv == TypeOK /\ Turns /\ Files /\ CacheWhole /\ NamesMatch /\ NoInterference

-----------------------------------------------------------------------------
\* The object files of a request lie beside its library, differ from it and from
\* each other, and from every cached library; only batch mode names a library
\* after a source.
LEMMA Paths ==
  ASSUME NEW r \in Request
  PROVE  /\ lib_file(r) \in Path
         /\ r.batch => lib_file(r) = <<r.source, "osdi">>
         /\ lib_file(r)[1] \in Source => r.batch /\ lib_file(r)[1] = r.source
         /\ \A k \in Task : /\ obj_file(r, Objects[k]) \in Path
                            /\ obj_file(r, Objects[k])[1] = lib_file(r)[1]
                            /\ obj_file(r, Objects[k]) # lib_file(r)
                            /\ \A s \in Source : obj_file(r, Objects[k]) # <<s, "osdi">>
         /\ \A j, k \in Task : obj_file(r, Objects[j]) = obj_file(r, Objects[k]) => j = k
<1> USE DEF Task
<1>1. /\ r.source \in Source /\ r.out \in Output /\ r.batch \in BOOLEAN
      /\ \A k \in Task : Objects[k] # "osdi" /\ Objects[k] \in Exts
      /\ r.out[1] \notin Source /\ \A k \in Task : r.out[2] # Objects[k]
  BY BatchCompileAssumption DEF Request, Exts
<1>2. /\ r.batch => lib_file(r) = <<r.source, "osdi">>
      /\ ~r.batch => lib_file(r) = r.out
  BY DEF lib_file
<1>3. lib_file(r) \in Path /\ lib_file(r)[1] \in Source \cup {o[1] : o \in Output}
  BY <1>1, <1>2 DEF Path
<1>4. ASSUME NEW k \in Task
      PROVE  /\ obj_file(r, Objects[k]) \in Path
             /\ obj_file(r, Objects[k])[1] = lib_file(r)[1]
             /\ obj_file(r, Objects[k])[2] = Objects[k]
  BY <1>1, <1>3 DEF Path, obj_file
<1>5. ASSUME NEW k \in Task
      PROVE  /\ obj_file(r, Objects[k]) # lib_file(r)
             /\ \A s \in Source : obj_file(r, Objects[k]) # <<s, "osdi">>
  BY <1>1, <1>2, <1>4
<1>6. ASSUME NEW j \in Task, NEW k \in Task, obj_file(r, Objects[j]) = obj_file(r, Objects[k])
      PROVE  j = k
  BY <1>4, <1>6, BatchCompileAssumption
<1>7. QED
  BY <1>1, <1>2, <1>3, <1>4, <1>5, <1>6

\* The paths of the cached libraries.
LEMMA CachedPath == \A s \in Source : <<s, "osdi">> \in Path /\ <<s, "osdi">>[1] = s
BY DEF Path

\* The initial state.
LEMMA InitInv == Init => IInv
<1> SUFFICES ASSUME Init PROVE IInv
  OBVIOUS
<1>1. \A p \in Proc : st[p].pc = "ended" /\ st[p].result = "none"
  BY DEF Init, Fresh
<1>2. \A f \in Path : fs[f] = Absent
  BY DEF Init
<1>3. TypeOK
  BY DEF Init, TypeOK, Fresh, Running, Absent, File, Labels, Results, Kinds, Contents, State
<1>4. Turns /\ NoInterference /\ Files
  BY <1>1 DEF Init, Fresh, Turns, Running, NoInterference, Files, Finds
<1>5. CacheWhole /\ NamesMatch
  BY <1>1, <1>2, CachedPath DEF CacheWhole, NamesMatch, Absent, File
<1>6. QED
  BY <1>3, <1>4, <1>5 DEF IInv

-----------------------------------------------------------------------------
\* What the processes find depends on their files and their own state only.
LEMMA FindsFrame ==
  ASSUME TypeOK, NEW q \in Proc, Finds(q), st'[q] = st[q],
         Running(q) => \A f \in Path : f[1] = Lib(q)[1] => fs'[f] = fs[f]
  PROVE  Finds(q)'
<1>1. CASE ~Running(q)
  BY <1>1 DEF Finds, Running
<1>2. CASE Running(q)
  <2>1. st[q].req \in Request
    BY <1>2 DEF TypeOK
  <2>2. /\ Lib(q)' = Lib(q) /\ fs'[Lib(q)] = fs[Lib(q)]
        /\ \A k \in Task : Obj(q, k)' = Obj(q, k) /\ fs'[Obj(q, k)] = fs[Obj(q, k)]
    BY <1>2, <2>1, Paths DEF Lib, Obj
  <2>3. \A k \in Task : Whole(q, k)' <=> Whole(q, k)
    BY <2>2 DEF Whole
  <2>4. st[q].emitted \subseteq Task
    BY DEF TypeOK, State
  <2>5. QED
    BY <2>2, <2>3, <2>4 DEF Finds
<1>3. QED
  BY <1>1, <1>2

\* A step of p that writes no files but its own, and leaves p with what it is to
\* find, leaves all processes with that.
LEMMA OwnFiles ==
  ASSUME TypeOK, Turns, Files, NEW p \in Proc, Running(p), orderly' = orderly,
         Running(p)' => st'[p].req = st[p].req,
         \A q \in Proc \ {p} : st'[q] = st[q],
         \A f \in Path : f[1] # Lib(p)[1] => fs'[f] = fs[f],
         orderly => Finds(p)'
  PROVE  Turns' /\ Files'
<1>1. \A q \in Proc : Running(q)' => Running(q) /\ st'[q].req = st[q].req /\ Lib(q)' = Lib(q)
  BY DEF Running, Lib
<1>2. Turns'
  BY <1>1 DEF Turns
<1>3. ASSUME orderly, NEW q \in Proc \ {p}
      PROVE  Finds(q)'
  <2>1. Running(q) => Lib(q)[1] # Lib(p)[1]
    BY <1>3 DEF Turns
  <2>2. QED
    BY <1>3, <2>1, FindsFrame DEF Files
<1>4. QED
  BY <1>2, <1>3 DEF Files

\* A process that ends without having changed a file. In an orderly directory a
\* linker does not end while it writes.
LEMMA ReturnKeeps ==
  ASSUME IInv, NEW p \in Proc, NEW res \in Results, Running(p), Return(p, res),
         orderly' = orderly, fs' = fs,
         orderly => st[p].pc # "write" /\ res \notin {"bad_input", "cleanup_failed"}
  PROVE  IInv'
<1> USE DEF IInv
<1>1. /\ st' \in [Proc -> State]
      /\ st'[p].pc = "ended" /\ st'[p].result = res /\ st'[p].removed = 0
      /\ \A q \in Proc \ {p} : st'[q] = st[q]
  BY DEF Return, TypeOK, State, Fresh, Labels, Results
<1>2. TypeOK'
  BY <1>1 DEF TypeOK, Running
<1>3. Finds(p)'
  BY <1>1 DEF Finds
<1>4. ~Running(p)'
  BY <1>1 DEF Running
<1>5. Turns' /\ Files'
  BY <1>1, <1>3, <1>4, OwnFiles
<1>6. CacheWhole'
  BY <1>1 DEF CacheWhole, Lib
<1>7. NamesMatch'
  BY <1>1 DEF NamesMatch, Lib
<1>8. NoInterference'
  BY <1>1 DEF NoInterference
<1>9. QED
  BY <1>2, <1>5, <1>6, <1>7, <1>8

\* A process that goes on without having changed a file.
LEMMA GotoKeeps ==
  ASSUME IInv, NEW p \in Proc, NEW l \in Labels, Running(p), Goto(p, l),
         orderly' = orderly, fs' = fs, st[p].pc # "write", l \notin {"write", "ended"},
         orderly => Finds(p)'
  PROVE  IInv'
<1> USE DEF IInv
<1>1. /\ st' \in [Proc -> State]
      /\ st'[p].pc = l /\ st'[p].result = st[p].result /\ st'[p].req = st[p].req
      /\ \A q \in Proc \ {p} : st'[q] = st[q]
  BY DEF Goto, TypeOK, State
<1>2. TypeOK'
  BY <1>1 DEF TypeOK, Running
<1>3. Turns' /\ Files'
  BY <1>1, OwnFiles
<1>4. CacheWhole'
  BY <1>1 DEF CacheWhole, Lib
<1>5. NamesMatch'
  BY <1>1 DEF NamesMatch, Lib
<1>6. NoInterference'
  BY <1>1 DEF NoInterference
<1>7. QED
  BY <1>2, <1>3, <1>4, <1>5, <1>6

\* A process that writes, or removes, one of its object files.
LEMMA ObjectKeeps ==
  ASSUME IInv, NEW p \in Proc, NEW k \in Task, st[p].pc \in {"emit", "clean"},
         NEW c \in Contents, c.of \subseteq {Code(st[p].req)},
         fs' = [fs EXCEPT ![Obj(p, k)] = c], orderly' = orderly,
         TypeOK', \A q \in Proc \ {p} : st'[q] = st[q],
         st'[p].pc = st[p].pc, st'[p].req = st[p].req, st'[p].result = st[p].result,
         orderly => Finds(p)'
  PROVE  IInv'
<1> USE DEF IInv
<1>1. Running(p) /\ st[p].req \in Request
  BY DEF Running, TypeOK
<1>2. /\ Obj(p, k) \in Path /\ Obj(p, k)[1] = Lib(p)[1]
      /\ \A s \in Source : Obj(p, k) # <<s, "osdi">>
      /\ Obj(p, k)[1] \in Source => Obj(p, k)[1] = st[p].req.source
  BY <1>1, Paths DEF Obj, Lib
<1>3. /\ \A f \in Path : f # Obj(p, k) => fs'[f] = fs[f]
      /\ fs'[Obj(p, k)] = c
  BY <1>2 DEF TypeOK
<1>4. \A f \in Path : f[1] # Lib(p)[1] => fs'[f] = fs[f]
  BY <1>2, <1>3
<1>5. Turns' /\ Files'
  BY <1>1, <1>4, OwnFiles
<1>6. \A s \in Source : fs'[<<s, "osdi">>] = fs[<<s, "osdi">>]
  BY <1>2, <1>3, CachedPath
<1>7. CacheWhole'
  BY <1>6 DEF CacheWhole, Lib
<1>8. \A x \in c.of : x[1] = st[p].req.source
  BY DEF Code
<1>9. NamesMatch'
  <2>1. \A f \in Path : f[1] \in Source => \A x \in fs'[f].of : x[1] = f[1]
    BY <1>2, <1>3, <1>8 DEF NamesMatch
  <2>2. ASSUME NEW q \in Proc, st'[q].pc = "write"
        PROVE  q # p /\ st'[q] = st[q]
    BY <2>2
  <2>3. QED
    BY <2>1, <2>2 DEF NamesMatch, Lib
<1>10. NoInterference'
  BY DEF NoInterference
<1>11. QED
  BY <1>5, <1>7, <1>9, <1>10

-----------------------------------------------------------------------------
\* One lemma per operation.

LEMMA StartKeeps ==
  ASSUME IInv, NEW p \in Proc, NEW r \in Request, Start(p, r), orderly' = orderly
  PROVE  IInv'
<1> USE DEF IInv
<1>1. /\ st' \in [Proc -> State]
      /\ st'[p].pc = "lookup" /\ st'[p].result = "none" /\ st'[p].req = r
      /\ st'[p].emitted = {} /\ st'[p].removed = 0
      /\ \A q \in Proc \ {p} : st'[q] = st[q]
      /\ fs' = fs /\ ~Running(p)
  BY DEF Start, TypeOK, State, Fresh, Labels, Results
<1>2. TypeOK'
  BY <1>1 DEF TypeOK, Running
<1>3. Turns'
  <2>1. orderly => /\ r.target \notin ImportTargets
                   /\ \A q \in Proc : Running(q) => Lib(q)[1] # lib_file(r)[1]
    BY DEF Start
  <2>2. Lib(p)' = lib_file(r) /\ \A q \in Proc \ {p} : Lib(q)' = Lib(q)
    BY <1>1 DEF Lib
  <2>3. \A q \in Proc \ {p} : Running(q)' <=> Running(q)
    BY <1>1 DEF Running
  <2>4. QED
    BY <1>1, <2>1, <2>2, <2>3 DEF Turns
<1>4. Files'
  <2>1. Finds(p)'
    BY <1>1 DEF Finds
  <2>2. \A q \in Proc \ {p} : orderly => Finds(q)'
    BY <1>1, FindsFrame DEF Files
  <2>3. QED
    BY <2>1, <2>2 DEF Files
<1>5. \A q \in Proc : st[q].pc = "write" => Lib(q)' = Lib(q) /\ st'[q] = st[q]
  BY <1>1 DEF Lib, Running
<1>6. CacheWhole'
  BY <1>1, <1>5 DEF CacheWhole
<1>7. NamesMatch'
  BY <1>1, <1>5 DEF NamesMatch, Lib
<1>8. NoInterference'
  BY <1>1 DEF NoInterference
<1>9. QED
  BY <1>2, <1>3, <1>4, <1>6, <1>7, <1>8

LEMMA CacheHitKeeps ==
  ASSUME IInv, NEW p \in Proc, CacheHit(p), orderly' = orderly
  PROVE  IInv'
BY ReturnKeeps DEF CacheHit, Running, Results

LEMMA CacheMissKeeps ==
  ASSUME IInv, NEW p \in Proc, CacheMiss(p), orderly' = orderly
  PROVE  IInv'
<1>1. /\ st'[p].pc = "analyse" /\ st'[p].req = st[p].req /\ fs' = fs
      /\ st'[p].emitted = st[p].emitted /\ st'[p].removed = st[p].removed
  BY DEF CacheMiss, Goto, IInv, TypeOK
<1>2. orderly => Finds(p)'
  BY <1>1 DEF CacheMiss, Finds, Files, Lib, IInv
<1>3. QED
  BY <1>2, GotoKeeps DEF CacheMiss, Running, Labels

LEMMA AnalyseKeeps ==
  ASSUME IInv, NEW p \in Proc, Analyse(p), orderly' = orderly
  PROVE  IInv'
<1>1. ASSUME NEW res \in {"diagnostic", "compiled"}, Return(p, res)
      PROVE  IInv'
  BY <1>1, ReturnKeeps DEF Analyse, Running, Results
<1>2. ASSUME Goto(p, "emit")
      PROVE  IInv'
  <2>1. /\ st'[p].pc = "emit" /\ st'[p].req = st[p].req /\ st'[p].emitted = st[p].emitted
        /\ st'[p].removed = st[p].removed /\ fs' = fs
    BY <1>2 DEF Analyse, Goto, IInv, TypeOK
  <2>2. orderly => Finds(p)'
    BY <2>1 DEF Analyse, Finds, Files, Lib, IInv
  <2>3. QED
    BY <1>2, <2>2, GotoKeeps DEF Analyse, Running, Labels
<1>3. QED
  BY <1>1, <1>2 DEF Analyse

\* What p's object files and its state are after a step that writes its k-th
\* object file.
LEMMA ObjectWritten ==
  ASSUME TypeOK, NEW p \in Proc, Running(p), NEW k \in Task,
         NEW c \in Contents,
         fs' = [fs EXCEPT ![Obj(p, k)] = c], st'[p].req = st[p].req
  PROVE  /\ fs'[Obj(p, k)] = c
         /\ Lib(p)' = Lib(p) /\ fs'[Lib(p)] = fs[Lib(p)]
         /\ \A j \in Task : Obj(p, j)' = Obj(p, j)
         /\ \A j \in Task \ {k} : fs'[Obj(p, j)] = fs[Obj(p, j)]
         /\ \A j \in Task \ {k} : Whole(p, j)' <=> Whole(p, j)
<1>1. st[p].req \in Request
  BY DEF TypeOK
<1>2. /\ Lib(p)' = Lib(p) /\ Lib(p) \in Path /\ Lib(p) # Obj(p, k)
      /\ \A j \in Task : Obj(p, j)' = Obj(p, j) /\ Obj(p, j) \in Path
      /\ \A j \in Task \ {k} : Obj(p, j) # Obj(p, k)
  BY <1>1, Paths DEF Lib, Obj
<1>3. \A f \in Path : fs'[f] = IF f = Obj(p, k) THEN c ELSE fs[f]
  BY <1>2 DEF TypeOK
<1>4. QED
  BY <1>2, <1>3 DEF Whole

LEMMA OpenObjectKeeps ==
  ASSUME IInv, NEW p \in Proc, NEW k \in Task, OpenObject(p, k), orderly' = orderly
  PROVE  IInv'
<1> USE DEF IInv
<1>1. /\ st' \in [Proc -> State]
      /\ st'[p].pc = "emit" /\ st'[p].req = st[p].req /\ st'[p].result = st[p].result
      /\ st'[p].opened = st[p].opened \cup {k} /\ st'[p].emitted = st[p].emitted
      /\ st'[p].removed = st[p].removed
      /\ \A q \in Proc \ {p} : st'[q] = st[q]
  BY DEF OpenObject, TypeOK, State
<1>2. Running(p) /\ fs' = [fs EXCEPT ![Obj(p, k)] = Partial]
  BY DEF OpenObject, Running
<1>3. Partial \in Contents /\ Partial.of = {}
  BY DEF Partial, File, Kinds, Contents
<1>4. TypeOK'
  BY <1>1, <1>2, <1>3 DEF TypeOK, Running
<1>5. orderly => Finds(p)'
  <2>1. orderly => k \notin st[p].emitted /\ st[p].emitted \subseteq Task
    BY DEF OpenObject, Files, Finds, TypeOK, State
  <2>2. /\ \A j \in Task \ {k} : Whole(p, j)' <=> Whole(p, j)
        /\ Lib(p)' = Lib(p) /\ fs'[Lib(p)] = fs[Lib(p)]
    BY <1>1, <1>2, <1>3, ObjectWritten
  <2>3. QED
    BY <1>1, <2>1, <2>2 DEF OpenObject, Files, Finds
<1>6. QED
  BY <1>1, <1>2, <1>3, <1>4, <1>5, ObjectKeeps DEF OpenObject

LEMMA CloseObjectKeeps ==
  ASSUME IInv, NEW p \in Proc, NEW k \in Task, CloseObject(p, k), orderly' = orderly
  PROVE  IInv'
<1> USE DEF IInv
<1>1. Running(p) /\ Code(st[p].req) \in Codes
  BY DEF CloseObject, Running, TypeOK, Request, Code, Codes
<1>2. PICK c \in Contents : c = File("object", {Code(st[p].req)})
  BY <1>1 DEF File, Kinds, Contents
<1>3. c.of \subseteq {Code(st[p].req)} /\ fs' = [fs EXCEPT ![Obj(p, k)] = c]
  BY <1>2 DEF CloseObject, File
<1>4. /\ st' \in [Proc -> State]
      /\ st'[p].pc = "emit" /\ st'[p].req = st[p].req /\ st'[p].result = st[p].result
      /\ st'[p].opened = st[p].opened /\ st'[p].emitted = st[p].emitted \cup {k}
      /\ st'[p].removed = st[p].removed
      /\ \A q \in Proc \ {p} : st'[q] = st[q]
  BY DEF CloseObject, TypeOK, State
<1>5. TypeOK'
  BY <1>1, <1>3, <1>4 DEF TypeOK, Running
<1>6. orderly => Finds(p)'
  <2>1. /\ fs'[Obj(p, k)] = c /\ Obj(p, k)' = Obj(p, k)
        /\ Lib(p)' = Lib(p) /\ fs'[Lib(p)] = fs[Lib(p)]
        /\ \A j \in Task \ {k} : Whole(p, j)' <=> Whole(p, j)
    BY <1>1, <1>3, <1>4, ObjectWritten
  <2>2. Whole(p, k)'
    BY <1>2, <1>4, <2>1 DEF Whole
  <2>3. st[p].emitted \subseteq Task
    BY DEF TypeOK, State
  <2>4. QED
    BY <1>4, <2>1, <2>2, <2>3 DEF CloseObject, Files, Finds
<1>7. st[p].pc \in {"emit", "clean"} /\ st'[p].pc = st[p].pc
  BY <1>4 DEF CloseObject
<1>8. QED
  BY <1>3, <1>4, <1>5, <1>6, <1>7, ObjectKeeps

LEMMA TasksDoneKeeps ==
  ASSUME IInv, NEW p \in Proc, TasksDone(p), orderly' = orderly
  PROVE  IInv'
<1>1. /\ st'[p].pc = "link" /\ st'[p].req = st[p].req /\ st'[p].removed = st[p].removed
      /\ fs' = fs
  BY DEF TasksDone, Goto, IInv, TypeOK
<1>2. orderly => Finds(p)'
  <2>1. \A k \in Task : Whole(p, k)' <=> Whole(p, k)
    BY <1>1 DEF Whole, Obj
  <2>2. QED
    BY <1>1, <2>1 DEF TasksDone, Finds, Files, Lib, IInv, Task
<1>3. QED
  BY <1>2, GotoKeeps DEF TasksDone, Running, Labels

\* What p's library and its state are after a step that writes its library.
LEMMA LibraryWritten ==
  ASSUME TypeOK, NEW p \in Proc, Running(p), NEW c \in Contents,
         fs' = [fs EXCEPT ![Lib(p)] = c], st'[p].req = st[p].req
  PROVE  /\ Lib(p) \in Path /\ Lib(p)' = Lib(p) /\ fs'[Lib(p)] = c
         /\ \A f \in Path : f # Lib(p) => fs'[f] = fs[f]
         /\ \A k \in Task : Whole(p, k)' <=> Whole(p, k)
<1>1. st[p].req \in Request
  BY DEF TypeOK
<1>2. /\ Lib(p)' = Lib(p) /\ Lib(p) \in Path
      /\ \A k \in Task : Obj(p, k)' = Obj(p, k) /\ Obj(p, k) \in Path /\ Obj(p, k) # Lib(p)
  BY <1>1, Paths DEF Lib, Obj
<1>3. \A f \in Path : fs'[f] = IF f = Lib(p) THEN c ELSE fs[f]
  BY <1>2 DEF TypeOK
<1>4. QED
  BY <1>2, <1>3 DEF Whole

LEMMA ReadObjectsKeeps ==
  ASSUME IInv, NEW p \in Proc, ReadObjects(p), orderly' = orderly
  PROVE  IInv'
<1> USE DEF IInv
<1> DEFINE parts == UNION {fs[Obj(p, k)].of : k \in Task}
<1>1. Running(p) /\ st[p].req \in Request
  BY DEF ReadObjects, Running, TypeOK
<1>2. \A k \in Task : Obj(p, k) \in Path /\ Obj(p, k)[1] = Lib(p)[1]
  BY <1>1, Paths DEF Obj, Lib
<1>3. parts \in SUBSET Codes
  BY <1>2 DEF TypeOK, Contents
<1>4. /\ st' \in [Proc -> State]
      /\ st'[p].pc = "write" /\ st'[p].req = st[p].req /\ st'[p].result = st[p].result
      /\ st'[p].parts = parts /\ st'[p].removed = st[p].removed
      /\ \A q \in Proc \ {p} : st'[q] = st[q]
  BY <1>3, ZenonT(40) DEF ReadObjects, TypeOK, Task, State, Labels
<1>5. Partial \in Contents /\ Partial.of = {} /\ fs' = [fs EXCEPT ![Lib(p)] = Partial]
  BY DEF ReadObjects, Partial, File, Kinds, Contents
<1>6. TypeOK'
  BY <1>1, <1>4, <1>5 DEF TypeOK, Running
<1>7. /\ Lib(p) \in Path /\ Lib(p)' = Lib(p) /\ fs'[Lib(p)] = Partial
      /\ \A f \in Path : f # Lib(p) => fs'[f] = fs[f]
      /\ \A k \in Task : Whole(p, k)' <=> Whole(p, k)
  BY <1>1, <1>4, <1>5, LibraryWritten
<1>8. orderly => Finds(p)'
  <2>1. orderly => \A k \in Task : Whole(p, k)
    BY DEF ReadObjects, Files, Finds
  <2>2. orderly => parts \subseteq {Code(st[p].req)}
    BY <2>1 DEF Whole, File
  <2>3. orderly => st[p].removed = 0
    BY DEF ReadObjects, Files, Finds
  <2>4. Code(st[p].req)' = Code(st[p].req)
    BY <1>4 DEF Code
  <2>5. QED
    BY <1>4, <1>7, <2>1, <2>2, <2>3, <2>4 DEF Finds
<1>9. Turns' /\ Files'
  BY <1>1, <1>4, <1>7, <1>8, OwnFiles
<1>10. CacheWhole'
  <2>1. ASSUME orderly, NEW s \in Source, Lib(p) # <<s, "osdi">>,
               NEW q \in Proc, st[q].pc = "write", Lib(q) = <<s, "osdi">>
        PROVE  st'[q].pc = "write" /\ Lib(q)' = <<s, "osdi">>
    BY <1>4, <2>1 DEF Lib
  <2>2. QED
    BY <1>4, <1>7, <2>1, CachedPath DEF CacheWhole
<1>11. NamesMatch'
  <2>1. \A f \in Path : f[1] \in Source => \A c \in fs'[f].of : c[1] = f[1]
    BY <1>5, <1>7 DEF NamesMatch
  <2>2. ASSUME Lib(p)[1] \in Source, NEW c \in parts
        PROVE  c[1] = Lib(p)[1]
    BY <1>2, <2>2 DEF NamesMatch
  <2>3. ASSUME NEW q \in Proc \ {p}, st'[q].pc = "write"
        PROVE  st'[q] = st[q] /\ Lib(q)' = Lib(q)
    BY <1>4, <2>3 DEF Lib
  <2>4. QED
    BY <1>4, <1>7, <2>1, <2>2, <2>3 DEF NamesMatch
<1>12. NoInterference'
  BY <1>4 DEF NoInterference
<1>13. QED
  BY <1>6, <1>9, <1>10, <1>11, <1>12

LEMMA WriteLibraryKeeps ==
  ASSUME IInv, NEW p \in Proc, WriteLibrary(p), orderly' = orderly
  PROVE  IInv'
<1> USE DEF IInv
<1>1. Running(p) /\ st[p].req \in Request
  BY DEF WriteLibrary, Running, TypeOK
<1>2. /\ st' \in [Proc -> State]
      /\ st'[p].pc = "linked" /\ st'[p].req = st[p].req /\ st'[p].result = st[p].result
      /\ st'[p].removed = st[p].removed
      /\ \A q \in Proc \ {p} : st'[q] = st[q]
  BY DEF WriteLibrary, Goto, TypeOK, State, Labels
<1>3. PICK c \in Contents : c = File("library", st[p].parts)
  BY DEF TypeOK, State, File, Kinds, Contents
<1>4. fs' = [fs EXCEPT ![Lib(p)] = c] /\ c.kind = "library" /\ c.of = st[p].parts
  BY <1>3 DEF WriteLibrary, File
<1>5. TypeOK'
  BY <1>1, <1>2, <1>4 DEF TypeOK, Running
<1>6. /\ Lib(p) \in Path /\ Lib(p)' = Lib(p) /\ fs'[Lib(p)] = c
      /\ \A f \in Path : f # Lib(p) => fs'[f] = fs[f]
      /\ \A k \in Task : Whole(p, k)' <=> Whole(p, k)
  BY <1>1, <1>2, <1>4, LibraryWritten
<1>7. orderly => Finds(p)'
  <2>1. Code(st[p].req)' = Code(st[p].req)
    BY <1>2 DEF Code
  <2>2. QED
    BY <1>2, <1>4, <1>6, <2>1 DEF WriteLibrary, Files, Finds
<1>8. Turns' /\ Files'
  BY <1>1, <1>2, <1>6, <1>7, OwnFiles
<1>9. CacheWhole'
  <2>1. ASSUME NEW s \in Source, Lib(p) # <<s, "osdi">>,
               NEW q \in Proc, st[q].pc = "write", Lib(q) = <<s, "osdi">>
        PROVE  st'[q].pc = "write" /\ Lib(q)' = <<s, "osdi">>
    BY <1>2, <2>1 DEF Lib
  <2>2. QED
    BY <1>4, <1>6, <2>1, CachedPath DEF CacheWhole
<1>10. NamesMatch'
  <2>1. \A f \in Path : f[1] \in Source => \A x \in fs'[f].of : x[1] = f[1]
    BY <1>4, <1>6 DEF NamesMatch, WriteLibrary
  <2>2. ASSUME NEW q \in Proc, st'[q].pc = "write"
        PROVE  st'[q] = st[q] /\ Lib(q)' = Lib(q)
    BY <1>2, <2>2 DEF Lib
  <2>3. QED
    BY <2>1, <2>2 DEF NamesMatch
<1>11. NoInterference'
  BY <1>2 DEF NoInterference
<1>12. QED
  BY <1>5, <1>8, <1>9, <1>10, <1>11

LEMMA LinkFailsKeeps ==
  ASSUME IInv, NEW p \in Proc, LinkFails(p), orderly' = orderly
  PROVE  IInv'
<1>1. Running(p) /\ st[p].pc = "link" /\ fs' = fs
  BY DEF LinkFails, Running
<1>2. orderly => /\ st[p].req.target \notin ImportTargets
                 /\ \A k \in Task : fs[Obj(p, k)].kind = "object"
  <2>1. orderly => \A k \in Task : Whole(p, k)
    BY <1>1 DEF IInv, Files, Finds
  <2>2. orderly => st[p].req.target \notin ImportTargets
    BY <1>1 DEF IInv, Turns
  <2>3. QED
    BY <2>1, <2>2 DEF Whole, File
<1>3. PICK res \in {"bad_input", "link_failed"} :
        Return(p, res) /\ (orderly => res = "link_failed")
  BY <1>2 DEF LinkFails, Task
<1>4. QED
  BY <1>1, <1>3, ReturnKeeps DEF Results

LEMMA RemoveImportLibKeeps ==
  ASSUME IInv, NEW p \in Proc, RemoveImportLib(p), orderly' = orderly
  PROVE  IInv'
<1>1. Running(p) /\ st[p].pc = "linked" /\ fs' = fs
  BY DEF RemoveImportLib, Running
<1>2. ASSUME Return(p, "cleanup_failed"), st[p].req.target \in ImportTargets
      PROVE  IInv'
  <2>1. ~orderly
    BY <1>1, <1>2 DEF IInv, Turns
  <2>2. QED
    BY <1>1, <1>2, <2>1, ReturnKeeps DEF Results
<1>3. ASSUME Goto(p, "clean")
      PROVE  IInv'
  <2>1. st'[p].pc = "clean" /\ st'[p].req = st[p].req /\ st'[p].removed = st[p].removed
    BY <1>3 DEF Goto, IInv, TypeOK
  <2>2. \A k \in Task : Whole(p, k)' <=> Whole(p, k)
    BY <1>1, <2>1 DEF Whole, Obj
  <2>3. /\ Lib(p)' = Lib(p) /\ Code(st[p].req)' = Code(st[p].req)
    BY <2>1 DEF Lib, Code
  <2>4. orderly => Finds(p) /\ st[p].removed = 0
    BY <1>1 DEF IInv, Files, Finds
  <2>5. orderly => Finds(p)'
    BY <1>1, <2>1, <2>2, <2>3, <2>4 DEF Finds, Task
  <2>6. QED
    BY <1>1, <1>3, <2>5, GotoKeeps DEF Labels
<1>4. QED
  BY <1>2, <1>3 DEF RemoveImportLib

LEMMA CleanKeeps ==
  ASSUME IInv, NEW p \in Proc, Clean(p), orderly' = orderly
  PROVE  IInv'
<1> USE DEF IInv
<1>1. Running(p) /\ st[p].pc = "clean" /\ st[p].removed \in Nat /\ Len(Objects) \in Nat
  BY BatchCompileAssumption DEF Clean, Running, TypeOK, State
<1>2. PICK k \in Nat : k = st[p].removed + 1
  BY <1>1
<1>3. ASSUME Return(p, "compiled"), fs' = fs
      PROVE  IInv'
  BY <1>1, <1>3, ReturnKeeps DEF Results
<1>4. ASSUME k <= Len(Objects), fs[Obj(p, k)] = Absent, Return(p, "cleanup_failed"), fs' = fs
      PROVE  IInv'
  <2>1. orderly => Whole(p, k)
    BY <1>1, <1>2, <1>4 DEF Files, Finds, Task
  <2>2. ~orderly
    BY <1>4, <2>1 DEF Whole, Absent, File
  <2>3. QED
    BY <1>1, <1>2, <1>4, <2>2, ReturnKeeps DEF Results
<1>5. ASSUME k <= Len(Objects), fs' = [fs EXCEPT ![Obj(p, k)] = Absent],
             st' = [st EXCEPT ![p].removed = k]
      PROVE  IInv'
  <2>1. /\ st' \in [Proc -> State]
        /\ st'[p].pc = "clean" /\ st'[p].req = st[p].req /\ st'[p].result = st[p].result
        /\ st'[p].removed = k
        /\ \A q \in Proc \ {p} : st'[q] = st[q]
    BY <1>1, <1>2, <1>5 DEF TypeOK, State
  <2>2. Absent \in Contents /\ Absent.of = {} /\ k \in Task
    BY <1>1, <1>2, <1>5 DEF Absent, File, Kinds, Contents, Task
  <2>3. TypeOK'
    BY <1>1, <1>2, <1>5, <2>1, <2>2 DEF TypeOK, Running
  <2>4. /\ fs'[Obj(p, k)] = Absent /\ Obj(p, k)' = Obj(p, k)
        /\ Lib(p)' = Lib(p) /\ fs'[Lib(p)] = fs[Lib(p)]
        /\ \A j \in Task : Obj(p, j)' = Obj(p, j)
        /\ \A j \in Task \ {k} : fs'[Obj(p, j)] = fs[Obj(p, j)]
        /\ \A j \in Task \ {k} : Whole(p, j)' <=> Whole(p, j)
    <3>1. TypeOK /\ st'[p].req = st[p].req /\ fs' = [fs EXCEPT ![Obj(p, k)] = Absent]
      BY <1>5, <2>1
    <3>2. QED
      BY <1>1, <2>2, <3>1, ObjectWritten
  <2>5. ASSUME orderly
        PROVE  Finds(p)'
    <3>1. \A j \in Task : j <= k => fs'[Obj(p, j)'] = Absent
      BY <1>1, <1>2, <2>4, <2>5 DEF Files, Finds, Task
    <3>2. \A j \in Task : j > k => Whole(p, j)'
      BY <1>1, <1>2, <2>4, <2>5 DEF Files, Finds, Task
    <3>3. Code(st[p].req)' = Code(st[p].req)
      BY <2>1 DEF Code
    <3>4. fs'[Lib(p)'].kind = "library" /\ fs'[Lib(p)'].of \subseteq {Code(st[p].req)'}
      BY <1>1, <1>2, <2>4, <2>5, <3>3 DEF Files, Finds
    <3>5. QED
      BY <2>1, <3>1, <3>2, <3>4 DEF Finds
  <2>6. QED
    BY <1>1, <1>5, <2>1, <2>2, <2>3, <2>5, ObjectKeeps
<1>6. QED
  BY <1>2, <1>3, <1>4, <1>5 DEF Clean

LEMMA CrashKeeps ==
  ASSUME IInv, NEW p \in Proc, Crash(p), orderly' = orderly
  PROVE  IInv'
BY ReturnKeeps DEF Crash, Results

LEMMA StepInv == IInv /\ [Next]_vars => IInv'
<1> SUFFICES ASSUME IInv, [Next]_vars
             PROVE  IInv'
  OBVIOUS
<1>1. CASE UNCHANGED vars
  BY <1>1, ZenonT(40) DEF vars, IInv, TypeOK, Turns, Files, Finds, Whole, CacheWhole,
              NamesMatch, NoInterference, Running, Lib, Obj
<1>2. ASSUME orderly' = orderly, NEW p \in Proc,
             \/ \E r \in Request : Start(p, r)
             \/ CacheHit(p) \/ CacheMiss(p) \/ Analyse(p)
             \/ \E k \in 1 .. Len(Objects) : OpenObject(p, k) \/ CloseObject(p, k)
             \/ TasksDone(p) \/ ReadObjects(p) \/ WriteLibrary(p) \/ LinkFails(p)
             \/ RemoveImportLib(p) \/ Clean(p) \/ Crash(p)
      PROVE  IInv'
  BY <1>2, StartKeeps, CacheHitKeeps, CacheMissKeeps, AnalyseKeeps, OpenObjectKeeps,
     CloseObjectKeeps, TasksDoneKeeps, ReadObjectsKeeps, WriteLibraryKeeps, LinkFailsKeeps,
     RemoveImportLibKeeps, CleanKeeps, CrashKeeps DEF Task
<1>3. QED
  BY <1>1, <1>2 DEF Next

-----------------------------------------------------------------------------
\* compile keeps the invariant, for any processes, requests and object files.
THEOREM BatchInvariant == Spec => []IInv
<1>1. Init => IInv
  BY InitInv
<1>2. IInv /\ [Next]_vars => IInv'
  BY StepInv
<1>3. QED
  BY <1>1, <1>2, PTL DEF Spec

\* In an orderly directory the linker finds the objects of its process, and so
\* does their removal (linker/src/lib.rs, openvaf/src/lib.rs).
THEOREM NobodyInterferes == Spec => []NoInterference
<1>1. IInv => NoInterference
  BY DEF IInv
<1>2. QED
  BY <1>1, BatchInvariant, PTL

\* In any directory, whole libraries of the cache belong to their names, whoever
\* writes to one at once or is killed (openvaf/src/cache.rs).
THEOREM CacheMatchesKeys == Spec => []CachedLibraryMatchesKey
<1>1. IInv => CachedLibraryMatchesKey
  BY CachedPath DEF IInv, NamesMatch, CachedLibraryMatchesKey
<1>2. QED
  BY <1>1, BatchInvariant, PTL

\* Whoever ends a run with success has hit the cache, or analysed and asked for no
\* more, or removed the last object file; no file changes then.
LEMMA Successes ==
  ASSUME IInv, [Next]_vars, NEW p \in Proc, Succeeds(p)
  PROVE  /\ fs' = fs /\ st[p].req \in Request
         /\ \/ st[p].pc = "lookup" /\ CacheHit(p)
            \/ st[p].pc = "clean" /\ Clean(p) /\ st[p].removed >= Len(Objects)
<1>1. st[p].pc # "ended" /\ st'[p].pc = "ended" /\ st'[p].result = "compiled"
      /\ ~st[p].req.dry /\ st[p].req \in Request /\ st[p] \in State /\ st \in [Proc -> State]
  BY DEF Succeeds, Running, IInv, TypeOK
<1>2. st' # st
  BY <1>1
<1>3. PICK q \in Proc :
        \/ \E r \in Request : Start(q, r)
        \/ CacheHit(q) \/ CacheMiss(q) \/ Analyse(q)
        \/ \E k \in 1 .. Len(Objects) : OpenObject(q, k) \/ CloseObject(q, k)
        \/ TasksDone(q) \/ ReadObjects(q) \/ WriteLibrary(q) \/ LinkFails(q)
        \/ RemoveImportLib(q) \/ Clean(q) \/ Crash(q)
  BY <1>2 DEF Next, vars
<1>4. \A r : st' = [st EXCEPT ![q] = r] => q = p /\ r = st'[p]
  BY <1>1
<1>5. \A res : Return(q, res) => q = p /\ res = "compiled"
  BY <1>1 DEF Return, Fresh
<1>6. \A l : Goto(q, l) => l = "ended"
  BY <1>1 DEF Goto, State
<1>7. ~\E r \in Request : Start(q, r)
  BY <1>1, <1>4 DEF Start, Fresh
<1>8. ~CacheMiss(q) /\ ~Analyse(q) /\ ~TasksDone(q) /\ ~WriteLibrary(q) /\ ~LinkFails(q)
      /\ ~RemoveImportLib(q) /\ ~Crash(q)
  BY <1>1, <1>5, <1>6 DEF CacheMiss, Analyse, TasksDone, WriteLibrary, LinkFails,
                          RemoveImportLib, Crash
<1>9. ~ReadObjects(q) /\ \A k \in 1 .. Len(Objects) : ~OpenObject(q, k) /\ ~CloseObject(q, k)
  BY <1>1 DEF ReadObjects, OpenObject, CloseObject, State
<1>10. CASE CacheHit(q)
  BY <1>1, <1>5, <1>10 DEF CacheHit
<1>11. CASE Clean(q)
  <2>1. ~(st' = [st EXCEPT ![q].removed = st[q].removed + 1])
    BY <1>1 DEF State
  <2>2. q = p /\ fs' = fs /\ st[q].removed + 1 > Len(Objects)
    BY <1>5, <1>11, <2>1 DEF Clean
  <2>3. st[p].removed \in Nat /\ Len(Objects) \in Nat
    BY <1>1, BatchCompileAssumption DEF State
  <2>4. QED
    BY <1>1, <1>11, <2>2, <2>3 DEF Clean
<1>12. QED
  BY <1>3, <1>7, <1>8, <1>9, <1>10, <1>11

\* In an orderly directory the library of a successful run exists, is whole, and
\* holds the code of the source that was compiled (compile's return value).
THEOREM ReportsAreUsable == Spec => ReportedLibraryUsable
<1>1. ASSUME IInv, [Next]_vars, NEW p \in Proc, orderly, Succeeds(p)
      PROVE  fs'[Lib(p)].kind = "library" /\ \A c \in fs'[Lib(p)].of : c[1] = st[p].req.source
  <2>1. fs' = fs /\ st[p].req \in Request
    BY <1>1, Successes
  <2>2. CASE st[p].pc = "lookup" /\ CacheHit(p)
    <3>1. Lib(p) = <<st[p].req.source, "osdi">> /\ st[p].req.source \in Source
          /\ fs[Lib(p)] # Absent
      BY <2>1, <2>2, Paths DEF CacheHit, Lib, Request
    <3>2. ASSUME NEW q \in Proc, st[q].pc = "write", Lib(q) = Lib(p)
          PROVE  FALSE
      <4>1. q # p /\ Running(q) /\ Running(p)
        BY <2>2, <3>2 DEF Running
      <4>2. QED
        BY <1>1, <3>2, <4>1 DEF IInv, Turns
    <3>3. fs[Lib(p)].kind = "library"
      BY <1>1, <3>1, <3>2 DEF IInv, CacheWhole
    <3>4. QED
      BY <1>1, <2>1, <3>1, <3>3, CachedPath DEF IInv, NamesMatch
  <2>3. CASE st[p].pc = "clean"
    BY <1>1, <2>1, <2>3 DEF IInv, Files, Finds, Code
  <2>4. QED
    BY <1>1, <2>2, <2>3, Successes
<1>2. IInv /\ [Next]_vars =>
        [\A p \in Proc : (orderly /\ Succeeds(p)) =>
           LET lib == fs'[Lib(p)]
           IN  lib.kind = "library" /\ \A c \in lib.of : c[1] = st[p].req.source]_vars
  BY <1>1
<1>3. QED
  BY <1>2, BatchInvariant, PTL DEF Spec, ReportedLibraryUsable

\* In an orderly directory a run that links leaves no object file (compile's last
\* loop).
THEOREM NoObjectsLeft == Spec => NoObjectLeft
<1>1. ASSUME IInv, [Next]_vars, NEW p \in Proc, orderly, Succeeds(p), st[p].pc = "clean",
             NEW k \in 1 .. Len(Objects)
      PROVE  fs'[Obj(p, k)] = Absent
  <2>1. fs' = fs /\ st[p].removed >= Len(Objects)
    BY <1>1, Successes
  <2>2. k <= st[p].removed
    BY <1>1, <2>1, BatchCompileAssumption DEF IInv, TypeOK, State
  <2>3. QED
    BY <1>1, <2>1, <2>2 DEF IInv, Files, Finds, Task
<1>2. IInv /\ [Next]_vars =>
        [\A p \in Proc : (orderly /\ Succeeds(p) /\ st[p].pc = "clean") =>
           \A k \in 1 .. Len(Objects) : fs'[Obj(p, k)] = Absent]_vars
  BY <1>1
<1>3. QED
  BY <1>2, BatchInvariant, PTL DEF Spec, NoObjectLeft

\* In an orderly directory nothing touches a library of the cache (the look up at
\* the start of compile).
THEOREM CacheIsStable == Spec => CachedLibraryStable
<1>1. ASSUME IInv, [Next]_vars, NEW s \in Source, orderly, fs[<<s, "osdi">>].kind = "library"
      PROVE  fs'[<<s, "osdi">>] = fs[<<s, "osdi">>]
  <2>1. CASE fs' = fs
    BY <2>1
  <2>2. ASSUME NEW p \in Proc, st[p].pc \in {"link", "write"}, NEW c,
               fs' = [fs EXCEPT ![Lib(p)] = c]
        PROVE  fs'[<<s, "osdi">>] = fs[<<s, "osdi">>]
    <3>1. st[p].req \in Request /\ Finds(p)
      BY <1>1, <2>2 DEF IInv, TypeOK, Running, Files
    <3>2. Lib(p) = <<s, "osdi">> => st[p].req.batch
      BY <3>1, Paths, CachedPath DEF Lib
    <3>3. Lib(p) # <<s, "osdi">>
      BY <1>1, <2>2, <3>1, <3>2 DEF Finds, Absent, Partial, File
    <3>4. QED
      BY <1>1, <2>2, <3>3, CachedPath DEF IInv, TypeOK
  <2>3. ASSUME NEW p \in Proc, Running(p), NEW k \in Task, NEW c,
               fs' = [fs EXCEPT ![Obj(p, k)] = c]
        PROVE  fs'[<<s, "osdi">>] = fs[<<s, "osdi">>]
    <3>1. st[p].req \in Request
      BY <1>1, <2>3 DEF IInv, TypeOK
    <3>2. Obj(p, k) # <<s, "osdi">>
      BY <3>1, Paths DEF Obj
    <3>3. QED
      BY <1>1, <2>3, <3>2, CachedPath DEF IInv, TypeOK
  <2>4. ASSUME NEW p \in Proc, fs' # fs,
               \/ \E r \in Request : Start(p, r)
               \/ CacheHit(p) \/ CacheMiss(p) \/ Analyse(p)
               \/ \E k \in 1 .. Len(Objects) : OpenObject(p, k) \/ CloseObject(p, k)
               \/ TasksDone(p) \/ ReadObjects(p) \/ WriteLibrary(p) \/ LinkFails(p)
               \/ RemoveImportLib(p) \/ Clean(p) \/ Crash(p)
        PROVE  \/ st[p].pc \in {"link", "write"} /\ \E c : fs' = [fs EXCEPT ![Lib(p)] = c]
               \/ Running(p) /\ \E k \in Task : \E c : fs' = [fs EXCEPT ![Obj(p, k)] = c]
    <3>1. \/ \E k \in 1 .. Len(Objects) : OpenObject(p, k) \/ CloseObject(p, k)
          \/ ReadObjects(p) \/ WriteLibrary(p) \/ Clean(p)
      BY <2>4 DEF Start, CacheHit, CacheMiss, Analyse, TasksDone, LinkFails, RemoveImportLib,
                  Crash
    <3>2. CASE ReadObjects(p)
      BY <3>2 DEF ReadObjects
    <3>3. CASE WriteLibrary(p)
      BY <3>3 DEF WriteLibrary
    <3>4. CASE Clean(p)
      <4>1. st[p].removed + 1 \in Task
        BY <1>1, <2>4, <3>4, BatchCompileAssumption DEF Clean, Task, IInv, TypeOK, State
      <4>2. QED
        BY <2>4, <3>4, <4>1 DEF Clean, Running
    <3>5. ASSUME NEW k \in Task, OpenObject(p, k) \/ CloseObject(p, k)
          PROVE  Running(p) /\ \E c : fs' = [fs EXCEPT ![Obj(p, k)] = c]
      BY <3>5 DEF OpenObject, CloseObject, Running
    <3>6. QED
      BY <3>1, <3>2, <3>3, <3>4, <3>5 DEF Task
  <2>5. QED
    BY <1>1, <2>1, <2>2, <2>3, <2>4 DEF Next, vars
<1>2. IInv /\ [Next]_vars =>
        [\A s \in Source : (orderly /\ fs[<<s, "osdi">>].kind = "library") =>
           fs'[<<s, "osdi">>] = fs[<<s, "osdi">>]]_vars
  BY <1>1
<1>3. QED
  BY <1>2, BatchInvariant, PTL DEF Spec, CachedLibraryStable

-----------------------------------------------------------------------------
(* Bitfields.                                                              *)

\* A position is its word and its bit (bitfield.rs, word_index_and_mask).
LEMMA WordAndBit ==
  ASSUME NEW W \in Nat \ {0}, NEW p \in Nat, NEW q \in Nat,
         p \div W = q \div W, p % W = q % W
  PROVE  p = q
BY Z3

\* The words of an array of len bits have room for every position below len.
LEMMA RoomForBits ==
  ASSUME NEW len \in Nat, NEW p \in 0 .. len - 1
  PROVE  /\ p \div WordBits \in 0 .. word_cnt(len) - 1
         /\ p % WordBits \in 0 .. WordBits - 1
BY OsdiDataAssumption, Z3 DEF word_cnt

\* set_bit keeps an array of words one, and afterwards is_set says of every
\* position what it said before, except of the one that was set.
THEOREM SetBitExact ==
  ASSUME NEW len \in Nat, NEW words \in arr_ty(len), NEW p \in 0 .. len - 1
  PROVE  /\ set_bit(words, p) \in arr_ty(len)
         /\ \A q \in 0 .. len - 1 : is_set(set_bit(words, p), q) <=> q = p \/ is_set(words, q)
<1>1. /\ p \div WordBits \in 0 .. word_cnt(len) - 1
      /\ p % WordBits \in 0 .. WordBits - 1
  BY RoomForBits
<1>2. set_bit(words, p) \in arr_ty(len)
  BY <1>1 DEF set_bit, arr_ty
<1>3. ASSUME NEW q \in 0 .. len - 1
      PROVE  is_set(set_bit(words, p), q) <=> q = p \/ is_set(words, q)
  <2>1. q \div WordBits \in 0 .. word_cnt(len) - 1
    BY RoomForBits
  <2>2. ASSUME p \div WordBits = q \div WordBits, p % WordBits = q % WordBits
        PROVE  p = q
    <3>1. p \in Nat /\ q \in Nat /\ WordBits \in Nat \ {0}
      BY OsdiDataAssumption
    <3> QED BY <2>2, <3>1, WordAndBit
  <2> QED BY <1>1, <2>1, <2>2 DEF set_bit, is_set, arr_ty
<1> QED BY <1>2, <1>3

-----------------------------------------------------------------------------
(* Slots: every value that is stored has one.                              *)

Seqs == {"inst", "model", "opvars", "residual", "jacobian", "noise", "cached"}

\* Records of two fields of finite sets are finitely many.
LEMMA FinitelyManyOutputs ==
  ASSUME NEW K, IsFiniteSet(K), NEW A, IsFiniteSet(A)
  PROVE  IsFiniteSet([kind : K, at : A])
<1> DEFINE R == [kind : K, at : A]
           f == [x \in K \X A |-> [kind |-> x[1], at |-> x[2]]]
<1>1. IsFiniteSet(K \X A)
  BY FS_Product
<1>2. f \in Surjection(K \X A, R)
  <2>1. f \in [K \X A -> R]
    OBVIOUS
  <2>2. ASSUME NEW r \in R PROVE \E x \in K \X A : f[x] = r
    <3>1. <<r.kind, r.at>> \in K \X A /\ r = [kind |-> r.kind, at |-> r.at]
      OBVIOUS
    <3> QED BY <3>1
  <2> QED BY <2>1, <2>2 DEF Surjection
<1> QED BY <1>1, <1>2, FS_Surjection

\* Four elements are finitely many.
LEMMA FourAreFinite ==
  ASSUME NEW a, NEW b, NEW c, NEW d
  PROVE  IsFiniteSet({a, b, c, d})
<1>1. IsFiniteSet({a} \cup {b})
  BY FS_Singleton, FS_Union
<1>2. IsFiniteSet({c} \cup {d})
  BY FS_Singleton, FS_Union
<1>3. IsFiniteSet(({a} \cup {b}) \cup ({c} \cup {d}))
  BY <1>1, <1>2, FS_Union
<1>4. ({a} \cup {b}) \cup ({c} \cup {d}) = {a, b, c, d}
  OBVIOUS
<1> QED BY <1>3, <1>4

\* A module has finitely many outputs.
LEMMA FiniteOutputs ==
  ASSUME module \in Modules
  PROVE  IsFiniteSet(Outputs)
<1> DEFINE K == {"resist", "react", "limResist", "limReact", "jacResist", "jacReact",
                 "factor", "power", "exp", "opvar", "bound"}
           A == DOMAIN module.residual \cup DOMAIN module.jacobian \cup DOMAIN module.noise
                  \cup DOMAIN module.opvars \cup {0}
<1>1. IsFiniteSet(K)
  <2>1. /\ IsFiniteSet({"resist", "react", "limResist", "limReact"})
        /\ IsFiniteSet({"jacResist", "jacReact", "factor", "power"})
        /\ IsFiniteSet({"exp", "opvar", "bound", "bound"})
    BY FourAreFinite
  <2>2. IsFiniteSet(({"resist", "react", "limResist", "limReact"}
                       \cup {"jacResist", "jacReact", "factor", "power"})
                      \cup {"exp", "opvar", "bound", "bound"})
    BY <2>1, FS_Union
  <2>3. K = ({"resist", "react", "limResist", "limReact"}
               \cup {"jacResist", "jacReact", "factor", "power"})
              \cup {"exp", "opvar", "bound", "bound"}
    OBVIOUS
  <2> QED BY <2>2, <2>3
<1>2. ASSUME NEW f \in Seqs PROVE IsFiniteSet(DOMAIN module[f])
  <2>1. module[f] \in Seq(ToSet(module[f]))
    BY ModulesAssumption DEF Seqs
  <2>2. Len(module[f]) \in Nat /\ DOMAIN module[f] = 1 .. Len(module[f])
    BY <2>1
  <2> QED BY <2>2, FS_Interval
<1>3. IsFiniteSet(A)
  <2>1. /\ IsFiniteSet(DOMAIN module.residual) /\ IsFiniteSet(DOMAIN module.jacobian)
        /\ IsFiniteSet(DOMAIN module.noise) /\ IsFiniteSet(DOMAIN module.opvars)
    BY <1>2 DEF Seqs
  <2> QED BY <2>1, FS_Union, FS_Singleton
<1>4. IsFiniteSet([kind : K, at : A])
  <2> HIDE DEF K, A
  <2> QED BY <1>1, <1>3, FinitelyManyOutputs
<1>5. Outputs \subseteq [kind : K, at : A]
  BY DEF Outputs, Unknowns
<1> QED BY <1>4, <1>5, FS_Subset

\* A numbering of a finite set meets every element once.
LEMMA NumberingIsComplete ==
  ASSUME NEW S, IsFiniteSet(S)
  PROVE  SetToSeq(S) \in Seq(S) /\ ToSet(SetToSeq(S)) = S /\ IsInjective(SetToSeq(S))
<1> DEFINE n == Cardinality(S)
           s == SetToSeq(S)
<1>1. n \in Nat /\ ExistsBijection(1 .. n, S)
  BY FS_CardinalityType
<1>2. \E f \in [1 .. n -> S] : IsInjective(f)
  BY <1>1 DEF ExistsBijection, Bijection, Injection, IsInjective
<1>3. s \in [1 .. n -> S] /\ IsInjective(s)
  BY <1>2 DEF SetToSeq
<1>4. s \in Injection(1 .. n, S)
  BY <1>3 DEF Injection, IsInjective
<1>5. Cardinality(1 .. n) = n
  BY <1>1, FS_Interval
<1>6. s \in Surjection(1 .. n, S)
  BY <1>4, <1>5, FS_Injection
<1> HIDE DEF s
<1>7. s \in Seq(S)
  BY <1>1, <1>3
<1>8. ToSet(s) = S
  BY <1>3, <1>6 DEF ToSet, Surjection
<1> QED BY <1>3, <1>7, <1>8 DEF s

-----------------------------------------------------------------------------
(* The given flags under every call.                                       *)

Sizes == NumInst \in Nat /\ NumModel \in Nat /\ Len(module.cached) \in Nat

\* Model and instance are structs, and their first field is an array of bits.
Memory ==
  /\ inst = [e \in DOMAIN inst |-> inst[e]] /\ PARAM_GIVEN \in DOMAIN inst
  /\ inst[PARAM_GIVEN] \in arr_ty(NumInst)
  /\ mod = [e \in DOMAIN mod |-> mod[e]] /\ PARAM_GIVEN \in DOMAIN mod
  /\ mod[PARAM_GIVEN] \in arr_ty(NumInst + NumModel)

Slots == eval_outputs \in Seq(SlotValues) /\ ToSet(eval_outputs) = SlotValues

LayoutInv == module \in Modules /\ Slots /\ Memory

InstGiven  == {p \in 0 .. NumInst - 1 : is_set(inst[PARAM_GIVEN], p)}
ModelGiven == {p \in 0 .. NumInst + NumModel - 1 : is_set(mod[PARAM_GIVEN], p)}

\* The bit that marks a parameter of the model.
ModelBit(id) == IF id < NumInst THEN model_inst_bit(id) ELSE id - NumInst

\* Flags change in one call of access only: it marks the parameter it was
\* called with, and no other flag of model or instance is set or lost.
GivenByAccess ==
  /\ \/ InstGiven' = InstGiven
     \/ \E id \in 0 .. NumInst - 1, n \in Numbers :
          AccessSet(id, TRUE, n) /\ InstGiven' = InstGiven \cup {id}
  /\ \/ ModelGiven' = ModelGiven
     \/ \E id \in 0 .. NumInst + NumModel - 1, n \in Numbers :
          AccessSet(id, FALSE, n) /\ ModelGiven' = ModelGiven \cup {ModelBit(id)}

\* Positions count from 0.
LEMMA PosInSeq ==
  ASSUME NEW S, NEW s \in Seq(S), NEW x \in ToSet(s)
  PROVE  Pos(s, x) \in 0 .. Len(s) - 1
<1>1. \E i \in DOMAIN s : s[i] = x
  BY DEF ToSet
<1>2. (CHOOSE i \in DOMAIN s : s[i] = x) \in 1 .. Len(s)
  BY <1>1
<1> QED BY <1>2 DEF Pos

\* Parameters have positions in the module's parameter lists.
LEMMA ModuleSizes ==
  ASSUME module \in Modules
  PROVE  /\ Sizes
         /\ \A p \in InstParams : Pos(module.inst, p) \in 0 .. NumInst - 1
         /\ \A p \in ModelParams : Pos(module.model, p) \in 0 .. NumModel - 1
<1>1. /\ module.inst \in Seq(ToSet(module.inst)) /\ module.model \in Seq(ToSet(module.model))
      /\ module.cached \in Seq(ToSet(module.cached))
  BY ModulesAssumption
<1>2. Sizes
  BY <1>1 DEF Sizes, NumInst, NumModel
<1> QED BY <1>1, <1>2, PosInSeq DEF InstParams, ModelParams, NumInst, NumModel

\* A slot is behind the constant fields.
LEMMA SlotElem ==
  ASSUME module \in Modules, Slots, NEW v \in SlotValues
  PROVE  slot_elem(v) \in Nat /\ slot_elem(v) >= NUM_CONST_FIELDS
<1>1. Pos(eval_outputs, v) \in Nat
  BY PosInSeq DEF Slots
<1>2. Sizes
  BY ModuleSizes
<1> DEFINE c == Len(module.cached)
           p == Pos(eval_outputs, v)
<1>3. slot_elem(v) = NUM_CONST_FIELDS + NumInst + c + p
  BY DEF slot_elem, eval_output_slot_elem
<1>4. c \in Nat /\ NumInst \in Nat /\ p \in Nat /\ NUM_CONST_FIELDS \in Nat
  BY <1>1, <1>2 DEF Sizes, NUM_CONST_FIELDS
<1> HIDE DEF c, p
<1> QED BY <1>3, <1>4

\* NewInstance and NewModel are such structs.
LEMMA InitLayout == LibraryInit => LayoutInv /\ IsInjective(eval_outputs)
<1> SUFFICES ASSUME LibraryInit PROVE LayoutInv /\ IsInjective(eval_outputs)
  OBVIOUS
<1>1. module \in Modules /\ Sizes
  BY ModuleSizes DEF LibraryInit
<1>2. Slots /\ IsInjective(eval_outputs)
  <2>1. IsFiniteSet(SlotValues)
    <3> DEFINE O == {o \in Outputs : HasSlot(o)}
               f == [o \in O |-> OutputValue(o)]
    <3>1. IsFiniteSet(O)
      BY <1>1, FiniteOutputs, FS_Subset
    <3>2. f \in Surjection(O, SlotValues)
      BY DEF Surjection, SlotValues
    <3> QED BY <3>1, <3>2, FS_Surjection
  <2> QED BY <2>1, NumberingIsComplete DEF LibraryInit, NewEvalOutputs, Slots
<1>3. Memory
  <2>1. eval_outputs \in Seq(SlotValues)
    BY <1>2 DEF Slots
  <2>2. Len(eval_outputs) \in Nat
    BY <2>1
  <2>5. 0 \in 0 .. NUM_CONST_FIELDS + NumInst + Len(module.cached) + Len(eval_outputs) - 1
    <3> DEFINE c == Len(module.cached)
               n == Len(eval_outputs)
    <3>1. c \in Nat /\ n \in Nat /\ NumInst \in Nat
      BY <1>1, <2>2 DEF Sizes
    <3> HIDE DEF c, n
    <3>2. 0 \in 0 .. NUM_CONST_FIELDS + NumInst + c + n - 1
      BY <3>1 DEF NUM_CONST_FIELDS
    <3> QED BY <3>2 DEF c, n
  <2>3. /\ PARAM_GIVEN \in DOMAIN inst
        /\ inst[PARAM_GIVEN] = [w \in 0 .. word_cnt(NumInst) - 1 |-> {}]
        /\ inst = [e \in DOMAIN inst |-> inst[e]]
    <3>1. inst = NewInstance
      BY DEF LibraryInit
    <3>2. DOMAIN NewInstance
            = 0 .. NUM_CONST_FIELDS + NumInst + Len(module.cached) + Len(eval_outputs) - 1
      BY DEF NewInstance
    <3>3. NewInstance = [e \in DOMAIN NewInstance |-> NewInstance[e]]
      BY DEF NewInstance
    <3>4. NewInstance[PARAM_GIVEN] = [w \in 0 .. word_cnt(NumInst) - 1 |-> {}]
      BY <2>5 DEF NewInstance, PARAM_GIVEN, JACOBIAN_PTR_RESIST, JACOBIAN_PTR_REACT,
                  NODE_MAPPING, COLLAPSED
    <3> QED BY <2>5, <3>1, <3>2, <3>3, <3>4 DEF PARAM_GIVEN
  <2>4. /\ PARAM_GIVEN \in DOMAIN mod
        /\ mod[PARAM_GIVEN] = [w \in 0 .. word_cnt(NumInst + NumModel) - 1 |-> {}]
        /\ mod = [e \in DOMAIN mod |-> mod[e]]
    BY <1>1 DEF LibraryInit, NewModel, Sizes, PARAM_GIVEN
  <2> QED BY <2>3, <2>4 DEF Memory, arr_ty
<1> QED BY <1>1, <1>2, <1>3 DEF LayoutInv

InstKept ==
  /\ inst' = [e \in DOMAIN inst' |-> inst'[e]] /\ PARAM_GIVEN \in DOMAIN inst'
  /\ inst'[PARAM_GIVEN] = inst[PARAM_GIVEN]
ModKept ==
  /\ mod' = [e \in DOMAIN mod' |-> mod'[e]] /\ PARAM_GIVEN \in DOMAIN mod'
  /\ mod'[PARAM_GIVEN] = mod[PARAM_GIVEN]

\* access marks the parameter that it was called with.
LEMMA AccessSetMarks ==
  ASSUME LayoutInv, NEW id \in 0 .. NumInst + NumModel - 1, NEW instance \in BOOLEAN, NEW n,
         AccessSet(id, instance, n)
  PROVE  /\ UNCHANGED <<module, eval_outputs>> /\ Memory'
         /\ instance => /\ InstGiven' = InstGiven \cup {id} /\ ModelGiven' = ModelGiven
                        /\ id \in 0 .. NumInst - 1
         /\ ~instance => /\ ModelGiven' = ModelGiven \cup {ModelBit(id)}
                         /\ InstGiven' = InstGiven
<1>1. UNCHANGED <<module, eval_outputs>> /\ NumInst' = NumInst /\ NumModel' = NumModel
  BY DEF AccessSet, NumInst, NumModel
<1>2. NumInst \in Nat /\ NumModel \in Nat
  BY ModuleSizes DEF LayoutInv, Sizes
<1>3. CASE instance
  <2>1. /\ id \in 0 .. NumInst - 1 /\ UNCHANGED mod
        /\ inst' = [inst EXCEPT ![PARAM_GIVEN] = set_bit(@, id), ![nth_param_elem(id)] = n]
    BY <1>2, <1>3 DEF AccessSet
  <2>2. nth_param_elem(id) # PARAM_GIVEN
    BY <2>1, <1>2 DEF nth_param_elem, NUM_CONST_FIELDS, PARAM_GIVEN
  <2>3. /\ inst' = [e \in DOMAIN inst' |-> inst'[e]] /\ PARAM_GIVEN \in DOMAIN inst'
        /\ inst'[PARAM_GIVEN] = set_bit(inst[PARAM_GIVEN], id)
    BY <2>1, <2>2 DEF LayoutInv, Memory
  <2>4. /\ set_bit(inst[PARAM_GIVEN], id) \in arr_ty(NumInst)
        /\ \A q \in 0 .. NumInst - 1 :
             is_set(set_bit(inst[PARAM_GIVEN], id), q) <=> q = id \/ is_set(inst[PARAM_GIVEN], q)
    BY <1>2, <2>1, SetBitExact DEF LayoutInv, Memory
  <2>5. Memory'
    BY <1>1, <2>1, <2>3, <2>4 DEF LayoutInv, Memory, arr_ty, word_cnt, PARAM_GIVEN
  <2>6. InstGiven' = InstGiven \cup {id}
    BY <1>1, <2>1, <2>3, <2>4 DEF InstGiven, is_set, PARAM_GIVEN
  <2>7. ModelGiven' = ModelGiven
    BY <1>1, <2>1 DEF ModelGiven, is_set, PARAM_GIVEN
  <2> QED BY <1>1, <1>3, <2>1, <2>5, <2>6, <2>7
<1>4. CASE ~instance
  <2> DEFINE bit  == ModelBit(id)
             elem == IF id < NumInst THEN model_nth_inst_param_elem(id)
                                     ELSE model_nth_param_elem(id - NumInst)
  <2>1. /\ UNCHANGED inst
        /\ mod' = [mod EXCEPT ![PARAM_GIVEN] = set_bit(@, bit), ![elem] = n]
    BY <1>4 DEF AccessSet, ModelBit
  <2>2. elem # PARAM_GIVEN /\ bit \in 0 .. NumInst + NumModel - 1
    BY <1>2 DEF model_nth_inst_param_elem, model_nth_param_elem, PARAM_GIVEN, ModelBit,
                model_inst_bit
  <2> HIDE DEF bit, elem
  <2>3. /\ mod' = [e \in DOMAIN mod' |-> mod'[e]] /\ PARAM_GIVEN \in DOMAIN mod'
        /\ mod'[PARAM_GIVEN] = set_bit(mod[PARAM_GIVEN], bit)
    BY <2>1, <2>2 DEF LayoutInv, Memory
  <2>4. /\ set_bit(mod[PARAM_GIVEN], bit) \in arr_ty(NumInst + NumModel)
        /\ \A q \in 0 .. NumInst + NumModel - 1 :
             is_set(set_bit(mod[PARAM_GIVEN], bit), q) <=> q = bit \/ is_set(mod[PARAM_GIVEN], q)
    BY <1>2, <2>2, SetBitExact DEF LayoutInv, Memory
  <2>5. Memory'
    BY <1>1, <2>1, <2>3, <2>4 DEF LayoutInv, Memory, arr_ty, word_cnt, PARAM_GIVEN
  <2>6. ModelGiven' = ModelGiven \cup {bit}
    BY <1>1, <2>2, <2>3, <2>4 DEF ModelGiven, is_set, PARAM_GIVEN
  <2>7. InstGiven' = InstGiven
    BY <1>1, <2>1 DEF InstGiven, is_set, PARAM_GIVEN
  <2> QED BY <1>1, <1>4, <2>5, <2>6, <2>7 DEF bit
<1> QED BY <1>3, <1>4

\* Every other call leaves the flags alone.
Kept == UNCHANGED <<module, eval_outputs>> /\ InstKept /\ ModKept

\* nth_opvar_ptr stores a constant in its slot.
LEMMA AccessOpvarKeeps ==
  ASSUME LayoutInv, NEW i \in DOMAIN module.opvars, AccessOpvar(i)
  PROVE  Kept
<1> DEFINE v == module.opvars[i]
           o == [kind |-> "opvar", at |-> i]
<1>1. v \in SlotValues
  <2>1. o \in Outputs
    BY DEF Outputs
  <2>2. OutputValue(o) = v
    BY DEF OutputValue
  <2>3. HasSlot(o)
    BY <2>2 DEF HasSlot, AccessOpvar
  <2> QED BY <2>1, <2>2, <2>3 DEF SlotValues
<1>2. slot_elem(v) # PARAM_GIVEN
  BY <1>1, SlotElem DEF LayoutInv, NUM_CONST_FIELDS, PARAM_GIVEN
<1>3. /\ inst' = [inst EXCEPT ![slot_elem(v)] = v.of]
      /\ UNCHANGED <<module, eval_outputs, mod>>
  BY DEF AccessOpvar
<1> HIDE DEF v
<1>4. InstKept
  BY <1>2, <1>3 DEF LayoutInv, Memory, InstKept
<1>5. ModKept
  BY <1>3 DEF LayoutInv, Memory, ModKept
<1> QED BY <1>3, <1>4, <1>5 DEF Kept

\* setup_model stores parameters only.
LEMMA SetupModelKeeps ==
  ASSUME LayoutInv, SetupModel
  PROVE  Kept
<1>1. \A p \in InstParams \cup ModelParams : model_any_elem(p) # PARAM_GIVEN
  BY ModuleSizes DEF LayoutInv, Sizes, model_any_elem, model_copy, model_elem, PARAM_GIVEN,
                     model_nth_inst_param_elem, model_nth_param_elem
<1>2. UNCHANGED <<module, eval_outputs, inst>>
  BY DEF SetupModel
<1>3. PICK val : mod' = Update(mod, InstParams \cup ModelParams, model_any_elem, val)
  BY DEF SetupModel
<1>4. ModKept
  BY <1>1, <1>3 DEF LayoutInv, Memory, ModKept, Update
<1>5. InstKept
  BY <1>2 DEF LayoutInv, Memory, InstKept
<1> QED BY <1>2, <1>4, <1>5 DEF Kept

\* setup_instance stores parameters, cache slots, temperature and collapsed pairs.
LEMMA SetupInstanceKeeps ==
  ASSUME LayoutInv, NEW t, NEW k, NEW reached \in SUBSET DOMAIN module.cached,
         SetupInstance(t, k, reached)
  PROVE  Kept
<1>1. \A p \in InstParams : inst_elem(p) # PARAM_GIVEN
  BY ModuleSizes DEF LayoutInv, Sizes, inst_elem, nth_param_elem, NUM_CONST_FIELDS, PARAM_GIVEN
<1>2. \A c \in DOMAIN module.cached : cache_slot_elem(c - 1) # PARAM_GIVEN
  <2>1. module.cached \in Seq(ToSet(module.cached))
    BY ModulesAssumption DEF LayoutInv
  <2>2. DOMAIN module.cached \subseteq Nat \ {0}
    BY <2>1
  <2> QED BY <2>2, ModuleSizes DEF LayoutInv, Sizes, cache_slot_elem, NUM_CONST_FIELDS, PARAM_GIVEN
<1>3. UNCHANGED <<module, eval_outputs, mod>>
  BY DEF SetupInstance
<1> DEFINE given == {p \in InstParams : inst_given(p) \/ model_given(p)}
           val   == [p \in InstParams \cup ModelParams |->
                       IF p \in ModelParams THEN mod[model_elem(p)]
                       ELSE IF inst_given(p) THEN inst[inst_elem(p)] ELSE mod[model_copy(p)]]
           init  == Init_(InstParams, given, val)
           abort == module.fatal # None /\ init[module.fatal] = 2
           C     == IF abort THEN reached ELSE DOMAIN module.cached
           hints == {h \in Hinted(init) : abort => h <= k}
           m1    == Update(inst, InstParams, inst_elem, init)
           m2    == Update(m1, C, LAMBDA s : cache_slot_elem(s - 1), Cached(init))
<1>4. inst' = [m2 EXCEPT ![TEMPERATURE] = t,
                         ![COLLAPSED] = @ \cup UNION {hint(h) : h \in hints}]
  BY DEF SetupInstance
<1>5. /\ m1 = [e \in DOMAIN m1 |-> m1[e]] /\ PARAM_GIVEN \in DOMAIN m1
      /\ m1[PARAM_GIVEN] = inst[PARAM_GIVEN]
  BY <1>1 DEF LayoutInv, Memory, Update
<1> HIDE DEF m1, init
<1>6. /\ m2 = [e \in DOMAIN m2 |-> m2[e]] /\ PARAM_GIVEN \in DOMAIN m2
      /\ m2[PARAM_GIVEN] = m1[PARAM_GIVEN]
  BY <1>2, <1>5 DEF Update
<1> HIDE DEF m2, hints
<1>8. InstKept
  <2>1. DOMAIN inst' = DOMAIN m2 /\ inst' = [e \in DOMAIN m2 |-> inst'[e]]
    BY <1>4, <1>6
  <2>2. inst'[PARAM_GIVEN] = inst[PARAM_GIVEN]
    BY <1>4, <1>5, <1>6 DEF TEMPERATURE, COLLAPSED, PARAM_GIVEN
  <2> QED BY <1>6, <2>1, <2>2 DEF InstKept
<1>9. ModKept
  BY <1>3 DEF LayoutInv, Memory, ModKept
<1> QED BY <1>3, <1>8, <1>9 DEF Kept

\* A simulator binds nodes and matrix pointers.
LEMMA BindKeeps ==
  ASSUME LayoutInv, Bind
  PROVE  Kept
<1>1. UNCHANGED <<module, eval_outputs, mod>>
  BY DEF Bind
<1>2. PICK a, b, c : inst' = [inst EXCEPT ![NODE_MAPPING] = a, ![JACOBIAN_PTR_RESIST] = b,
                                          ![JACOBIAN_PTR_REACT] = c]
  BY DEF Bind
<1>3. InstKept
  <2>1. DOMAIN inst' = DOMAIN inst /\ inst' = [e \in DOMAIN inst |-> inst'[e]]
    BY <1>2 DEF LayoutInv, Memory
  <2>2. inst'[PARAM_GIVEN] = inst[PARAM_GIVEN]
    BY <1>2 DEF LayoutInv, Memory, PARAM_GIVEN, NODE_MAPPING, JACOBIAN_PTR_RESIST, JACOBIAN_PTR_REACT
  <2> QED BY <2>1, <2>2 DEF LayoutInv, Memory, InstKept
<1>4. ModKept
  BY <1>1 DEF LayoutInv, Memory, ModKept
<1> QED BY <1>1, <1>3, <1>4 DEF Kept

\* eval stores results in their slots.
LEMMA EvalKeeps ==
  ASSUME LayoutInv, NEW F, NEW solution, Eval(F, solution)
  PROVE  Kept
<1> DEFINE V == {OutputValue(o) : o \in stored_outputs(F)}
<1>1. V \subseteq SlotValues
  <2>1. ASSUME NEW o \in stored_outputs(F) PROVE o \in Outputs /\ HasSlot(o)
    BY DEF stored_outputs, HasSlot
  <2> QED BY <2>1 DEF SlotValues
<1>2. \A v \in V : slot_elem(v) # PARAM_GIVEN
  BY <1>1, SlotElem DEF LayoutInv, NUM_CONST_FIELDS, PARAM_GIVEN
<1>3. UNCHANGED <<module, eval_outputs, mod>>
  BY DEF Eval
<1>4. PICK val : inst' = Update(inst, V, slot_elem, val)
  BY DEF Eval
<1> HIDE DEF V
<1>5. InstKept
  BY <1>2, <1>4 DEF LayoutInv, Memory, InstKept, Update
<1>6. ModKept
  BY <1>3 DEF LayoutInv, Memory, ModKept
<1> QED BY <1>3, <1>5, <1>6 DEF Kept

\* The invariant speaks only of what such calls leave alone.
LEMMA KeptIsEnough ==
  ASSUME LayoutInv, Kept
  PROVE  LayoutInv' /\ InstGiven' = InstGiven /\ ModelGiven' = ModelGiven
<1>1. UNCHANGED <<module, eval_outputs>> /\ NumInst' = NumInst /\ NumModel' = NumModel
  BY DEF Kept, NumInst, NumModel
<1>2. Slots' /\ module' \in Modules
  <2>1. SlotValues' = SlotValues
    BY <1>1 DEF SlotValues, Outputs, OutputValue, HasSlot, Unknowns
  <2> QED BY <1>1, <2>1 DEF LayoutInv, Slots, ToSet
<1>3. Memory'
  BY <1>1 DEF Kept, InstKept, ModKept, LayoutInv, Memory, arr_ty, word_cnt, PARAM_GIVEN
<1>4. InstGiven' = InstGiven /\ ModelGiven' = ModelGiven
  BY <1>1 DEF Kept, InstKept, ModKept, InstGiven, ModelGiven, is_set, PARAM_GIVEN
<1> QED BY <1>2, <1>3, <1>4 DEF LayoutInv

\* The inductive step, one case for each call of the library.
LEMMA StepLayout == LayoutInv /\ [LibraryNext]_libraryVars => LayoutInv' /\ GivenByAccess
<1> SUFFICES ASSUME LayoutInv, [LibraryNext]_libraryVars PROVE LayoutInv' /\ GivenByAccess
  OBVIOUS
<1>1. ASSUME Kept PROVE LayoutInv' /\ GivenByAccess
  BY <1>1, KeptIsEnough DEF GivenByAccess
<1>2. ASSUME NEW id \in 0 .. NumInst + NumModel - 1, NEW instance \in BOOLEAN,
             NEW n \in Numbers, AccessSet(id, instance, n)
      PROVE  LayoutInv' /\ GivenByAccess
  <2>1. /\ UNCHANGED <<module, eval_outputs>> /\ Memory'
        /\ instance => /\ InstGiven' = InstGiven \cup {id} /\ ModelGiven' = ModelGiven
                       /\ id \in 0 .. NumInst - 1
        /\ ~instance => /\ ModelGiven' = ModelGiven \cup {ModelBit(id)}
                        /\ InstGiven' = InstGiven
    BY <1>2, AccessSetMarks
  <2>2. LayoutInv'
    <3>1. SlotValues' = SlotValues
      BY <2>1 DEF SlotValues, Outputs, OutputValue, HasSlot, Unknowns
    <3> QED BY <2>1, <3>1 DEF LayoutInv, Slots, ToSet
  <2>3. GivenByAccess
    BY <1>2, <2>1 DEF GivenByAccess
  <2> QED BY <2>2, <2>3
<1>3. ASSUME NEW i \in DOMAIN module.opvars, AccessOpvar(i) PROVE LayoutInv' /\ GivenByAccess
  BY <1>1, <1>3, AccessOpvarKeeps
<1>4. CASE SetupModel
  BY <1>1, <1>4, SetupModelKeeps
<1>5. ASSUME NEW t \in Numbers, NEW k \in 0 .. Len(module.hints),
             NEW reached \in SUBSET DOMAIN module.cached, SetupInstance(t, k, reached)
      PROVE  LayoutInv' /\ GivenByAccess
  BY <1>1, <1>5, SetupInstanceKeeps
<1>6. CASE Bind
  BY <1>1, <1>6, BindKeeps
<1>7. ASSUME NEW F \in FlagSets, NEW solution \in Solutions, Eval(F, solution)
      PROVE  LayoutInv' /\ GivenByAccess
  BY <1>1, <1>7, EvalKeeps
<1>8. CASE UNCHANGED libraryVars
  <2>1. Kept
    BY <1>8 DEF libraryVars, Kept, InstKept, ModKept, LayoutInv, Memory
  <2> QED BY <1>1, <2>1
<1> QED BY <1>2, <1>3, <1>4, <1>5, <1>6, <1>7, <1>8 DEF LibraryNext

\* Type correctness: model and instance stay structs with a slot for every
\* stored value and the given flags in front.
THEOREM MemoryLayout == LibrarySpec => []LayoutInv
BY InitLayout, StepLayout, PTL DEF LibrarySpec

\* Only access marks parameters as given, one at a time: setup, binding and
\* evaluation never do, and no call unmarks one (access_function, set_bit).
THEOREM GivenFlags == LibrarySpec => [][GivenByAccess]_libraryVars
<1>1. LayoutInv /\ [LibraryNext]_libraryVars => [GivenByAccess]_libraryVars
  BY StepLayout
<1> QED BY <1>1, MemoryLayout, PTL DEF LibrarySpec

-----------------------------------------------------------------------------
(* Where things are: no two of them share a field.                         *)

AllParams == InstParams \cup ModelParams

\* The sizes of model and instance, and a slot of its own for every value.
Structs ==
  /\ DOMAIN inst = 0 .. NUM_CONST_FIELDS + NumInst + Len(module.cached) + Len(eval_outputs) - 1
  /\ DOMAIN mod = 0 .. NumModel + NumInst
  /\ IsInjective(eval_outputs)

DeviceInv == LayoutInv /\ Structs

cache_elem(s) == cache_slot_elem(s - 1)

\* The fields of a model and of an instance, for parameters, cache slots and values.
FieldsApart ==
  /\ \A p \in InstParams : inst_elem(p) \in DOMAIN inst /\ inst_elem(p) \notin 0 .. 7
  /\ \A s \in DOMAIN module.cached : cache_elem(s) \in DOMAIN inst /\ cache_elem(s) \notin 0 .. 7
  /\ \A v \in SlotValues : slot_elem(v) \in DOMAIN inst /\ slot_elem(v) \notin 0 .. 7
  /\ \A p, q \in InstParams : inst_elem(p) = inst_elem(q) => p = q
  /\ \A s, u \in DOMAIN module.cached : cache_elem(s) = cache_elem(u) => s = u
  /\ \A v, w \in SlotValues : slot_elem(v) = slot_elem(w) => v = w
  /\ \A p \in InstParams : \A s \in DOMAIN module.cached : inst_elem(p) # cache_elem(s)
  /\ \A p \in InstParams : \A v \in SlotValues : inst_elem(p) # slot_elem(v)
  /\ \A s \in DOMAIN module.cached : \A v \in SlotValues : cache_elem(s) # slot_elem(v)
  /\ 0 .. 7 \subseteq DOMAIN inst
ModelFieldsApart ==
  /\ \A p \in AllParams : model_any_elem(p) \in DOMAIN mod /\ model_any_elem(p) # PARAM_GIVEN
  /\ \A p, q \in AllParams : model_any_elem(p) = model_any_elem(q) => p = q
  /\ PARAM_GIVEN \in DOMAIN mod

\* Positions in a sequence without duplicates.
LEMMA PosOf ==
  ASSUME NEW S, NEW s \in Seq(S)
  PROVE  /\ \A x \in ToSet(s) : Pos(s, x) \in 0 .. Len(s) - 1 /\ s[Pos(s, x) + 1] = x
         /\ \A x, y \in ToSet(s) : Pos(s, x) = Pos(s, y) => x = y
         /\ IsInjective(s) => \A i \in 0 .. Len(s) - 1 : Pos(s, s[i + 1]) = i
<1>1. ASSUME NEW x \in ToSet(s) PROVE Pos(s, x) \in 0 .. Len(s) - 1 /\ s[Pos(s, x) + 1] = x
  <2>1. \E i \in DOMAIN s : s[i] = x
    BY DEF ToSet
  <2>2. PICK c : c = CHOOSE i \in DOMAIN s : s[i] = x
    OBVIOUS
  <2>3. c \in 1 .. Len(s) /\ s[c] = x
    BY <2>1, <2>2
  <2>4. Pos(s, x) = c - 1
    BY <2>2 DEF Pos
  <2> QED BY <2>3, <2>4
<1>2. ASSUME NEW i \in 0 .. Len(s) - 1, IsInjective(s) PROVE Pos(s, s[i + 1]) = i
  <2>1. i + 1 \in DOMAIN s /\ s[i + 1] \in ToSet(s)
    BY DEF ToSet
  <2>2. Pos(s, s[i + 1]) \in 0 .. Len(s) - 1 /\ s[Pos(s, s[i + 1]) + 1] = s[i + 1]
    BY <1>1, <2>1
  <2>3. Pos(s, s[i + 1]) + 1 = i + 1
    BY <1>2, <2>1, <2>2 DEF IsInjective
  <2> QED BY <2>2, <2>3
<1>3. ASSUME NEW x \in ToSet(s), NEW y \in ToSet(s), Pos(s, x) = Pos(s, y) PROVE x = y
  BY <1>1, <1>3
<1> QED BY <1>1, <1>2, <1>3

\* No two parameters, cache slots or values have the same field.
LEMMA InstFields == DeviceInv => FieldsApart
<1> SUFFICES ASSUME DeviceInv PROVE FieldsApart
  OBVIOUS
<1>1. module \in Modules /\ module.inst \in Seq(ToSet(module.inst)) /\ module.cached \in Seq(ToSet(module.cached))
  BY ModulesAssumption DEF DeviceInv, LayoutInv
<1>2. PICK I, C, S : I = NumInst /\ C = Len(module.cached) /\ S = Len(eval_outputs)
  OBVIOUS
<1>3. eval_outputs \in Seq(SlotValues) /\ ToSet(eval_outputs) = SlotValues
  BY DEF DeviceInv, LayoutInv, Slots
<1>4. I \in Nat /\ C \in Nat /\ S \in Nat
  <2>1. Len(eval_outputs) \in Nat
    BY <1>3
  <2> QED BY <1>1, <1>2, <2>1, ModuleSizes DEF Sizes
<1>5. ASSUME NEW p \in InstParams PROVE inst_elem(p) \in 8 .. 7 + I
  <2>1. Pos(module.inst, p) \in 0 .. I - 1
    BY <1>1, <1>2, PosOf DEF InstParams, NumInst
  <2> QED BY <1>4, <2>1 DEF inst_elem, nth_param_elem, NUM_CONST_FIELDS
<1>6. ASSUME NEW s \in DOMAIN module.cached PROVE s \in 1 .. C /\ cache_elem(s) = 7 + I + s
  <2>1. s \in 1 .. C
    BY <1>1, <1>2
  <2> QED BY <1>2, <1>4, <2>1 DEF cache_elem, cache_slot_elem, NUM_CONST_FIELDS
<1>7. ASSUME NEW v \in SlotValues
      PROVE  Pos(eval_outputs, v) \in 0 .. S - 1 /\ slot_elem(v) = 8 + I + C + Pos(eval_outputs, v)
  <2>1. Pos(eval_outputs, v) \in 0 .. S - 1
    BY <1>2, <1>3, PosOf
  <2> QED BY <1>2, <1>4, <2>1 DEF slot_elem, eval_output_slot_elem, NUM_CONST_FIELDS
<1>8. DOMAIN inst = 0 .. 7 + I + C + S
  <2>1. DOMAIN inst = 0 .. NUM_CONST_FIELDS + I + C + S - 1
    BY <1>2 DEF DeviceInv, Structs
  <2> QED BY <1>4, <2>1 DEF NUM_CONST_FIELDS
<1>9. \A p, q \in InstParams : inst_elem(p) = inst_elem(q) => p = q
  <2> SUFFICES ASSUME NEW p \in InstParams, NEW q \in InstParams, inst_elem(p) = inst_elem(q) PROVE p = q
    OBVIOUS
  <2>1. Pos(module.inst, p) \in Nat /\ Pos(module.inst, q) \in Nat
    BY <1>1, PosOf DEF InstParams
  <2>2. Pos(module.inst, p) = Pos(module.inst, q)
    BY <2>1 DEF inst_elem, nth_param_elem, NUM_CONST_FIELDS
  <2> QED BY <1>1, <2>2, PosOf DEF InstParams
<1>10. \A v, w \in SlotValues : slot_elem(v) = slot_elem(w) => v = w
  <2> SUFFICES ASSUME NEW v \in SlotValues, NEW w \in SlotValues, slot_elem(v) = slot_elem(w) PROVE v = w
    OBVIOUS
  <2>1. Pos(eval_outputs, v) = Pos(eval_outputs, w)
    BY <1>4, <1>7
  <2> QED BY <1>3, <2>1, PosOf
<1>11. \A s, u \in DOMAIN module.cached : cache_elem(s) = cache_elem(u) => s = u
  BY <1>4, <1>6
<1>12. /\ \A p \in InstParams : inst_elem(p) \in DOMAIN inst /\ inst_elem(p) \notin 0 .. 7
       /\ 0 .. 7 \subseteq DOMAIN inst
  BY <1>4, <1>5, <1>8
<1>13. \A s \in DOMAIN module.cached : /\ cache_elem(s) \in DOMAIN inst /\ cache_elem(s) \notin 0 .. 7
                                       /\ \A p \in InstParams : inst_elem(p) # cache_elem(s)
  BY <1>4, <1>5, <1>6, <1>8
<1>14. \A v \in SlotValues : /\ slot_elem(v) \in DOMAIN inst /\ slot_elem(v) \notin 0 .. 7
                             /\ \A p \in InstParams : inst_elem(p) # slot_elem(v)
                             /\ \A s \in DOMAIN module.cached : cache_elem(s) # slot_elem(v)
  BY <1>4, <1>5, <1>6, <1>7, <1>8
<1> QED BY <1>9, <1>10, <1>11, <1>12, <1>13, <1>14 DEF FieldsApart

\* The model has a field for every parameter, of its own and of the instance.
LEMMA ModelFields == DeviceInv => ModelFieldsApart
<1> SUFFICES ASSUME DeviceInv PROVE ModelFieldsApart
  OBVIOUS
<1>1. /\ module \in Modules
      /\ module.inst \in Seq(ToSet(module.inst)) /\ module.model \in Seq(ToSet(module.model))
  BY ModulesAssumption DEF DeviceInv, LayoutInv
<1>2. NumInst \in Nat /\ NumModel \in Nat /\ DOMAIN mod = 0 .. NumModel + NumInst
  BY <1>1, ModuleSizes DEF Sizes, DeviceInv, Structs
<1>3. ASSUME NEW p \in InstParams
      PROVE  /\ Pos(module.inst, p) \in 0 .. NumInst - 1
             /\ model_any_elem(p) = 1 + NumModel + Pos(module.inst, p)
  <2>1. Pos(module.inst, p) \in 0 .. NumInst - 1
    BY <1>1, PosOf DEF InstParams, NumInst
  <2> QED BY <2>1 DEF model_any_elem, model_copy, model_nth_inst_param_elem
<1>4. ASSUME NEW p \in ModelParams, p \notin InstParams
      PROVE  Pos(module.model, p) \in 0 .. NumModel - 1 /\ model_any_elem(p) = 1 + Pos(module.model, p)
  <2>1. Pos(module.model, p) \in 0 .. NumModel - 1
    BY <1>1, PosOf DEF ModelParams, NumModel
  <2> QED BY <1>4, <2>1 DEF model_any_elem, model_elem, model_nth_param_elem
<1>5. \A p \in AllParams : model_any_elem(p) \in DOMAIN mod /\ model_any_elem(p) # PARAM_GIVEN
  BY <1>2, <1>3, <1>4 DEF AllParams, PARAM_GIVEN
<1>6. ASSUME NEW p \in AllParams, NEW q \in AllParams, model_any_elem(p) = model_any_elem(q) PROVE p = q
  <2>1. CASE p \in InstParams /\ q \in InstParams
    <3>1. Pos(module.inst, p) = Pos(module.inst, q)
      BY <1>2, <1>3, <1>6, <2>1
    <3> QED BY <1>1, <2>1, <3>1, PosOf DEF InstParams
  <2>2. CASE p \notin InstParams /\ q \notin InstParams
    <3>1. p \in ModelParams /\ q \in ModelParams
      BY <2>2 DEF AllParams
    <3>2. Pos(module.model, p) = Pos(module.model, q)
      BY <1>2, <1>4, <1>6, <2>2, <3>1
    <3> QED BY <1>1, <3>1, <3>2, PosOf DEF ModelParams
  <2>3. CASE p \in InstParams /\ q \notin InstParams
    BY <1>2, <1>3, <1>4, <1>6, <2>3 DEF AllParams
  <2>4. CASE p \notin InstParams /\ q \in InstParams
    BY <1>2, <1>3, <1>4, <1>6, <2>4 DEF AllParams
  <2> QED BY <2>1, <2>2, <2>3, <2>4
<1>7. PARAM_GIVEN \in DOMAIN mod
  BY <1>2 DEF PARAM_GIVEN
<1> QED BY <1>5, <1>6, <1>7 DEF ModelFieldsApart

\* NewInstance and NewModel have these sizes.
LEMMA InitDevice == LibraryInit => DeviceInv
<1> SUFFICES ASSUME LibraryInit PROVE DeviceInv
  OBVIOUS
<1>1. LayoutInv /\ IsInjective(eval_outputs)
  BY InitLayout
<1>2. DOMAIN inst = 0 .. NUM_CONST_FIELDS + NumInst + Len(module.cached) + Len(eval_outputs) - 1
  BY DEF LibraryInit, NewInstance
<1>3. DOMAIN mod = 0 .. NumModel + NumInst
  BY DEF LibraryInit, NewModel
<1> QED BY <1>1, <1>2, <1>3 DEF DeviceInv, Structs

\* No call changes them.
LEMMA StepSizes ==
  ASSUME [LibraryNext]_libraryVars
  PROVE  DOMAIN inst' = DOMAIN inst /\ DOMAIN mod' = DOMAIN mod /\ UNCHANGED <<module, eval_outputs>>
<1>1. ASSUME NEW id, NEW instance \in BOOLEAN, NEW n, AccessSet(id, instance, n)
      PROVE  DOMAIN inst' = DOMAIN inst /\ DOMAIN mod' = DOMAIN mod /\ UNCHANGED <<module, eval_outputs>>
  BY <1>1 DEF AccessSet
<1>2. ASSUME NEW i, AccessOpvar(i)
      PROVE  DOMAIN inst' = DOMAIN inst /\ DOMAIN mod' = DOMAIN mod /\ UNCHANGED <<module, eval_outputs>>
  BY <1>2 DEF AccessOpvar
<1>3. ASSUME SetupModel
      PROVE  DOMAIN inst' = DOMAIN inst /\ DOMAIN mod' = DOMAIN mod /\ UNCHANGED <<module, eval_outputs>>
  BY <1>3 DEF SetupModel, Update
<1>4. ASSUME NEW t, NEW k, NEW reached, SetupInstance(t, k, reached)
      PROVE  DOMAIN inst' = DOMAIN inst /\ DOMAIN mod' = DOMAIN mod /\ UNCHANGED <<module, eval_outputs>>
  BY <1>4 DEF SetupInstance, Update
<1>5. ASSUME Bind
      PROVE  DOMAIN inst' = DOMAIN inst /\ DOMAIN mod' = DOMAIN mod /\ UNCHANGED <<module, eval_outputs>>
  BY <1>5 DEF Bind
<1>6. ASSUME NEW F, NEW solution, Eval(F, solution)
      PROVE  DOMAIN inst' = DOMAIN inst /\ DOMAIN mod' = DOMAIN mod /\ UNCHANGED <<module, eval_outputs>>
  BY <1>6 DEF Eval, Update
<1>7. CASE UNCHANGED libraryVars
  BY <1>7 DEF libraryVars
<1> QED BY <1>1, <1>2, <1>3, <1>4, <1>5, <1>6, <1>7 DEF LibraryNext

\* The inductive step.
LEMMA StepDevice == DeviceInv /\ [LibraryNext]_libraryVars => DeviceInv'
<1> SUFFICES ASSUME DeviceInv, [LibraryNext]_libraryVars PROVE DeviceInv'
  OBVIOUS
<1>1. LayoutInv'
  BY StepLayout DEF DeviceInv
<1>2. Structs'
  BY StepSizes DEF DeviceInv, Structs, NumInst, NumModel, NUM_CONST_FIELDS, IsInjective
<1> QED BY <1>1, <1>2 DEF DeviceInv

\* Model and instance keep their sizes, and the fields of parameters, cache
\* slots and values stay apart (OsdiInstanceData::new, OsdiModelData::new).
THEOREM StructLayout == LibrarySpec => [](DeviceInv /\ FieldsApart /\ ModelFieldsApart)
<1>1. LibrarySpec => []DeviceInv
  BY InitDevice, StepDevice, PTL DEF LibrarySpec
<1> QED BY <1>1, InstFields, ModelFields, PTL

-----------------------------------------------------------------------------
(* Parameters by id, as a simulator knows them.                            *)

\* Ids count the instance's parameters first.
ParamsById ==
  /\ \A id \in Ids :
       /\ ParamOf(id) \in AllParams
       /\ id < NumInst => ParamOf(id) \in InstParams /\ Pos(module.inst, ParamOf(id)) = id
       /\ id >= NumInst => /\ ParamOf(id) \in ModelParams \ InstParams
                           /\ Pos(module.model, ParamOf(id)) = id - NumInst
  /\ \A p \in InstParams : Pos(module.inst, p) \in 0 .. NumInst - 1 /\ ParamOf(Pos(module.inst, p)) = p
  /\ \A p \in ModelParams : /\ Pos(module.model, p) \in 0 .. NumModel - 1
                            /\ ParamOf(NumInst + Pos(module.model, p)) = p
  /\ NumInst \in Nat /\ NumModel \in Nat
  /\ InstParams \cap ModelParams = {}

\* One sequence after the other.
LEMMA Concatenated ==
  ASSUME NEW S, NEW T, NEW s \in Seq(S), NEW t \in Seq(T)
  PROVE  /\ \A i \in 1 .. Len(s) : (s \o t)[i] = s[i]
         /\ \A i \in 1 .. Len(t) : (s \o t)[Len(s) + i] = t[i]
<1>1. s \in Seq(S \cup T) /\ t \in Seq(S \cup T)
  OBVIOUS
<1>2. PICK m, n : m = Len(s) /\ n = Len(t)
  OBVIOUS
<1>3. m \in Nat /\ n \in Nat
  BY <1>2
<1>4. ASSUME NEW i \in 1 .. m PROVE (s \o t)[i] = s[i]
  BY <1>1, <1>2, <1>3
<1>5. ASSUME NEW i \in 1 .. n PROVE (s \o t)[m + i] = t[i]
  BY <1>1, <1>2, <1>3
<1> QED BY <1>2, <1>4, <1>5

\* param_opvar lists them so.
LEMMA ParamIds == ASSUME module \in Modules PROVE ParamsById
<1>1. /\ module.inst \in Seq(ToSet(module.inst)) /\ module.model \in Seq(ToSet(module.model))
      /\ IsInjective(module.inst) /\ IsInjective(module.model)
      /\ InstParams \cap ModelParams = {}
  BY ModulesAssumption DEF InstParams, ModelParams
<1>2. NumInst \in Nat /\ NumModel \in Nat
  BY ModuleSizes DEF Sizes
<1>3. /\ \A i \in 1 .. NumInst : param_opvar[i] = module.inst[i]
      /\ \A i \in 1 .. NumModel : param_opvar[NumInst + i] = module.model[i]
  <2>1. PICK s, t, S, T : s = module.inst /\ t = module.model /\ S = ToSet(s) /\ T = ToSet(t)
    OBVIOUS
  <2>2. s \in Seq(S) /\ t \in Seq(T)
    BY <1>1, <2>1
  <2>3. /\ \A i \in 1 .. Len(s) : (s \o t)[i] = s[i]
        /\ \A i \in 1 .. Len(t) : (s \o t)[Len(s) + i] = t[i]
    BY <2>2, Concatenated
  <2> QED BY <2>1, <2>3 DEF param_opvar, NumInst, NumModel
<1>4. ASSUME NEW id \in Ids, id < NumInst
      PROVE  ParamOf(id) \in InstParams /\ Pos(module.inst, ParamOf(id)) = id
  <2>1. id \in 0 .. NumInst - 1 /\ id + 1 \in 1 .. NumInst
    BY <1>2, <1>4 DEF Ids
  <2>2. ParamOf(id) = module.inst[id + 1]
    BY <1>3, <2>1 DEF ParamOf
  <2>3. id + 1 \in DOMAIN module.inst
    BY <1>1, <2>1 DEF NumInst
  <2> QED BY <1>1, <2>1, <2>2, <2>3, PosOf DEF NumInst, InstParams, ToSet
<1>5. ASSUME NEW id \in Ids, id >= NumInst
      PROVE  ParamOf(id) \in ModelParams /\ Pos(module.model, ParamOf(id)) = id - NumInst
  <2> DEFINE k == id - NumInst
  <2>1. k \in 0 .. NumModel - 1 /\ k + 1 \in 1 .. NumModel /\ id + 1 = NumInst + (k + 1)
    BY <1>2, <1>5 DEF Ids
  <2> HIDE DEF k
  <2>2. ParamOf(id) = module.model[k + 1]
    BY <1>3, <2>1 DEF ParamOf
  <2>3. k + 1 \in DOMAIN module.model
    BY <1>1, <2>1 DEF NumModel
  <2>4. ParamOf(id) \in ModelParams /\ Pos(module.model, ParamOf(id)) = k
    BY <1>1, <2>1, <2>2, <2>3, PosOf DEF NumModel, ModelParams, ToSet
  <2> QED BY <2>4 DEF k
<1>6. ASSUME NEW p \in InstParams
      PROVE  Pos(module.inst, p) \in 0 .. NumInst - 1 /\ ParamOf(Pos(module.inst, p)) = p
  <2>1. Pos(module.inst, p) \in 0 .. NumInst - 1 /\ module.inst[Pos(module.inst, p) + 1] = p
    BY <1>1, PosOf DEF InstParams, NumInst
  <2> QED BY <1>2, <1>3, <2>1 DEF ParamOf
<1>7. ASSUME NEW p \in ModelParams
      PROVE  Pos(module.model, p) \in 0 .. NumModel - 1 /\ ParamOf(NumInst + Pos(module.model, p)) = p
  <2>1. PICK k : k = Pos(module.model, p)
    OBVIOUS
  <2>2. k \in 0 .. NumModel - 1 /\ module.model[k + 1] = p
    BY <1>1, <2>1, PosOf DEF ModelParams, NumModel
  <2>3. param_opvar[NumInst + (k + 1)] = p
    BY <1>2, <1>3, <2>2
  <2>4. NumInst + (k + 1) = NumInst + k + 1
    BY <1>2, <2>2
  <2> QED BY <2>1, <2>2, <2>3, <2>4 DEF ParamOf
<1>8. \A id \in Ids : id < NumInst \/ id >= NumInst
  BY <1>2 DEF Ids
<1> QED BY <1>1, <1>2, <1>4, <1>5, <1>6, <1>7, <1>8 DEF ParamsById, AllParams

\* given_flag_instance and given_flag_model tell which parameters are marked.
GivenById ==
  /\ device_iGiven = {p \in InstParams : inst_given(p)}
  /\ device_mGiven = {p \in AllParams : model_given(p)}

\* A parameter's flag is at the bit of its id.
LEMMA DeviceGiven == module \in Modules => GivenById
<1> SUFFICES ASSUME module \in Modules PROVE GivenById
  OBVIOUS
<1>1. ParamsById
  BY ParamIds
<1>2. \A id \in Ids : given_flag_instance(id) = 1 <=> id < NumInst /\ inst_given(ParamOf(id))
  BY DEF given_flag_instance, ParamOf
<1>3. \A id \in Ids : given_flag_model(id) = 1 <=> model_given(ParamOf(id))
  BY <1>1 DEF given_flag_model, ParamOf, Ids, ParamsById
<1>4. device_iGiven = {p \in InstParams : inst_given(p)}
  <2>1. ASSUME NEW p \in InstParams, inst_given(p) PROVE p \in device_iGiven
    <3>1. PICK id : id = Pos(module.inst, p)
      OBVIOUS
    <3>2. id \in Ids /\ id < NumInst /\ ParamOf(id) = p
      BY <1>1, <3>1 DEF ParamsById, Ids
    <3> QED BY <1>2, <2>1, <3>2 DEF device_iGiven
  <2> QED BY <1>1, <1>2, <2>1 DEF device_iGiven, ParamsById
<1>5. device_mGiven = {p \in AllParams : model_given(p)}
  <2>1. ASSUME NEW p \in AllParams, model_given(p) PROVE p \in device_mGiven
    <3>1. PICK id \in Ids : ParamOf(id) = p
      <4>1. CASE p \in InstParams
        <5>1. PICK k : k = Pos(module.inst, p)
          OBVIOUS
        <5>2. k \in Ids /\ ParamOf(k) = p
          BY <1>1, <4>1, <5>1 DEF ParamsById, Ids
        <5> QED BY <5>2
      <4>2. CASE p \in ModelParams
        <5>1. PICK k : k = Pos(module.model, p)
          OBVIOUS
        <5>2. NumInst + k \in Ids /\ ParamOf(NumInst + k) = p
          BY <1>1, <4>2, <5>1 DEF ParamsById, Ids
        <5> QED BY <5>2
      <4> QED BY <4>1, <4>2 DEF AllParams
    <3> QED BY <1>3, <2>1, <3>1 DEF device_mGiven
  <2> QED BY <1>1, <1>3, <2>1 DEF device_mGiven, ParamsById
<1> QED BY <1>4, <1>5 DEF GivenById

-----------------------------------------------------------------------------
(* What a load reads, in terms of the device.                              *)

ValueKinds == {"const", "param", "given", "cache", "voltage", "result"}

\* The device is of the same module.
DeviceTerms ==
  /\ D!All = AllParams /\ D!InstParams = InstParams /\ D!ModelParams = ModelParams
  /\ D!Unknowns = Unknowns /\ D!Outputs = Outputs
  /\ \A o : D!OutputValue(o) = OutputValue(o)
  /\ \A v, env : D!Value(v, env) = Value(v, env)
  /\ \A v : D!Static(v) <=> v.kind \in {"const", "param", "cache"}

\* AbstractDevice and the library speak of one module.
LEMMA SameModule == DeviceTerms
<1>1. /\ D!InstParams = InstParams /\ D!ModelParams = ModelParams /\ D!Unknowns = Unknowns
  BY DEF D!InstParams, InstParams, D!ModelParams, ModelParams, D!Unknowns, Unknowns, D!ToSet, ToSet
<1>2. D!Outputs = Outputs
  BY <1>1 DEF D!Outputs, Outputs
<1>3. \A o : D!OutputValue(o) = OutputValue(o)
  BY DEF D!OutputValue, OutputValue
<1>4. \A v, env : D!Value(v, env) = Value(v, env)
  BY DEF D!Value, Value
<1>5. \A v : D!Static(v) <=> v.kind \in {"const", "param", "cache"}
  BY DEF D!Static
<1>6. D!All = AllParams
  BY <1>1 DEF D!All, AllParams
<1> QED BY <1>1, <1>2, <1>3, <1>4, <1>5, <1>6 DEF DeviceTerms

\* What an evaluation reads from model and instance is what the device holds.
LEMMA EnvIsMemory ==
  ASSUME module \in Modules, NEW a, NEW b, NEW c, NEW x
  PROVE  D!Env([p \in InstParams |-> a[inst_elem(p)]], [p \in AllParams |-> b[model_any_elem(p)]],
               a[TEMPERATURE], c, x)
           = [param |-> read_param(a, b), given |-> device_iGiven \cup device_mGiven,
              cache |-> c, volt |-> x]
<1> DEFINE i == [p \in InstParams |-> a[inst_elem(p)]]
           m == [p \in AllParams |-> b[model_any_elem(p)]]
<1>1. D!All = AllParams /\ D!InstParams = InstParams
  BY SameModule DEF DeviceTerms
<1>2. [p \in AllParams \cup {Temp} |->
         IF p = Temp THEN a[TEMPERATURE] ELSE IF p \in InstParams THEN i[p] ELSE m[p]]
        = read_param(a, b)
  BY DEF read_param, AllParams, inst_elem, model_any_elem, model_elem
<1> HIDE DEF i, m
<1>3. D!Env(i, m, a[TEMPERATURE], c, x)
        = [param |-> [p \in AllParams \cup {Temp} |->
                        IF p = Temp THEN a[TEMPERATURE] ELSE IF p \in InstParams THEN i[p] ELSE m[p]],
           given |-> device_iGiven \cup device_mGiven, cache |-> c, volt |-> x]
  BY <1>1 DEF D!Env
<1> QED BY <1>2, <1>3 DEF i, m

\* Every output has the value of some kind.
LEMMA OutputKinds ==
  ASSUME module \in Modules, NEW o \in Outputs
  PROVE  OutputValue(o) \in MirValues(module) /\ OutputValue(o).kind \in ValueKinds
<1> DEFINE v == OutputValue(o)
<1>0. \A k \in DOMAIN module.noise :
        /\ \A part \in {"factor", "power"} : module.noise[k][part] \in MirValues(module)
        /\ module.noise[k].exp # None => module.noise[k].exp \in MirValues(module)
  BY ModulesAssumption, ZenonT(30)
<1>1. v \in MirValues(module)
  <2>1. CASE o.kind \in {"resist", "react", "limResist", "limReact"}
    <3>1. o.at \in DOMAIN module.residual
      BY <2>1 DEF Outputs, Unknowns
    <3> QED BY <2>1, <3>1, ModulesAssumption DEF OutputValue
  <2>2. CASE o.kind \in {"jacResist", "jacReact"}
    <3>1. o.at \in DOMAIN module.jacobian
      BY <2>2 DEF Outputs
    <3> QED BY <2>2, <3>1, ModulesAssumption DEF OutputValue
  <2>3. CASE o.kind \in {"factor", "power"}
    <3>1. o.at \in DOMAIN module.noise
      BY <2>3 DEF Outputs
    <3>2. OutputValue(o) = module.noise[o.at][o.kind]
      BY <2>3 DEF OutputValue
    <3>3. \A part \in {"factor", "power"} : module.noise[o.at][part] \in MirValues(module)
      BY <1>0, <3>1
    <3> QED BY <2>3, <3>2, <3>3
  <2>4. CASE o.kind = "exp"
    <3>1. o.at \in DOMAIN module.noise /\ module.noise[o.at].exp # None
      BY <2>4 DEF Outputs
    <3>2. OutputValue(o) = module.noise[o.at].exp
      BY <2>4 DEF OutputValue
    <3>3. module.noise[o.at].exp \in MirValues(module)
      BY <1>0, <3>1
    <3> QED BY <3>2, <3>3
  <2>5. CASE o.kind = "opvar"
    <3>1. o.at \in DOMAIN module.opvars
      BY <2>5 DEF Outputs
    <3> QED BY <2>5, <3>1, ModulesAssumption DEF OutputValue
  <2>6. CASE o.kind = "bound"
    <3>1. module.bound # None
      BY <2>6 DEF Outputs
    <3> QED BY <2>6, <3>1, ModulesAssumption DEF OutputValue
  <2> QED BY <2>1, <2>2, <2>3, <2>4, <2>5, <2>6 DEF Outputs
<1> HIDE DEF v
<1>2. v.kind \in ValueKinds
  BY <1>1 DEF MirValues, ValueKinds
<1> QED BY <1>1, <1>2 DEF v

Residuals == {"resist", "react", "limResist", "limReact", "bound"}

\* What is read from a slot has one.
LEMMA ReadHasSlot ==
  ASSUME module \in Modules, NEW o \in Outputs
  PROVE  /\ o.kind \in Residuals /\ OutputValue(o) # F_ZERO => OutputValue(o) \in SlotValues
         /\ Calculated(OutputValue(o)) => OutputValue(o) \in SlotValues
         /\ Calculated(OutputValue(o)) <=> ~D!Static(OutputValue(o))
<1> DEFINE v == OutputValue(o)
<1>1. HasSlot(o) => v \in SlotValues
  BY DEF SlotValues
<1>2. v.kind \in ValueKinds
  BY OutputKinds
<1>3. Calculated(v) => v # F_ZERO
  BY DEF Calculated, F_ZERO, Const
<1>4. D!Static(v) <=> v.kind \in {"const", "param", "cache"}
  BY SameModule DEF DeviceTerms
<1>5. HasSlot(o) <=> CASE o.kind \in {"resist", "react", "limResist", "limReact"} -> v # F_ZERO
                       [] o.kind = "opvar" -> Calculated(v) \/ v.kind = "const"
                       [] o.kind = "bound" -> TRUE
                       [] OTHER -> Calculated(v)
  BY DEF HasSlot
<1> HIDE DEF v
<1>6. o.kind \in Residuals /\ v # F_ZERO => HasSlot(o)
  BY <1>5 DEF Residuals
<1>7. Calculated(v) => HasSlot(o)
  BY <1>3, <1>5
<1>8. Calculated(v) <=> ~D!Static(v)
  BY <1>2, <1>4 DEF Calculated, ValueKinds
<1> QED BY <1>1, <1>6, <1>7, <1>8 DEF v

\* The slots keep their content, or a constant is stored in its own.
SlotsCatchUp ==
  \A v \in SlotValues : \/ inst'[slot_elem(v)] = inst[slot_elem(v)]
                        \/ v.kind = "const" /\ inst'[slot_elem(v)] = v.of

\* Then a load reads what it did, or it needs no evaluation.
LEMMA CatchUp ==
  ASSUME module \in Modules, UNCHANGED <<module, eval_outputs>>, SlotsCatchUp
  PROVE  D!Catch
<1>1. DOMAIN device_out' = D!Outputs
  BY SameModule DEF device_out, DeviceTerms, Outputs, Unknowns
<1>2. Outputs' = Outputs /\ InstParams' = InstParams /\ ModelParams' = ModelParams
  BY DEF Outputs, Unknowns, InstParams, ModelParams
<1>3. ASSUME NEW o \in Outputs PROVE D!Refreshed(o)
  <2>1. PICK v : v = OutputValue(o)
    OBVIOUS
  <2>2. OutputValue(o)' = v
    BY <2>1 DEF OutputValue
  <2>3. device_out[o] = Reads(o) /\ device_out'[o] = Reads(o)'
    BY <1>2 DEF device_out
  <2>4. PICK e : e = D!Env(device_iParam', device_mParam', inst'[TEMPERATURE], load_cache(inst)', << >>)
    OBVIOUS
  <2>5. e.param = read_param(inst', mod') /\ e.cache = load_cache(inst')
    <3>1. device_iParam' = [p \in InstParams |-> inst'[inst_elem(p)]]
      BY <1>2 DEF device_iParam, inst_elem
    <3>2. device_mParam' = [p \in AllParams |-> mod'[model_any_elem(p)]]
      BY <1>2 DEF device_mParam, AllParams, model_any_elem, model_copy, model_elem,
                  model_nth_inst_param_elem, NumModel
    <3>3. load_cache(inst)' = load_cache(inst')
      BY DEF load_cache, cache_slot_elem, NumInst
    <3>4. inst'[TEMPERATURE] = inst'[TEMPERATURE]
      OBVIOUS
    <3>5. e = D!Env([p \in InstParams |-> inst'[inst_elem(p)]],
                    [p \in AllParams |-> mod'[model_any_elem(p)]],
                    inst'[TEMPERATURE], load_cache(inst'), << >>)
      BY <2>4, <3>1, <3>2, <3>3
    <3>6. e = [param |-> read_param(inst', mod'), given |-> device_iGiven \cup device_mGiven,
               cache |-> load_cache(inst'), volt |-> << >>]
      BY <3>5, EnvIsMemory
    <3> QED BY <3>6
  <2>6. D!Static(v) => Value(v, e) = load_eval_output(v, inst', mod')
    BY <2>5, SameModule DEF DeviceTerms, Value, load_eval_output
  <2>7. \/ device_out'[o] = device_out[o]
        \/ D!Static(v) /\ device_out'[o] = Value(v, e)
    <3>1. CASE o.kind \in Residuals
      <4>1. Reads(o) = read_slot(v, inst)
        BY <2>1, <3>1 DEF Reads, Residuals
      <4>2. Reads(o)' = read_slot(v, inst')
        <5>1. Reads(o)' = read_slot(OutputValue(o), inst)'
          BY <3>1 DEF Reads, Residuals
        <5>2. read_slot(OutputValue(o), inst)' = read_slot(v, inst')
          BY <2>2 DEF read_slot, slot_elem, eval_output_slot_elem, NumInst
        <5> QED BY <5>1, <5>2
      <4>3. CASE v = F_ZERO
        BY <2>3, <4>1, <4>2, <4>3 DEF read_slot
      <4>4. CASE v # F_ZERO
        <5>1. v \in SlotValues
          BY <2>1, <3>1, <4>4, ReadHasSlot
        <5>2. \/ inst'[slot_elem(v)] = inst[slot_elem(v)]
              \/ v.kind = "const" /\ inst'[slot_elem(v)] = v.of
          BY <5>1 DEF SlotsCatchUp
        <5>3. v.kind = "const" => D!Static(v) /\ Value(v, e) = v.of
          BY SameModule DEF DeviceTerms, Value
        <5> QED BY <2>3, <4>1, <4>2, <4>4, <5>2, <5>3 DEF read_slot
      <4> QED BY <4>3, <4>4
    <3>2. CASE o.kind \notin Residuals
      <4>1. Reads(o) = load_eval_output(v, inst, mod)
        BY <2>1, <3>2 DEF Reads, Residuals
      <4>2. Reads(o)' = load_eval_output(v, inst', mod')
        <5>1. Reads(o)' = load_eval_output(OutputValue(o), inst, mod)'
          BY <3>2 DEF Reads, Residuals
        <5>2. /\ load_cache(inst)' = load_cache(inst') /\ read_param(inst, mod)' = read_param(inst', mod')
              /\ inst'[slot_elem(v)'] = inst'[slot_elem(v)]
          BY <1>2 DEF load_cache, read_param, cache_slot_elem, NumInst, slot_elem, eval_output_slot_elem
        <5> QED BY <2>2, <5>1, <5>2 DEF load_eval_output
      <4>3. CASE D!Static(v)
        BY <2>3, <2>6, <4>2, <4>3
      <4>4. CASE ~D!Static(v)
        <5>1. v \in SlotValues /\ v.kind \in {"given", "voltage", "result"}
          BY <2>1, <4>4, ReadHasSlot DEF Calculated
        <5>2. inst'[slot_elem(v)] = inst[slot_elem(v)]
          BY <5>1 DEF SlotsCatchUp
        <5> QED BY <2>3, <4>1, <4>2, <5>1, <5>2 DEF load_eval_output
      <4> QED BY <4>3, <4>4
    <3> QED BY <3>1, <3>2
  <2>8. D!OutputValue(o) = v /\ D!Value(v, e) = Value(v, e)
    BY <2>1, SameModule DEF DeviceTerms
  <2> QED BY <2>4, <2>7, <2>8 DEF D!Refreshed
<1>4. D!Outputs = Outputs
  BY SameModule DEF DeviceTerms
<1> QED BY <1>1, <1>3, <1>4 DEF D!Catch

-----------------------------------------------------------------------------
(* Every call of the library is a call on the device.                      *)

\* The device after a call, which changes neither the module nor its slots.
DeviceAfter ==
  /\ device_iGiven' = {p \in InstParams : is_set(inst'[PARAM_GIVEN], Pos(module.inst, p))}
  /\ device_mGiven' = {p \in AllParams :
                         is_set(mod'[PARAM_GIVEN],
                                IF p \in InstParams THEN model_inst_bit(Pos(module.inst, p))
                                                    ELSE Pos(module.model, p))}
  /\ device_iParam' = [p \in InstParams |-> inst'[inst_elem(p)]]
  /\ device_mParam' = [p \in AllParams |-> mod'[model_any_elem(p)]]
  /\ inst[TEMPERATURE]' = inst'[TEMPERATURE]
  /\ load_cache(inst)' = [s \in DOMAIN module.cached |-> inst'[cache_elem(s)]]
  /\ device_collapsed' = {pairs[i + 1] : i \in inst'[COLLAPSED]}
  /\ inst[NODE_MAPPING]' = inst'[NODE_MAPPING]
  /\ device_reported' = {ParamOf(id) : id \in errors'}

\* Its parts read the fields that the library stored.
LEMMA AfterCall ==
  ASSUME module \in Modules, UNCHANGED <<module, eval_outputs>>
  PROVE  DeviceAfter
<1>1. InstParams' = InstParams /\ AllParams' = AllParams /\ NumInst' = NumInst /\ NumModel' = NumModel
  BY DEF InstParams, AllParams, ModelParams, NumInst, NumModel
<1>2. GivenById'
  <2>1. (module \in Modules => GivenById)'
    BY DeviceGiven, PTL
  <2> QED BY <2>1
<1>3. device_iGiven' = {p \in InstParams : is_set(inst'[PARAM_GIVEN], Pos(module.inst, p))}
  BY <1>1, <1>2 DEF GivenById, inst_given, is_set, PARAM_GIVEN
<1>4. device_mGiven' = {p \in AllParams :
                          is_set(mod'[PARAM_GIVEN],
                                 IF p \in InstParams THEN model_inst_bit(Pos(module.inst, p))
                                                     ELSE Pos(module.model, p))}
  BY <1>1, <1>2 DEF GivenById, model_given, is_set, PARAM_GIVEN, model_inst_bit
<1>5. device_iParam' = [p \in InstParams |-> inst'[inst_elem(p)]]
  BY <1>1 DEF device_iParam, inst_elem
<1>6. device_mParam' = [p \in AllParams |-> mod'[model_any_elem(p)]]
  BY <1>1 DEF device_mParam, AllParams, model_any_elem, model_copy, model_elem,
              model_nth_inst_param_elem
<1>7. load_cache(inst)' = [s \in DOMAIN module.cached |-> inst'[cache_elem(s)]]
  BY <1>1 DEF load_cache, cache_elem, cache_slot_elem
<1>8. device_collapsed' = {pairs[i + 1] : i \in inst'[COLLAPSED]}
  <2>1. pairs' = pairs
    BY DEF pairs, hint_pair, current_pair, source_pair
  <2> QED BY <2>1 DEF device_collapsed, COLLAPSED
<1>9. device_reported' = {ParamOf(id) : id \in errors'}
  BY DEF device_reported, ParamOf, param_opvar
<1> QED BY <1>3, <1>4, <1>5, <1>6, <1>7, <1>8, <1>9 DEF DeviceAfter, TEMPERATURE, NODE_MAPPING

\* The device now, in the same terms.
LEMMA BeforeCall ==
  ASSUME module \in Modules
  PROVE  /\ device_iGiven = {p \in InstParams : is_set(inst[PARAM_GIVEN], Pos(module.inst, p))}
         /\ device_mGiven = {p \in AllParams :
                               is_set(mod[PARAM_GIVEN],
                                      IF p \in InstParams THEN model_inst_bit(Pos(module.inst, p))
                                                          ELSE Pos(module.model, p))}
         /\ device_iParam = [p \in InstParams |-> inst[inst_elem(p)]]
         /\ device_mParam = [p \in AllParams |-> mod[model_any_elem(p)]]
         /\ load_cache(inst) = [s \in DOMAIN module.cached |-> inst[cache_elem(s)]]
BY DeviceGiven DEF GivenById, inst_given, model_given, device_iParam, device_mParam, AllParams,
                   load_cache, cache_elem

\* Of the instance, only what a call stores changes.
LEMMA InstanceFrame ==
  ASSUME module \in Modules, UNCHANGED <<module, eval_outputs>>
  PROVE  /\ inst'[PARAM_GIVEN] = inst[PARAM_GIVEN] => device_iGiven' = device_iGiven
         /\ (\A p \in InstParams : inst'[inst_elem(p)] = inst[inst_elem(p)])
              => device_iParam' = device_iParam
         /\ (\A s \in DOMAIN module.cached : inst'[cache_elem(s)] = inst[cache_elem(s)])
              => load_cache(inst)' = load_cache(inst)
         /\ inst'[TEMPERATURE] = inst[TEMPERATURE] => inst[TEMPERATURE]' = inst[TEMPERATURE]
         /\ inst'[NODE_MAPPING] = inst[NODE_MAPPING] => inst[NODE_MAPPING]' = inst[NODE_MAPPING]
         /\ inst'[COLLAPSED] = inst[COLLAPSED] => device_collapsed' = device_collapsed
         /\ mod' = mod => device_mGiven' = device_mGiven /\ device_mParam' = device_mParam
         /\ errors' = errors => device_reported' = device_reported
BY AfterCall, BeforeCall DEF DeviceAfter, device_collapsed, device_reported

\* access on the instance sets the parameter there.
LEMMA AccessOnInstance ==
  ASSUME DeviceInv, NEW id \in Ids, NEW n \in Numbers, AccessSet(id, TRUE, n)
  PROVE  D!DNext
<1>1. module \in Modules /\ LayoutInv /\ FieldsApart /\ NumInst \in Nat
  BY InstFields, ModuleSizes DEF DeviceInv, LayoutInv, Sizes
<1>2. /\ UNCHANGED <<module, eval_outputs, mod, errors>> /\ id \in 0 .. NumInst - 1
      /\ inst' = [inst EXCEPT ![PARAM_GIVEN] = set_bit(@, id), ![nth_param_elem(id)] = n]
  BY <1>1 DEF AccessSet, Ids
<1>3. InstGiven' = InstGiven \cup {id}
  BY <1>1, AccessSetMarks DEF Ids
<1>4. PICK p \in InstParams : p = ParamOf(id) /\ Pos(module.inst, p) = id
  BY <1>1, <1>2, ParamIds DEF ParamsById
<1>5. nth_param_elem(id) = inst_elem(p) /\ inst_elem(p) \in DOMAIN inst /\ inst_elem(p) \notin 0 .. 7
  BY <1>1, <1>4 DEF inst_elem, FieldsApart
<1>6. /\ inst'[inst_elem(p)] = n
      /\ \A e \in DOMAIN inst : e # PARAM_GIVEN /\ e # inst_elem(p) => inst'[e] = inst[e]
  BY <1>2, <1>5 DEF PARAM_GIVEN
<1>7. 0 .. 7 \subseteq DOMAIN inst
  BY <1>1 DEF FieldsApart
<1>8. /\ inst'[TEMPERATURE] = inst[TEMPERATURE] /\ inst'[NODE_MAPPING] = inst[NODE_MAPPING]
      /\ inst'[COLLAPSED] = inst[COLLAPSED]
  BY <1>5, <1>6, <1>7 DEF TEMPERATURE, NODE_MAPPING, COLLAPSED, PARAM_GIVEN
<1>9. \A s \in DOMAIN module.cached : inst'[cache_elem(s)] = inst[cache_elem(s)]
  BY <1>1, <1>6 DEF FieldsApart, PARAM_GIVEN
<1>10. D!Catch
  BY <1>1, <1>2, <1>6, CatchUp DEF SlotsCatchUp, FieldsApart, PARAM_GIVEN
<1>11. device_iParam' = [device_iParam EXCEPT ![p] = n]
  <2>1. \A q \in InstParams : q # p => inst'[inst_elem(q)] = inst[inst_elem(q)]
    BY <1>1, <1>6 DEF FieldsApart, PARAM_GIVEN
  <2>2. device_iParam' = [q \in InstParams |-> inst'[inst_elem(q)]]
    BY <1>1, <1>2, AfterCall DEF DeviceAfter
  <2> QED BY <1>6, <2>1, <2>2 DEF device_iParam
<1>12. device_iGiven' = device_iGiven \cup {p}
  <2>1. \A q \in InstParams : Pos(module.inst, q) \in 0 .. NumInst - 1
    BY <1>1, ParamIds DEF ParamsById
  <2>2. \A i \in 0 .. NumInst - 1 :
          is_set(inst'[PARAM_GIVEN], i) <=> i = id \/ is_set(inst[PARAM_GIVEN], i)
    <3>1. InstGiven' = {i \in 0 .. NumInst - 1 : is_set(inst'[PARAM_GIVEN], i)}
      BY <1>2 DEF InstGiven, NumInst, is_set, PARAM_GIVEN
    <3> QED BY <1>3, <3>1 DEF InstGiven
  <2>3. \A q \in InstParams : Pos(module.inst, q) = id => q = p
    BY <1>1, <1>4, ParamIds DEF ParamsById
  <2>4. device_iGiven' = {q \in InstParams : is_set(inst'[PARAM_GIVEN], Pos(module.inst, q))}
    BY <1>1, <1>2, AfterCall DEF DeviceAfter
  <2>5. device_iGiven = {q \in InstParams : is_set(inst[PARAM_GIVEN], Pos(module.inst, q))}
    BY <1>1, BeforeCall
  <2> QED BY <1>4, <2>1, <2>2, <2>3, <2>4, <2>5
<1>13. /\ device_mGiven' = device_mGiven /\ device_mParam' = device_mParam
       /\ inst[TEMPERATURE]' = inst[TEMPERATURE] /\ inst[NODE_MAPPING]' = inst[NODE_MAPPING]
       /\ device_collapsed' = device_collapsed /\ load_cache(inst)' = load_cache(inst)
       /\ device_reported' = device_reported
  BY <1>1, <1>2, <1>8, <1>9, InstanceFrame
<1>14. D!SetOnInstance(p, n)
  BY <1>2, <1>10, <1>11, <1>12, <1>13 DEF D!SetOnInstance
<1>15. p \in D!InstParams
  BY <1>4, SameModule DEF DeviceTerms
<1> QED BY <1>14, <1>15 DEF D!DNext

\* access on the model sets the model's parameter, or its copy of an instance's.
LEMMA AccessOnModel ==
  ASSUME DeviceInv, NEW id \in Ids, NEW n \in Numbers, AccessSet(id, FALSE, n)
  PROVE  D!DNext
<1>1. module \in Modules /\ LayoutInv /\ ModelFieldsApart /\ ParamsById
  BY ModelFields, ParamIds DEF DeviceInv, LayoutInv
<1>2. NumInst \in Nat /\ NumModel \in Nat
  BY <1>1 DEF ParamsById
<1> DEFINE elem == IF id < NumInst THEN model_nth_inst_param_elem(id)
                                   ELSE model_nth_param_elem(id - NumInst)
           bit(q) == IF q \in InstParams THEN model_inst_bit(Pos(module.inst, q))
                                         ELSE Pos(module.model, q)
<1>3. /\ UNCHANGED <<module, eval_outputs, inst, errors>>
      /\ mod' = [mod EXCEPT ![PARAM_GIVEN] = set_bit(@, ModelBit(id)), ![elem] = n]
  BY DEF AccessSet, ModelBit
<1>4. ModelGiven' = ModelGiven \cup {ModelBit(id)}
  BY <1>1, AccessSetMarks DEF Ids
<1>5. PICK p : p = ParamOf(id)
  OBVIOUS
<1>6. p \in AllParams /\ bit(p) = ModelBit(id) /\ elem = model_any_elem(p)
  <2>1. CASE id < NumInst
    <3>1. p \in InstParams /\ Pos(module.inst, p) = id
      BY <1>1, <1>5, <2>1 DEF ParamsById
    <3> QED BY <2>1, <3>1 DEF AllParams, ModelBit, model_any_elem, model_copy
  <2>2. CASE id >= NumInst
    <3>1. p \in ModelParams /\ p \notin InstParams /\ Pos(module.model, p) = id - NumInst
      BY <1>1, <1>5, <2>2 DEF ParamsById
    <3>2. ~(id < NumInst)
      BY <1>2, <2>2 DEF Ids
    <3> QED BY <3>1, <3>2 DEF AllParams, ModelBit, model_any_elem, model_elem
  <2> QED BY <1>2, <2>1, <2>2 DEF Ids
<1> HIDE DEF elem
<1>7. model_any_elem(p) \in DOMAIN mod /\ model_any_elem(p) # PARAM_GIVEN
  BY <1>1, <1>6 DEF ModelFieldsApart
<1>8. /\ mod'[model_any_elem(p)] = n
      /\ \A e \in DOMAIN mod : e # PARAM_GIVEN /\ e # model_any_elem(p) => mod'[e] = mod[e]
  BY <1>3, <1>6, <1>7
<1>9. device_mParam' = [device_mParam EXCEPT ![p] = n]
  <2>1. \A q \in AllParams : q # p => mod'[model_any_elem(q)] = mod[model_any_elem(q)]
    BY <1>1, <1>6, <1>8 DEF ModelFieldsApart
  <2>2. /\ device_mParam' = [q \in AllParams |-> mod'[model_any_elem(q)]]
        /\ device_mParam = [q \in AllParams |-> mod[model_any_elem(q)]]
    BY <1>1, <1>3, AfterCall, BeforeCall DEF DeviceAfter
  <2> QED BY <1>6, <1>8, <2>1, <2>2
<1>10. \A q \in AllParams : /\ bit(q) \in 0 .. NumInst + NumModel - 1
                            /\ bit(q) = bit(p) => q = p
  <2>1. \A q \in InstParams : Pos(module.inst, q) \in 0 .. NumInst - 1 /\ ParamOf(Pos(module.inst, q)) = q
    BY <1>1 DEF ParamsById
  <2>2. \A q \in ModelParams : /\ Pos(module.model, q) \in 0 .. NumModel - 1
                               /\ ParamOf(NumInst + Pos(module.model, q)) = q
    BY <1>1 DEF ParamsById
  <2>3. ASSUME NEW q \in InstParams
        PROVE  bit(q) \in NumModel .. NumInst + NumModel - 1 /\ ParamOf(bit(q) - NumModel) = q
    BY <1>2, <2>1 DEF model_inst_bit
  <2>4. ASSUME NEW q \in AllParams, q \notin InstParams
        PROVE  bit(q) \in 0 .. NumModel - 1 /\ ParamOf(NumInst + bit(q)) = q
    BY <1>2, <2>2, <2>4 DEF AllParams
  <2> HIDE DEF bit
  <2>5. ASSUME NEW q \in AllParams PROVE bit(q) \in 0 .. NumInst + NumModel - 1
    <3>1. CASE q \in InstParams
      BY <1>2, <2>3, <3>1
    <3>2. CASE q \notin InstParams
      BY <1>2, <2>4, <3>2
    <3> QED BY <3>1, <3>2
  <2>6. ASSUME NEW q \in AllParams, bit(q) = bit(p) PROVE q = p
    <3>1. CASE q \in InstParams /\ p \in InstParams
      BY <2>3, <2>6, <3>1
    <3>2. CASE q \notin InstParams /\ p \notin InstParams
      BY <1>6, <2>4, <2>6, <3>2
    <3>3. CASE q \in InstParams /\ p \notin InstParams
      BY <1>2, <1>6, <2>3, <2>4, <2>6, <3>3
    <3>4. CASE q \notin InstParams /\ p \in InstParams
      BY <1>2, <1>6, <2>3, <2>4, <2>6, <3>4
    <3> QED BY <3>1, <3>2, <3>3, <3>4
  <2> QED BY <2>5, <2>6
<1>11. device_mGiven' = device_mGiven \cup {p}
  <2>1. ModelGiven' = {i \in 0 .. NumInst + NumModel - 1 : is_set(mod'[PARAM_GIVEN], i)}
    BY <1>3 DEF ModelGiven, NumInst, NumModel, is_set, PARAM_GIVEN
  <2>2. \A i \in 0 .. NumInst + NumModel - 1 :
          is_set(mod'[PARAM_GIVEN], i) <=> i = ModelBit(id) \/ is_set(mod[PARAM_GIVEN], i)
    BY <1>4, <2>1 DEF ModelGiven
  <2>3. device_mGiven' = {q \in AllParams : is_set(mod'[PARAM_GIVEN], bit(q))}
    BY <1>1, <1>3, AfterCall DEF DeviceAfter
  <2>4. device_mGiven = {q \in AllParams : is_set(mod[PARAM_GIVEN], bit(q))}
    BY <1>1, BeforeCall
  <2> HIDE DEF bit
  <2> QED BY <1>6, <1>10, <2>2, <2>3, <2>4
<1>12. /\ device_iGiven' = device_iGiven /\ device_iParam' = device_iParam
       /\ inst[TEMPERATURE]' = inst[TEMPERATURE] /\ inst[NODE_MAPPING]' = inst[NODE_MAPPING]
       /\ device_collapsed' = device_collapsed /\ load_cache(inst)' = load_cache(inst)
       /\ device_reported' = device_reported
  BY <1>1, <1>3, InstanceFrame
<1>13. D!Catch
  BY <1>1, <1>3, CatchUp DEF SlotsCatchUp
<1>14. D!SetOnModel(p, n)
  BY <1>3, <1>9, <1>11, <1>12, <1>13 DEF D!SetOnModel
<1>15. p \in D!All
  BY <1>6, SameModule DEF DeviceTerms
<1> QED BY <1>14, <1>15 DEF D!DNext

\* nth_opvar_ptr stores a constant in its slot, which is what its output reads.
LEMMA OpvarOnDevice ==
  ASSUME DeviceInv, NEW i \in DOMAIN module.opvars, AccessOpvar(i)
  PROVE  D!DNext
<1> DEFINE v == module.opvars[i]
           o == [kind |-> "opvar", at |-> i]
<1>1. module \in Modules /\ FieldsApart
  BY InstFields DEF DeviceInv, LayoutInv
<1>2. /\ v.kind = "const" /\ UNCHANGED <<module, eval_outputs, mod, errors>>
      /\ inst' = [inst EXCEPT ![slot_elem(v)] = v.of]
  BY DEF AccessOpvar
<1>3. v \in SlotValues
  <2>1. o \in Outputs
    BY DEF Outputs
  <2>2. OutputValue(o) = v
    BY DEF OutputValue
  <2>3. HasSlot(o)
    BY <1>2, <2>2 DEF HasSlot
  <2> QED BY <2>1, <2>2, <2>3 DEF SlotValues
<1> HIDE DEF v
<1>4. slot_elem(v) \in DOMAIN inst /\ slot_elem(v) \notin 0 .. 7 /\ 0 .. 7 \subseteq DOMAIN inst
  BY <1>1, <1>3 DEF FieldsApart
<1>5. inst'[slot_elem(v)] = v.of /\ \A e \in DOMAIN inst : e # slot_elem(v) => inst'[e] = inst[e]
  BY <1>2, <1>4
<1>6. \A e \in 0 .. 7 : inst'[e] = inst[e]
  BY <1>4, <1>5
<1>7. D!Catch
  BY <1>1, <1>2, <1>3, <1>5, CatchUp DEF SlotsCatchUp, FieldsApart
<1>8. /\ \A p \in InstParams : inst'[inst_elem(p)] = inst[inst_elem(p)]
      /\ \A s \in DOMAIN module.cached : inst'[cache_elem(s)] = inst[cache_elem(s)]
  BY <1>1, <1>3, <1>5 DEF FieldsApart
<1>9. /\ inst'[PARAM_GIVEN] = inst[PARAM_GIVEN] /\ inst'[TEMPERATURE] = inst[TEMPERATURE]
      /\ inst'[NODE_MAPPING] = inst[NODE_MAPPING] /\ inst'[COLLAPSED] = inst[COLLAPSED]
  BY <1>6 DEF PARAM_GIVEN, TEMPERATURE, NODE_MAPPING, COLLAPSED
<1>10. D!DRead
  BY <1>1, <1>2, <1>7, <1>8, <1>9, InstanceFrame DEF D!DRead
<1> QED BY <1>10 DEF D!DNext

\* setup_model gives every parameter of the model its number.
LEMMA SetupModelOnDevice ==
  ASSUME DeviceInv, SetupModel
  PROVE  D!DNext
<1>1. module \in Modules /\ ModelFieldsApart /\ ParamsById
  BY ModelFields, ParamIds DEF DeviceInv, LayoutInv
<1>2. PICK val : val = Init_(AllParams, device_mGiven, device_mParam)
  OBVIOUS
<1>3. /\ mod' = Update(mod, AllParams, model_any_elem, val)
      /\ errors' = {NumInst + Pos(module.model, p) : p \in Invalid(ModelParams, val)}
      /\ UNCHANGED <<module, eval_outputs, inst>>
  <2>1. device_mGiven = {p \in AllParams : model_given(p)}
    BY <1>1, DeviceGiven DEF GivenById
  <2>2. device_mParam = [p \in AllParams |-> mod[model_any_elem(p)]]
    BY <1>1, BeforeCall
  <2>3. val = Init_(AllParams, {p \in AllParams : model_given(p)},
                    [p \in AllParams |-> mod[model_any_elem(p)]])
    BY <1>2, <2>1, <2>2
  <2> QED BY <2>3 DEF SetupModel, AllParams
<1>4. \A p \in AllParams : mod'[model_any_elem(p)] = val[p]
  <2> SUFFICES ASSUME NEW p \in AllParams PROVE mod'[model_any_elem(p)] = val[p]
    OBVIOUS
  <2>1. mod'[model_any_elem(p)]
          = val[CHOOSE x \in AllParams : model_any_elem(x) = model_any_elem(p)]
    BY <1>1, <1>3 DEF Update, ModelFieldsApart
  <2>2. (CHOOSE x \in AllParams : model_any_elem(x) = model_any_elem(p)) = p
    BY <1>1 DEF ModelFieldsApart
  <2> QED BY <2>1, <2>2
<1>5. mod'[PARAM_GIVEN] = mod[PARAM_GIVEN]
  BY <1>1, <1>3 DEF Update, ModelFieldsApart
<1>6. device_mParam' = [p \in AllParams |-> val[p]]
  BY <1>1, <1>3, <1>4, AfterCall DEF DeviceAfter
<1>7. device_mGiven' = device_mGiven
  BY <1>1, <1>3, <1>5, AfterCall, BeforeCall DEF DeviceAfter
<1>8. device_reported' = Invalid(ModelParams, val)
  <2>1. device_reported' = {ParamOf(id) : id \in errors'}
    BY <1>1, <1>3, AfterCall DEF DeviceAfter
  <2>2. \A p \in Invalid(ModelParams, val) : ParamOf(NumInst + Pos(module.model, p)) = p
    BY <1>1 DEF Invalid, ParamsById
  <2> QED BY <1>3, <2>1, <2>2
<1>9. /\ device_iGiven' = device_iGiven /\ device_iParam' = device_iParam
      /\ inst[TEMPERATURE]' = inst[TEMPERATURE] /\ inst[NODE_MAPPING]' = inst[NODE_MAPPING]
      /\ device_collapsed' = device_collapsed /\ load_cache(inst)' = load_cache(inst)
  BY <1>1, <1>3, InstanceFrame
<1>10. D!Catch
  BY <1>1, <1>3, CatchUp DEF SlotsCatchUp
<1>11. /\ D!Init_(D!All, device_mGiven, device_mParam) = val
       /\ D!Invalid(D!ModelParams, val) = Invalid(ModelParams, val) /\ D!All = AllParams
  BY <1>2, SameModule DEF DeviceTerms, D!Init_, Init_, D!Invalid, Invalid, D!UserParams, UserParams
<1>12. D!DSetupModel
  BY <1>3, <1>6, <1>7, <1>8, <1>9, <1>10, <1>11 DEF D!DSetupModel
<1> QED BY <1>12 DEF D!DNext

\* Bind maps the nodes by the collapsed pairs.
LEMMA BindOnDevice ==
  ASSUME DeviceInv, Bind
  PROVE  D!DNext
<1>1. module \in Modules /\ FieldsApart
  BY InstFields DEF DeviceInv, LayoutInv
<1>2. UNCHANGED <<module, eval_outputs, mod, errors>>
  BY DEF Bind
<1>3. PICK b, c : inst' = [inst EXCEPT ![NODE_MAPPING] = Rows(device_collapsed),
                                       ![JACOBIAN_PTR_RESIST] = b, ![JACOBIAN_PTR_REACT] = c]
  BY DEF Bind, device_collapsed
<1>4. 0 .. 7 \subseteq DOMAIN inst
  BY <1>1 DEF FieldsApart
<1>5. /\ inst'[NODE_MAPPING] = Rows(device_collapsed)
      /\ \A e \in DOMAIN inst : e \notin {NODE_MAPPING, JACOBIAN_PTR_RESIST, JACOBIAN_PTR_REACT}
                                 => inst'[e] = inst[e]
  BY <1>3, <1>4 DEF NODE_MAPPING, JACOBIAN_PTR_RESIST, JACOBIAN_PTR_REACT
<1>6. /\ inst'[PARAM_GIVEN] = inst[PARAM_GIVEN] /\ inst'[TEMPERATURE] = inst[TEMPERATURE]
      /\ inst'[COLLAPSED] = inst[COLLAPSED]
  BY <1>4, <1>5 DEF PARAM_GIVEN, TEMPERATURE, NODE_MAPPING, COLLAPSED, JACOBIAN_PTR_RESIST,
                    JACOBIAN_PTR_REACT
<1>7. \A e \in DOMAIN inst : e \notin 0 .. 7 => inst'[e] = inst[e]
  BY <1>5 DEF NODE_MAPPING, JACOBIAN_PTR_RESIST, JACOBIAN_PTR_REACT
<1>8. /\ \A p \in InstParams : inst'[inst_elem(p)] = inst[inst_elem(p)]
      /\ \A s \in DOMAIN module.cached : inst'[cache_elem(s)] = inst[cache_elem(s)]
      /\ \A v \in SlotValues : inst'[slot_elem(v)] = inst[slot_elem(v)]
  BY <1>1, <1>7 DEF FieldsApart
<1>9. D!Catch
  BY <1>1, <1>2, <1>8, CatchUp DEF SlotsCatchUp
<1>10. D!Rows(device_collapsed) = Rows(device_collapsed)
  BY SameModule DEF DeviceTerms, D!Rows, Rows
<1>11. D!DBind
  BY <1>1, <1>2, <1>5, <1>6, <1>8, <1>9, <1>10, InstanceFrame, AfterCall
     DEF D!DBind, DeviceAfter
<1> QED BY <1>11 DEF D!DNext

\* The positions that a hint marks are those of the pairs that it collapses.
LEMMA HintedPairs ==
  ASSUME module \in Modules, NEW h \in DOMAIN module.hints
  PROVE  {pairs[i + 1] : i \in hint(h)}
           = {<<module.hints[h].hi, module.hints[h].lo>>}
               \cup {<<module.currents[c].unknown, None>> :
                       c \in {c \in DOMAIN module.currents : D!Vanishes(c, h)}}
<1> DEFINE C == {c \in DOMAIN module.currents : source_pair(c) # {}}
           P == {current_pair(c) : c \in C}
           H == [g \in DOMAIN module.hints |-> hint_pair(g)]
<1>1. module.hints \in Seq(ToSet(module.hints)) /\ module.currents \in Seq(ToSet(module.currents))
  BY ModulesAssumption
<1>2. IsFiniteSet(P)
  <2>1. IsFiniteSet(DOMAIN module.currents)
    <3>1. Len(module.currents) \in Nat /\ DOMAIN module.currents = 1 .. Len(module.currents)
      BY <1>1
    <3> QED BY <3>1, FS_Interval
  <2>2. IsFiniteSet(C)
    BY <2>1, FS_Subset
  <2> DEFINE f == [c \in C |-> current_pair(c)]
  <2>3. f \in Surjection(C, P)
    BY DEF Surjection
  <2> QED BY <2>2, <2>3, FS_Surjection
<1>3. SetToSeq(P) \in Seq(P) /\ ToSet(SetToSeq(P)) = P
  BY <1>2, NumberingIsComplete
<1>4. PICK S, T : S = ToSet(H) /\ T = SetToSeq(P)
  OBVIOUS
<1>5. H \in Seq(S) /\ T \in Seq(P) /\ ToSet(T) = P
  <2>1. PICK n \in Nat : DOMAIN module.hints = 1 .. n
    BY <1>1
  <2>2. H \in [1 .. n -> S]
    BY <1>4, <2>1 DEF ToSet
  <2>3. H \in Seq(S)
    BY <2>1, <2>2
  <2> QED BY <1>3, <1>4, <2>3
<1>6. pairs = H \o T
  BY <1>4 DEF pairs
<1>7. DOMAIN H = DOMAIN module.hints /\ H[h] = hint_pair(h)
  OBVIOUS
<1>8. ASSUME NEW c \in DOMAIN module.currents, h \in source_pair(c) PROVE current_pair(c) \in P
  BY <1>8
<1> HIDE DEF H, P
<1>9. pairs \in Seq(S \cup P)
  BY <1>5, <1>6
<1>10. hint_pair(h) \in ToSet(pairs)
  <2>1. h \in 1 .. Len(H)
    BY <1>5, <1>7
  <2>2. (H \o T)[h] = H[h] /\ h \in DOMAIN (H \o T)
    <3>1. (H \o T)[h] = H[h]
      BY <1>5, <2>1, Concatenated
    <3>2. Len(H \o T) = Len(H) + Len(T) /\ H \o T \in Seq(S \cup P) /\ Len(H) \in Nat /\ Len(T) \in Nat
      BY <1>5
    <3>3. h \in 1 .. Len(H \o T)
      BY <2>1, <3>2
    <3> QED BY <3>1, <3>2, <3>3
  <2> QED BY <1>6, <1>7, <2>2 DEF ToSet
<1>11. ASSUME NEW x \in P PROVE x \in ToSet(pairs)
  <2>1. PICK i \in 1 .. Len(T) : T[i] = x
    BY <1>5 DEF ToSet
  <2>2. (H \o T)[Len(H) + i] = T[i]
    BY <1>5, Concatenated
  <2>3. Len(H \o T) = Len(H) + Len(T) /\ H \o T \in Seq(S \cup P) /\ Len(H) \in Nat /\ Len(T) \in Nat
    BY <1>5
  <2>4. Len(H) + i \in DOMAIN (H \o T)
    BY <2>3
  <2> QED BY <1>6, <2>1, <2>2, <2>4 DEF ToSet
<1>12. \A x \in ToSet(pairs) : pairs[Pos(pairs, x) + 1] = x
  BY <1>9, PosOf
<1>13. ASSUME NEW c \in DOMAIN module.currents PROVE h \in source_pair(c) <=> D!Vanishes(c, h)
  <2> DEFINE b == module.currents[c]
             along(g) == module.hints[g].hi = b.hi /\ module.hints[g].lo = b.lo
             against(g) == module.hints[g].hi = b.lo /\ module.hints[g].lo = b.hi
  <2>1. \A g \in DOMAIN module.hints : /\ hint_pair(g) = <<b.hi, b.lo>> <=> along(g)
                                       /\ hint_pair(g) = <<b.lo, b.hi>> <=> against(g)
    BY DEF hint_pair
  <2>2. \A g \in DOMAIN module.hints : against(g) => b.lo # None
    BY ModulesAssumption
  <2>3. D!Vanishes(c, h) <=> along(h) \/ (against(h) /\ \A g \in DOMAIN module.hints : ~along(g))
    BY DEF D!Vanishes
  <2>4. h \in source_pair(c)
          <=> IF {g \in DOMAIN module.hints : along(g)} # {} THEN along(h) ELSE against(h)
    BY <2>1, <2>2 DEF source_pair
  <2> HIDE DEF along, against
  <2> QED BY <2>3, <2>4
<1>14. {pairs[i + 1] : i \in hint(h)}
         = {hint_pair(h)} \cup {current_pair(c) : c \in {c \in DOMAIN module.currents : h \in source_pair(c)}}
  BY <1>8, <1>10, <1>11, <1>12 DEF hint
<1> QED BY <1>13, <1>14 DEF hint_pair, current_pair

\* setup_instance gives the instance's parameters their numbers, fills the
\* cache and marks the collapsed pairs, as far as it gets.
LEMMA SetupInstanceOnDevice ==
  ASSUME DeviceInv, NEW t \in Numbers, NEW k, NEW reached \in SUBSET DOMAIN module.cached,
         SetupInstance(t, k, reached)
  PROVE  D!DNext
<1>1. module \in Modules /\ FieldsApart /\ ParamsById
  BY InstFields, ParamIds DEF DeviceInv, LayoutInv
<1>2. UNCHANGED <<module, eval_outputs, mod>>
  BY DEF SetupInstance
<1> DEFINE given == {p \in InstParams : inst_given(p) \/ model_given(p)}
           val   == [p \in InstParams \cup ModelParams |->
                       IF p \in ModelParams THEN mod[model_elem(p)]
                       ELSE IF inst_given(p) THEN inst[inst_elem(p)] ELSE mod[model_copy(p)]]
<1>3. PICK init : init = Init_(InstParams, given, val)
  OBVIOUS
<1> DEFINE abort == module.fatal # None /\ init[module.fatal] = 2
           C     == IF abort THEN reached ELSE DOMAIN module.cached
           hints == {h \in Hinted(init) : abort => h <= k}
           marks == UNION {hint(h) : h \in hints}
<1>4. PICK m1 : m1 = Update(inst, InstParams, inst_elem, init)
  OBVIOUS
<1>5. PICK m2 : m2 = Update(m1, C, LAMBDA s : cache_slot_elem(s - 1), Cached(init))
  OBVIOUS
<1>6. /\ inst' = [m2 EXCEPT ![TEMPERATURE] = t, ![COLLAPSED] = @ \cup marks]
      /\ errors' = {Pos(module.inst, p) : p \in Invalid(InstParams, init)}
  BY <1>3, <1>4, <1>5 DEF SetupInstance
<1>7. given = device_iGiven \cup (device_mGiven \cap InstParams)
  BY <1>1, DeviceGiven DEF GivenById, AllParams
<1>8. val = [p \in AllParams |-> IF p \in device_iGiven THEN device_iParam[p] ELSE device_mParam[p]]
  <2>1. \A p \in AllParams :
          val[p] = IF p \in device_iGiven THEN device_iParam[p] ELSE device_mParam[p]
    BY <1>1, DeviceGiven DEF GivenById, AllParams, ParamsById, device_iParam, device_mParam,
                             model_any_elem
  <2> QED BY <2>1 DEF AllParams
<1> HIDE DEF given, val
<1>9. DOMAIN m1 = DOMAIN inst /\ DOMAIN m2 = DOMAIN inst
  BY <1>4, <1>5 DEF Update
<1>10. /\ \A p \in InstParams : m1[inst_elem(p)] = init[p]
       /\ \A e \in DOMAIN inst : (\A p \in InstParams : inst_elem(p) # e) => m1[e] = inst[e]
  <2>1. ASSUME NEW p \in InstParams PROVE m1[inst_elem(p)] = init[p]
    <3>1. m1[inst_elem(p)] = init[CHOOSE x \in InstParams : inst_elem(x) = inst_elem(p)]
      BY <1>1, <1>4 DEF Update, FieldsApart
    <3>2. (CHOOSE x \in InstParams : inst_elem(x) = inst_elem(p)) = p
      BY <1>1 DEF FieldsApart
    <3> QED BY <3>1, <3>2
  <2>2. \A e \in DOMAIN inst : (\A p \in InstParams : inst_elem(p) # e) => m1[e] = inst[e]
    BY <1>4 DEF Update
  <2> QED BY <2>1, <2>2
<1>11. C \subseteq DOMAIN module.cached
  OBVIOUS
<1>12. m2 = [e \in DOMAIN m1 |-> IF \E s \in C : cache_elem(s) = e
                                 THEN Cached(init)[CHOOSE s \in C : cache_elem(s) = e] ELSE m1[e]]
  BY <1>5 DEF Update, cache_elem
<1> HIDE DEF C, abort, hints, marks
<1>13. /\ \A s \in C : m2[cache_elem(s)] = Cached(init)[s]
       /\ \A e \in DOMAIN inst : (\A s \in C : cache_elem(s) # e) => m2[e] = m1[e]
  <2>1. ASSUME NEW s \in C PROVE m2[cache_elem(s)] = Cached(init)[s]
    <3>1. m2[cache_elem(s)] = Cached(init)[CHOOSE x \in C : cache_elem(x) = cache_elem(s)]
      BY <1>1, <1>9, <1>11, <1>12 DEF FieldsApart
    <3>2. (CHOOSE x \in C : cache_elem(x) = cache_elem(s)) = s
      BY <1>1, <1>11 DEF FieldsApart
    <3> QED BY <3>1, <3>2
  <2>2. \A e \in DOMAIN inst : (\A s \in C : cache_elem(s) # e) => m2[e] = m1[e]
    BY <1>9, <1>12
  <2> QED BY <2>1, <2>2
<1>14. /\ inst'[TEMPERATURE] = t /\ inst'[COLLAPSED] = m2[COLLAPSED] \cup marks
       /\ \A e \in DOMAIN inst : e # TEMPERATURE /\ e # COLLAPSED => inst'[e] = m2[e]
  <2>1. TEMPERATURE \in DOMAIN m2 /\ COLLAPSED \in DOMAIN m2 /\ TEMPERATURE # COLLAPSED
    BY <1>1, <1>9 DEF FieldsApart, TEMPERATURE, COLLAPSED
  <2> QED BY <1>6, <1>9, <2>1
<1>15. \A e \in 0 .. 7 : e \in DOMAIN inst /\ m2[e] = inst[e]
  <2>1. \A e \in 0 .. 7 : /\ e \in DOMAIN inst
                          /\ \A p \in InstParams : inst_elem(p) # e
                          /\ \A s \in C : cache_elem(s) # e
    BY <1>1, <1>11 DEF FieldsApart
  <2> QED BY <1>10, <1>13, <2>1
<1>16. \A e \in DOMAIN inst : e \notin 0 .. 7 => inst'[e] = m2[e]
  BY <1>14 DEF TEMPERATURE, COLLAPSED
<1>17. /\ inst'[PARAM_GIVEN] = inst[PARAM_GIVEN] /\ inst'[NODE_MAPPING] = inst[NODE_MAPPING]
       /\ inst'[COLLAPSED] = inst[COLLAPSED] \cup marks
  BY <1>14, <1>15 DEF PARAM_GIVEN, NODE_MAPPING, COLLAPSED, TEMPERATURE
<1>18. \A p \in InstParams : inst'[inst_elem(p)] = init[p]
  <2> SUFFICES ASSUME NEW p \in InstParams PROVE inst'[inst_elem(p)] = init[p]
    OBVIOUS
  <2>1. /\ inst_elem(p) \in DOMAIN inst /\ inst_elem(p) \notin 0 .. 7
        /\ \A s \in C : cache_elem(s) # inst_elem(p)
    BY <1>1, <1>11 DEF FieldsApart
  <2> QED BY <1>10, <1>13, <1>16, <2>1
<1>19. ASSUME NEW s \in DOMAIN module.cached
       PROVE  inst'[cache_elem(s)] = IF s \in C THEN Cached(init)[s] ELSE inst[cache_elem(s)]
  <2>1. /\ cache_elem(s) \in DOMAIN inst /\ cache_elem(s) \notin 0 .. 7
        /\ \A p \in InstParams : inst_elem(p) # cache_elem(s)
        /\ s \notin C => \A u \in C : cache_elem(u) # cache_elem(s)
    BY <1>1, <1>11 DEF FieldsApart
  <2>2. CASE s \in C
    BY <1>13, <1>16, <2>1, <2>2
  <2>3. CASE s \notin C
    BY <1>10, <1>13, <1>16, <2>1, <2>3
  <2> QED BY <2>2, <2>3
<1>20. \A v \in SlotValues : inst'[slot_elem(v)] = inst[slot_elem(v)]
  <2> SUFFICES ASSUME NEW v \in SlotValues PROVE inst'[slot_elem(v)] = inst[slot_elem(v)]
    OBVIOUS
  <2>1. /\ slot_elem(v) \in DOMAIN inst /\ slot_elem(v) \notin 0 .. 7
        /\ \A p \in InstParams : inst_elem(p) # slot_elem(v)
        /\ \A s \in C : cache_elem(s) # slot_elem(v)
    BY <1>1, <1>11 DEF FieldsApart
  <2> QED BY <1>10, <1>13, <1>16, <2>1
<1>21. device_iParam' = [p \in InstParams |-> init[p]]
  BY <1>1, <1>2, <1>18, AfterCall DEF DeviceAfter
<1>22. device_reported' = Invalid(InstParams, init)
  <2>1. device_reported' = {ParamOf(id) : id \in errors'}
    BY <1>1, <1>2, AfterCall DEF DeviceAfter
  <2>2. \A p \in Invalid(InstParams, init) : ParamOf(Pos(module.inst, p)) = p
    BY <1>1 DEF Invalid, ParamsById
  <2> QED BY <1>6, <2>1, <2>2
<1>23. /\ DOMAIN load_cache(inst)' = DOMAIN load_cache(inst)
       /\ \A s \in DOMAIN load_cache(inst) :
            \/ load_cache(inst)'[s] = Cached(init)[s]
            \/ abort /\ load_cache(inst)'[s] = load_cache(inst)[s]
  <2>1. /\ load_cache(inst)' = [s \in DOMAIN module.cached |-> inst'[cache_elem(s)]]
        /\ load_cache(inst) = [s \in DOMAIN module.cached |-> inst[cache_elem(s)]]
    BY <1>1, <1>2, AfterCall, BeforeCall DEF DeviceAfter
  <2>2. ~abort => C = DOMAIN module.cached
    BY DEF C
  <2> QED BY <1>19, <2>1, <2>2
<1> DEFINE gone(h) == {<<module.hints[h].hi, module.hints[h].lo>>}
                        \cup {<<module.currents[c].unknown, None>> :
                                c \in {c \in DOMAIN module.currents : D!Vanishes(c, h)}}
<1>24. device_collapsed' = device_collapsed \cup UNION {gone(h) : h \in hints}
  <2>1. device_collapsed' = {pairs[i + 1] : i \in inst'[COLLAPSED]}
    BY <1>1, <1>2, AfterCall DEF DeviceAfter
  <2>2. \A h \in hints : {pairs[i + 1] : i \in hint(h)} = gone(h)
    BY <1>1, HintedPairs DEF hints, Hinted
  <2> HIDE DEF gone
  <2>3. {pairs[i + 1] : i \in marks} = UNION {gone(h) : h \in hints}
    BY <2>2 DEF marks
  <2> QED BY <1>17, <2>1, <2>3 DEF device_collapsed
<1>25. hints \in SUBSET Hinted(init) /\ (~abort => hints = Hinted(init))
  BY DEF hints
<1>26. /\ device_iGiven' = device_iGiven /\ device_mGiven' = device_mGiven
       /\ device_mParam' = device_mParam /\ inst[NODE_MAPPING]' = inst[NODE_MAPPING]
  BY <1>1, <1>2, <1>17, InstanceFrame
<1>27. D!Catch
  BY <1>1, <1>2, <1>20, CatchUp DEF SlotsCatchUp
<1>28. /\ D!All = AllParams /\ D!InstParams = InstParams
       /\ D!Init_(InstParams, given, val) = init
       /\ D!Invalid(InstParams, init) = Invalid(InstParams, init)
       /\ D!Hinted(init) = Hinted(init) /\ D!Cached(init) = Cached(init)
  BY <1>3, SameModule DEF DeviceTerms, D!Init_, Init_, D!Invalid, Invalid, D!UserParams, UserParams,
                          D!Hinted, Hinted, D!Cached, Cached
<1>29. D!DSetupInstance(t)
  <2>1. init = D!Init_(D!InstParams, device_iGiven \cup (device_mGiven \cap D!InstParams),
                       [p \in D!All |-> IF p \in device_iGiven THEN device_iParam[p]
                                                               ELSE device_mParam[p]])
    BY <1>7, <1>8, <1>28
  <2>2. \E H \in SUBSET D!Hinted(init) :
          /\ ~(module.fatal # None /\ init[module.fatal] = 2) => H = D!Hinted(init)
          /\ device_collapsed' = device_collapsed \cup UNION {gone(h) : h \in H}
    BY <1>24, <1>25, <1>28 DEF abort
  <2>3. inst[TEMPERATURE]' = t
    BY <1>14 DEF TEMPERATURE
  <2>4. /\ DOMAIN load_cache(inst)' = DOMAIN load_cache(inst)
        /\ \A s \in DOMAIN load_cache(inst) :
            \/ load_cache(inst)'[s] = D!Cached(init)[s]
            \/ /\ module.fatal # None /\ init[module.fatal] = 2
               /\ load_cache(inst)'[s] = load_cache(inst)[s]
    BY <1>23, <1>28 DEF abort
  <2>5. device_iParam' = [p \in D!InstParams |-> init[p]] /\ device_reported' = D!Invalid(D!InstParams, init)
    BY <1>21, <1>22, <1>28
  <2> QED BY <1>2, <1>26, <1>27, <2>1, <2>2, <2>3, <2>4, <2>5 DEF D!DSetupInstance
<1> QED BY <1>29 DEF D!DNext

\* eval stores what was asked for; what shares its slot is of the same evaluation.
LEMMA EvalOnDevice ==
  ASSUME DeviceInv, NEW F \in FlagSets, NEW solution \in Solutions, Eval(F, solution)
  PROVE  D!DNext
<1>1. module \in Modules /\ FieldsApart
  BY InstFields DEF DeviceInv, LayoutInv
<1>2. UNCHANGED <<module, eval_outputs, mod, errors>>
  BY DEF Eval
<1>3. PICK env : env = D!Env(device_iParam, device_mParam, inst[TEMPERATURE], load_cache(inst),
                             [n \in Unknowns |-> solution[inst[NODE_MAPPING][n]]])
  OBVIOUS
<1>4. env = [param |-> read_param(inst, mod), given |-> device_iGiven \cup device_mGiven,
             cache |-> load_cache(inst), volt |-> read_node_voltage(inst, solution)]
  <2>1. device_iParam = [p \in InstParams |-> inst[inst_elem(p)]]
        /\ device_mParam = [p \in AllParams |-> mod[model_any_elem(p)]]
    BY <1>1, BeforeCall
  <2>2. read_node_voltage(inst, solution) = [n \in Unknowns |-> solution[inst[NODE_MAPPING][n]]]
    BY DEF read_node_voltage
  <2> QED BY <1>1, <1>3, <2>1, <2>2, EnvIsMemory
<1> DEFINE V == {OutputValue(o) : o \in stored_outputs(F)}
<1>5. inst' = Update(inst, V, slot_elem, [v \in V |-> Value(v, env)])
  <2>1. env = [param |-> read_param(inst, mod),
               given |-> {p \in InstParams : inst_given(p)}
                           \cup {p \in InstParams \cup ModelParams : model_given(p)},
               cache |-> load_cache(inst), volt |-> read_node_voltage(inst, solution)]
    BY <1>1, <1>4, DeviceGiven DEF GivenById, AllParams
  <2> QED BY <2>1 DEF Eval
<1>6. V \subseteq SlotValues
  <2>1. ASSUME NEW o \in stored_outputs(F) PROVE o \in Outputs /\ HasSlot(o)
    BY DEF stored_outputs, HasSlot
  <2> QED BY <2>1 DEF SlotValues
<1>7. ASSUME NEW o \in stored_outputs(F) PROVE OutputValue(o) \in V
  OBVIOUS
<1> HIDE DEF V
<1>8. /\ \A v \in V : inst'[slot_elem(v)] = Value(v, env)
      /\ \A e \in DOMAIN inst : (\A v \in V : slot_elem(v) # e) => inst'[e] = inst[e]
  <2>1. ASSUME NEW v \in V PROVE inst'[slot_elem(v)] = Value(v, env)
    <3>1. \E x \in V : slot_elem(x) = slot_elem(v)
      OBVIOUS
    <3>2. slot_elem(v) \in DOMAIN inst
      BY <1>1, <1>6 DEF FieldsApart
    <3>3. (CHOOSE x \in V : slot_elem(x) = slot_elem(v)) = v
      BY <1>1, <1>6 DEF FieldsApart
    <3>4. inst'[slot_elem(v)]
            = [x \in V |-> Value(x, env)][CHOOSE x \in V : slot_elem(x) = slot_elem(v)]
      BY <1>5, <3>1, <3>2 DEF Update
    <3> QED BY <3>3, <3>4
  <2>2. \A e \in DOMAIN inst : (\A v \in V : slot_elem(v) # e) => inst'[e] = inst[e]
    BY <1>5 DEF Update
  <2> QED BY <2>1, <2>2
<1>9. \A v \in SlotValues : inst'[slot_elem(v)] = IF v \in V THEN Value(v, env) ELSE inst[slot_elem(v)]
  <2> SUFFICES ASSUME NEW v \in SlotValues
               PROVE  inst'[slot_elem(v)] = IF v \in V THEN Value(v, env) ELSE inst[slot_elem(v)]
    OBVIOUS
  <2>1. slot_elem(v) \in DOMAIN inst /\ (v \notin V => \A w \in V : slot_elem(w) # slot_elem(v))
    BY <1>1, <1>6 DEF FieldsApart
  <2> QED BY <1>8, <2>1
<1>10. /\ \A p \in InstParams : inst'[inst_elem(p)] = inst[inst_elem(p)]
       /\ \A s \in DOMAIN module.cached : inst'[cache_elem(s)] = inst[cache_elem(s)]
       /\ \A e \in 0 .. 7 : inst'[e] = inst[e]
  <2>1. \A p \in InstParams : inst_elem(p) \in DOMAIN inst /\ \A v \in V : slot_elem(v) # inst_elem(p)
    BY <1>1, <1>6 DEF FieldsApart
  <2>2. \A s \in DOMAIN module.cached : /\ cache_elem(s) \in DOMAIN inst
                                        /\ \A v \in V : slot_elem(v) # cache_elem(s)
    BY <1>1, <1>6 DEF FieldsApart
  <2>3. \A e \in 0 .. 7 : e \in DOMAIN inst /\ \A v \in V : slot_elem(v) # e
    BY <1>1, <1>6 DEF FieldsApart
  <2> QED BY <1>8, <2>1, <2>2, <2>3
<1>11. /\ inst'[PARAM_GIVEN] = inst[PARAM_GIVEN] /\ inst'[NODE_MAPPING] = inst[NODE_MAPPING]
       /\ inst'[COLLAPSED] = inst[COLLAPSED] /\ inst'[TEMPERATURE] = inst[TEMPERATURE]
  BY <1>10 DEF PARAM_GIVEN, NODE_MAPPING, COLLAPSED, TEMPERATURE
<1>12. /\ device_iGiven' = device_iGiven /\ device_mGiven' = device_mGiven
       /\ device_iParam' = device_iParam /\ device_mParam' = device_mParam
       /\ inst[NODE_MAPPING]' = inst[NODE_MAPPING] /\ inst[TEMPERATURE]' = inst[TEMPERATURE]
       /\ load_cache(inst)' = load_cache(inst)
       /\ device_collapsed' = device_collapsed /\ device_reported' = device_reported
  BY <1>1, <1>2, <1>10, <1>11, InstanceFrame
<1>13. read_param(inst', mod') = read_param(inst, mod) /\ load_cache(inst') = load_cache(inst)
  BY <1>2, <1>10, <1>11 DEF read_param, load_cache, cache_elem, inst_elem
<1>14. DOMAIN device_out' = Outputs /\ DOMAIN device_out = Outputs
  BY <1>2 DEF device_out, Outputs, Unknowns
<1>15. ASSUME NEW o \in Outputs
       PROVE  /\ device_out'[o] \in {device_out[o], Value(OutputValue(o), env)}
              /\ o.kind \in F \cup {"bound"} => device_out'[o] = Value(OutputValue(o), env)
  <2>1. PICK v : v = OutputValue(o)
    OBVIOUS
  <2>2. v.kind \in ValueKinds
    BY <2>1, <1>1, OutputKinds
  <2>3. o \in stored_outputs(F) => v \in V
    BY <1>7, <2>1
  <2>4. o \in stored_outputs(F)
          <=> CASE o.kind \in {"resist", "react", "limResist", "limReact"} -> o.kind \in F /\ v # F_ZERO
                [] o.kind = "bound" -> TRUE
                [] OTHER -> o.kind \in F /\ Calculated(v)
    BY <2>1 DEF stored_outputs
  <2>5. device_out[o] = Reads(o) /\ device_out'[o] = Reads(o)'
    BY <1>2, <1>14 DEF device_out
  <2>6. CASE o.kind \in Residuals
    <3>1. Reads(o) = read_slot(v, inst)
      BY <2>1, <2>6 DEF Reads, Residuals
    <3>2. Reads(o)' = read_slot(v, inst')
      <4>1. Reads(o)' = read_slot(OutputValue(o), inst)'
        BY <2>6 DEF Reads, Residuals
      <4>2. read_slot(OutputValue(o), inst)' = read_slot(v, inst')
        BY <1>2, <2>1 DEF OutputValue, read_slot, slot_elem, eval_output_slot_elem, NumInst
      <4> QED BY <4>1, <4>2
    <3>3. CASE v = F_ZERO
      <4>1. Value(v, env) = 0
        BY <3>3 DEF Value, F_ZERO, Const
      <4>2. Reads(o)' = 0
        BY <3>2, <3>3 DEF read_slot
      <4> QED BY <2>1, <2>5, <4>1, <4>2
    <3>4. CASE v # F_ZERO
      <4>1. v \in SlotValues
        BY <1>1, <2>1, <2>6, <3>4, ReadHasSlot
      <4>2. Reads(o) = inst[slot_elem(v)] /\ Reads(o)' = inst'[slot_elem(v)]
        BY <3>1, <3>2, <3>4 DEF read_slot
      <4>3. o.kind \in F \cup {"bound"} => o \in stored_outputs(F)
        BY <2>4, <2>6, <3>4 DEF Residuals
      <4> QED BY <1>9, <2>1, <2>3, <2>5, <4>1, <4>2, <4>3
    <3> QED BY <3>3, <3>4
  <2>7. CASE o.kind \notin Residuals
    <3>1. Reads(o) = load_eval_output(v, inst, mod)
      BY <2>1, <2>7 DEF Reads, Residuals
    <3>2. Reads(o)' = load_eval_output(v, inst', mod')
      <4>1. Reads(o)' = load_eval_output(OutputValue(o), inst, mod)'
        BY <2>7 DEF Reads, Residuals
      <4>2. OutputValue(o)' = v
        BY <1>2, <2>1 DEF OutputValue
      <4>3. /\ load_cache(inst)' = load_cache(inst') /\ read_param(inst, mod)' = read_param(inst', mod')
            /\ slot_elem(v') = slot_elem(v)
        BY <1>2 DEF load_cache, read_param, cache_slot_elem, NumInst, slot_elem,
                    eval_output_slot_elem, InstParams, ModelParams
      <4>4. inst'[slot_elem(v)'] = inst'[slot_elem(v)]
        BY <1>2 DEF NumInst, slot_elem, eval_output_slot_elem
      <4> QED BY <4>1, <4>2, <4>3, <4>4 DEF load_eval_output
    <3>3. CASE D!Static(v)
      <4>1. v.kind \in {"const", "param", "cache"}
        BY <3>3, SameModule DEF DeviceTerms
      <4>2. load_eval_output(v, inst', mod') = Value(v, env)
        BY <1>4, <1>13, <4>1 DEF load_eval_output, Value
      <4> QED BY <2>1, <2>5, <3>2, <4>2
    <3>4. CASE ~D!Static(v)
      <4>1. v \in SlotValues /\ Calculated(v)
        BY <1>1, <2>1, <3>4, ReadHasSlot
      <4>2. Reads(o) = inst[slot_elem(v)] /\ Reads(o)' = inst'[slot_elem(v)]
        BY <3>1, <3>2, <4>1 DEF load_eval_output, Calculated
      <4>3. o.kind \in F \cup {"bound"} => o \in stored_outputs(F)
        BY <2>4, <2>7, <4>1 DEF Residuals
      <4> QED BY <1>9, <2>1, <2>3, <2>5, <4>1, <4>2, <4>3
    <3> QED BY <3>3, <3>4
  <2> QED BY <2>6, <2>7
<1>16. D!DEval(F, solution)
  <2>1. /\ D!Outputs = Outputs /\ D!Unknowns = Unknowns
        /\ \A o : D!OutputValue(o) = OutputValue(o)
        /\ \A v, e : D!Value(v, e) = Value(v, e)
    BY SameModule DEF DeviceTerms
  <2> DEFINE now(o) == D!Value(D!OutputValue(o),
                               D!Env(device_iParam, device_mParam, inst[TEMPERATURE], load_cache(inst),
                                     [n \in D!Unknowns |-> solution[inst[NODE_MAPPING][n]]]))
  <2>2. \A o : now(o) = Value(OutputValue(o), env)
    BY <1>3, <2>1
  <2> HIDE DEF now
  <2>3. \A o \in D!Outputs : IF o.kind \in F \cup {"bound"} THEN device_out'[o] = now(o)
                             ELSE device_out'[o] \in {device_out[o], now(o)}
    BY <1>15, <2>1, <2>2
  <2> QED BY <1>2, <1>12, <1>14, <2>1, <2>3 DEF D!DEval, now
<1> QED BY <1>16 DEF D!DNext

\* In zeroed memory nothing is given, and every output reads zero or its constant.
LEMMA InitOnDevice == LibraryInit => D!DInit
<1> SUFFICES ASSUME LibraryInit PROVE D!DInit
  OBVIOUS
<1>1. module \in Modules /\ FieldsApart /\ ModelFieldsApart /\ ParamsById
  BY InitDevice, InstFields, ModelFields, ParamIds DEF LibraryInit
<1>2. inst = NewInstance /\ mod = NewModel /\ errors = {}
  BY DEF LibraryInit
<1>3. /\ inst[PARAM_GIVEN] = [w \in 0 .. word_cnt(NumInst) - 1 |-> {}]
      /\ inst[NODE_MAPPING] = [n \in Unknowns |-> 0] /\ inst[COLLAPSED] = {}
      /\ inst[TEMPERATURE] = 0
  <2>1. /\ PARAM_GIVEN \in DOMAIN inst /\ NODE_MAPPING \in DOMAIN inst
        /\ COLLAPSED \in DOMAIN inst /\ TEMPERATURE \in DOMAIN inst
    BY <1>1 DEF FieldsApart, PARAM_GIVEN, NODE_MAPPING, COLLAPSED, TEMPERATURE
  <2> QED BY <1>2, <2>1 DEF NewInstance, PARAM_GIVEN, JACOBIAN_PTR_RESIST, JACOBIAN_PTR_REACT,
                           NODE_MAPPING, COLLAPSED, TEMPERATURE
<1>4. \A e \in DOMAIN inst : e \notin 0 .. 7 => inst[e] = 0
  BY <1>2 DEF NewInstance, PARAM_GIVEN, JACOBIAN_PTR_RESIST, JACOBIAN_PTR_REACT, NODE_MAPPING,
              COLLAPSED
<1>5. /\ mod[PARAM_GIVEN] = [w \in 0 .. word_cnt(NumInst + NumModel) - 1 |-> {}]
      /\ \A e \in DOMAIN mod : e # PARAM_GIVEN => mod[e] = 0
  BY <1>1, <1>2 DEF NewModel, ModelFieldsApart
<1>6. device_iGiven = {} /\ device_mGiven = {}
  BY <1>1, <1>3, <1>5, BeforeCall DEF is_set
<1>7. /\ device_iParam = [p \in InstParams |-> 0] /\ device_mParam = [p \in AllParams |-> 0]
      /\ load_cache(inst) = [s \in DOMAIN module.cached |-> 0]
  BY <1>1, <1>4, <1>5, BeforeCall DEF FieldsApart, ModelFieldsApart
<1>8. device_collapsed = {} /\ device_reported = {}
  BY <1>2, <1>3 DEF device_collapsed, device_reported
<1>9. DOMAIN device_out = Outputs
  BY DEF device_out
<1>10. ASSUME NEW o \in Outputs
       PROVE  device_out[o] = 0 \/ (OutputValue(o).kind = "const" /\ device_out[o] = OutputValue(o).of)
  <2>1. PICK v : v = OutputValue(o)
    OBVIOUS
  <2>2. device_out[o] = Reads(o)
    BY DEF device_out
  <2>3. \A w \in SlotValues : inst[slot_elem(w)] = 0
    BY <1>1, <1>4 DEF FieldsApart
  <2>4. CASE o.kind \in Residuals
    <3>1. Reads(o) = read_slot(v, inst)
      BY <2>1, <2>4 DEF Reads, Residuals
    <3>2. v # F_ZERO => v \in SlotValues
      BY <1>1, <2>1, <2>4, ReadHasSlot
    <3> QED BY <2>2, <2>3, <3>1, <3>2 DEF read_slot
  <2>5. CASE o.kind \notin Residuals
    <3>1. Reads(o) = load_eval_output(v, inst, mod)
      BY <2>1, <2>5 DEF Reads, Residuals
    <3>2. v \in MirValues(module) /\ v.kind \in ValueKinds
      BY <1>1, <2>1, OutputKinds
    <3>3. CASE v.kind = "const"
      BY <2>1, <2>2, <3>1, <3>3 DEF load_eval_output
    <3>4. CASE v.kind = "param"
      <4>1. v.of \in AllParams \cup {Temp}
        BY <3>2, <3>4 DEF MirValues, AllParams, InstParams, ModelParams
      <4>2. \A p \in AllParams \cup {Temp} : read_param(inst, mod)[p] = 0
        <5>1. \A p \in InstParams : inst[nth_param_elem(Pos(module.inst, p))] = 0
          BY <1>1, <1>4 DEF FieldsApart, inst_elem
        <5>2. \A p \in AllParams : p \notin InstParams => mod[model_nth_param_elem(Pos(module.model, p))] = 0
          BY <1>1, <1>5 DEF ModelFieldsApart, model_any_elem, model_elem
        <5> QED BY <1>3, <5>1, <5>2 DEF read_param, AllParams
      <4> QED BY <2>2, <3>1, <3>4, <4>1, <4>2 DEF load_eval_output
    <3>5. CASE v.kind = "cache"
      <4>1. v.of \in DOMAIN module.cached
        BY <3>2, <3>5 DEF MirValues
      <4> QED BY <1>7, <2>2, <3>1, <3>5, <4>1 DEF load_eval_output
    <3>6. CASE v.kind \notin {"const", "param", "cache"}
      <4>1. v \in SlotValues
        BY <1>1, <2>1, <3>2, <3>6, ReadHasSlot DEF Calculated, ValueKinds
      <4> QED BY <2>2, <2>3, <3>1, <3>6, <4>1 DEF load_eval_output
    <3> QED BY <3>3, <3>4, <3>5, <3>6
  <2> QED BY <2>4, <2>5
<1> QED BY <1>1, <1>3, <1>6, <1>7, <1>8, <1>9, <1>10, SameModule DEF D!DInit, DeviceTerms

\* What changes nothing of the library changes nothing of the device.
LEMMA StutterOnDevice == UNCHANGED libraryVars => UNCHANGED D!dvars
<1> SUFFICES ASSUME UNCHANGED libraryVars PROVE UNCHANGED D!dvars
  OBVIOUS
<1>1. UNCHANGED <<module, eval_outputs, inst, mod, errors>>
  BY DEF libraryVars
<1>2. UNCHANGED <<device_iGiven, device_mGiven>>
  BY <1>1 DEF device_iGiven, device_mGiven, Ids, ParamOf, NumInst, NumModel, param_opvar,
              given_flag_instance, given_flag_model, inst_given, model_given, is_set, model_inst_bit,
              InstParams
<1>3. UNCHANGED <<device_iParam, device_mParam, load_cache(inst), device_collapsed, device_reported>>
  BY <1>1 DEF device_iParam, device_mParam, inst_elem, model_any_elem, model_copy, model_elem,
              model_nth_inst_param_elem, NumInst, NumModel, InstParams, ModelParams, load_cache,
              cache_slot_elem, device_collapsed, pairs, hint_pair, current_pair, source_pair,
              device_reported, ParamOf, param_opvar
<1>4. UNCHANGED device_out
  BY <1>1 DEF device_out, Outputs, Unknowns, Reads, OutputValue, read_slot, load_eval_output,
              read_param, load_cache, slot_elem, eval_output_slot_elem, cache_slot_elem,
              InstParams, ModelParams, NumInst
<1> QED BY <1>1, <1>2, <1>3, <1>4 DEF D!dvars

\* One case for each call of the library.
LEMMA StepOnDevice == DeviceInv /\ [LibraryNext]_libraryVars => [D!DNext]_(D!dvars)
<1> SUFFICES ASSUME DeviceInv, [LibraryNext]_libraryVars PROVE D!DNext \/ UNCHANGED D!dvars
  OBVIOUS
<1>1. ASSUME NEW id \in Ids, NEW instance \in BOOLEAN, NEW n \in Numbers, AccessSet(id, instance, n)
      PROVE  D!DNext
  <2>1. CASE instance = TRUE
    <3>1. AccessSet(id, TRUE, n)
      BY <1>1, <2>1
    <3> QED BY <3>1, AccessOnInstance
  <2>2. CASE instance = FALSE
    <3>1. AccessSet(id, FALSE, n)
      BY <1>1, <2>2
    <3> QED BY <3>1, AccessOnModel
  <2> QED BY <2>1, <2>2
<1>2. ASSUME NEW i \in DOMAIN module.opvars, AccessOpvar(i) PROVE D!DNext
  BY <1>2, OpvarOnDevice
<1>3. ASSUME SetupModel PROVE D!DNext
  BY <1>3, SetupModelOnDevice
<1>4. ASSUME NEW t \in Numbers, NEW k \in 0 .. Len(module.hints),
             NEW reached \in SUBSET DOMAIN module.cached, SetupInstance(t, k, reached)
      PROVE  D!DNext
  BY <1>4, SetupInstanceOnDevice
<1>5. ASSUME Bind PROVE D!DNext
  BY <1>5, BindOnDevice
<1>6. ASSUME NEW F \in FlagSets, NEW solution \in Solutions, Eval(F, solution) PROVE D!DNext
  BY <1>6, EvalOnDevice
<1>7. CASE UNCHANGED libraryVars
  BY <1>7, StutterOnDevice
<1> QED BY <1>1, <1>2, <1>3, <1>4, <1>5, <1>6, <1>7 DEF LibraryNext, Ids

\* The library is the device, for every set of modules: whatever a simulator
\* calls, it reads what the device would hold (access, setup_model,
\* setup_instance, eval and the loads).
THEOREM LibraryIsDevice == LibrarySpec => RefinesDevice
<1>1. LibraryInit => D!DInit
  BY InitOnDevice
<1>2. DeviceInv /\ [LibraryNext]_libraryVars => [D!DNext]_(D!dvars)
  BY StepOnDevice
<1>3. LibrarySpec => []DeviceInv
  BY InitDevice, StepDevice, PTL DEF LibrarySpec
<1> QED BY <1>1, <1>2, <1>3, PTL DEF LibrarySpec, RefinesDevice, D!Device

=============================================================================
