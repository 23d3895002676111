---------------------------- MODULE BatchCompile ----------------------------
(***************************************************************************)
(* compile() of openvaf/openvaf/src/lib.rs, run by processes that share a  *)
(* directory: the cache lookup of batch mode, the object files that the    *)
(* code generation tasks (openvaf/osdi/src/lib.rs) write beside the        *)
(* library, the linker run (openvaf/linker/src/lib.rs) and the removal of  *)
(* the object files.                                                       *)
(*                                                                         *)
(* A path is a stem and an extension. The stem of a cached library is a    *)
(* digest of the preprocessed source, the defines, the lint levels and the *)
(* version: the source itself, as digests do not collide. What else        *)
(* decides the output (target, cpu, optimisation level, codegen options)   *)
(* is the request's target. A file that is being written is "partial"; a   *)
(* file's "of" are the requests whose code it holds.                       *)
(***************************************************************************)
EXTENDS Naturals, Sequences

CONSTANTS Proc,
          Source,         \* compilation units: preprocessed source and defines
          Broken,         \* the ones with errors
          Target,         \* what decides the output beside the source
          ImportTargets,  \* the targets that need an import library
          Output,         \* paths given by --output
          Objects,        \* extensions of the object files
          MaxRuns         \* bound on the processes started

\* The extensions of the object files differ from each other and from that of a
\* cached library. Nobody asks for an output named like a library of the cache, or
\* like an object file (--output x.o would make library and object one file).
ASSUME BatchCompileAssumption ==
  /\ Broken \subseteq Source /\ ImportTargets \subseteq Target
  /\ Objects \in Seq(STRING \ {"osdi"})
  /\ \A j, k \in 1 .. Len(Objects) : Objects[j] = Objects[k] => j = k
  /\ \A o \in Output : o[1] \notin Source /\ \A k \in 1 .. Len(Objects) : o[2] # Objects[k]
  /\ MaxRuns \in Nat

VARIABLES orderly,     \* the environment, which does not change: processes with the
                       \* same library take turns, none needs the import library
                       \* that all runs of a directory share, and none is killed
          fs,          \* the contents of every path
          import_lib,  \* whether __openvaf__import.lib exists
          st,          \* the state of every process
          runs         \* processes started

vars == <<orderly, fs, import_lib, st, runs>>

Exts    == {Objects[k] : k \in 1 .. Len(Objects)}
Path    == ((Source \cup {o[1] : o \in Output}) \X (Exts \cup {"osdi"})) \cup Output
Request == [source : Source, target : Target, batch : BOOLEAN, out : Output, dry : BOOLEAN]

File(kind, of) == [kind |-> kind, of |-> of]
Absent  == File("absent", {})
Partial == File("partial", {})

\* The library of a request: cache_dir.join(cache::file_name(..)), or the path
\* of --output.
lib_file(r) == IF r.batch THEN <<r.source, "osdi">> ELSE r.out

\* Mutant: the object files of all libraries share a stem.
obj_file_Shared(r, ext) == <<(CHOOSE o \in Output : TRUE)[1], ext>>

\* dst.with_extension(ext)
obj_file(r, ext) == <<lib_file(r)[1], ext>>

\* What the code that r asks for is made of.
Code(r) == <<r.source, r.target>>

\* The library of process p, and its k-th object file.
Lib(p)    == lib_file(st[p].req)
Obj(p, k) == obj_file(st[p].req, Objects[k])

Fresh(r) == [pc |-> "lookup", req |-> r, opened |-> {}, emitted |-> {}, parts |-> {},
             removed |-> 0, result |-> "none"]

NoRequest == CHOOSE r \in Request : TRUE

Running(p) == st[p].pc # "ended"

Init ==
  /\ orderly \in BOOLEAN
  /\ fs = [f \in Path |-> Absent] /\ import_lib = FALSE
  /\ st = [p \in Proc |-> [Fresh(NoRequest) EXCEPT !.pc = "ended"]] /\ runs = 0

Goto(p, l) == st' = [st EXCEPT ![p].pc = l]

\* The process ends: compile returned res.
Return(p, res) ==
  st' = [st EXCEPT ![p] = [Fresh(NoRequest) EXCEPT !.pc = "ended", !.result = res]]

-----------------------------------------------------------------------------
\* openvaf is called with request r.
Start(p, r) ==
  /\ ~Running(p) /\ runs < MaxRuns
  /\ orderly => /\ \A q \in Proc : Running(q) => Lib(q)[1] # lib_file(r)[1]
                /\ r.target \notin ImportTargets
  /\ st' = [st EXCEPT ![p] = Fresh(r)] /\ runs' = runs + 1
  /\ UNCHANGED <<fs, import_lib>>

\* Mutant: batch mode trusts the name alone.
CacheHit_NoCheck(p) ==
  /\ st[p].pc = "lookup" /\ st[p].req.batch
  /\ Return(p, "compiled")
  /\ UNCHANGED <<fs, import_lib, runs>>

CacheHit(p) ==
  /\ st[p].pc = "lookup" /\ st[p].req.batch
  /\ fs[Lib(p)] # Absent
  /\ Return(p, "compiled")
  /\ UNCHANGED <<fs, import_lib, runs>>

\* Mutant: an existing library is built again.
CacheMiss_Always(p) ==
  /\ st[p].pc = "lookup"
  /\ Goto(p, "analyse")
  /\ UNCHANGED <<fs, import_lib, runs>>

CacheMiss(p) ==
  /\ st[p].pc = "lookup" /\ (st[p].req.batch => fs[Lib(p)] = Absent)
  /\ Goto(p, "analyse")
  /\ UNCHANGED <<fs, import_lib, runs>>

\* collect_modules reports the errors, or the request is a dry run, or the
\* code generation tasks start.
Analyse(p) ==
  /\ st[p].pc = "analyse"
  /\ \/ st[p].req.source \in Broken /\ Return(p, "diagnostic")
     \/ st[p].req.source \notin Broken /\ st[p].req.dry /\ Return(p, "compiled")
     \/ st[p].req.source \notin Broken /\ ~st[p].req.dry /\ Goto(p, "emit")
  /\ UNCHANGED <<fs, import_lib, runs>>

\* emit_object of one task creates its file, ...
OpenObject(p, k) ==
  /\ st[p].pc = "emit" /\ k \notin st[p].opened
  /\ fs' = [fs EXCEPT ![Obj(p, k)] = Partial]
  /\ st' = [st EXCEPT ![p].opened = @ \cup {k}]
  /\ UNCHANGED <<import_lib, runs>>

\* ... and ends with the whole object.
CloseObject(p, k) ==
  /\ st[p].pc = "emit" /\ k \in st[p].opened \ st[p].emitted
  /\ fs' = [fs EXCEPT ![Obj(p, k)] = File("object", {Code(st[p].req)})]
  /\ st' = [st EXCEPT ![p].emitted = @ \cup {k}]
  /\ UNCHANGED <<import_lib, runs>>

\* The scope ends with its last task; link creates the import library.
TasksDone(p) ==
  /\ st[p].pc = "emit" /\ st[p].emitted = 1 .. Len(Objects)
  /\ Goto(p, "link")
  /\ import_lib' = (import_lib \/ st[p].req.target \in ImportTargets)
  /\ UNCHANGED <<fs, runs>>

\* The linker reads its inputs, ...
ReadObjects(p) ==
  /\ st[p].pc = "link"
  /\ \A k \in 1 .. Len(Objects) : fs[Obj(p, k)].kind = "object"
  /\ st[p].req.target \in ImportTargets => import_lib
  /\ st' = [st EXCEPT ![p].pc = "write",
                      ![p].parts = UNION {fs[Obj(p, k)].of : k \in 1 .. Len(Objects)}]
  /\ fs' = [fs EXCEPT ![Lib(p)] = Partial]
  /\ UNCHANGED <<import_lib, runs>>

\* ... and writes the library.
WriteLibrary(p) ==
  /\ st[p].pc = "write"
  /\ fs' = [fs EXCEPT ![Lib(p)] = File("library", st[p].parts)]
  /\ Goto(p, "linked")
  /\ UNCHANGED <<import_lib, runs>>

\* The linker rejects a missing or partial input, or fails for reasons of its
\* own: link removes the import library and compile returns the error.
LinkFails(p) ==
  /\ st[p].pc = "link"
  /\ \/ /\ \E k \in 1 .. Len(Objects) : fs[Obj(p, k)].kind # "object"
        /\ Return(p, "bad_input")
     \/ /\ st[p].req.target \in ImportTargets /\ ~import_lib
        /\ Return(p, "bad_input")
     \/ Return(p, "link_failed")
  /\ import_lib' = (import_lib /\ st[p].req.target \notin ImportTargets)
  /\ UNCHANGED <<fs, runs>>

\* link removes the import library, which must be there.
RemoveImportLib(p) ==
  /\ st[p].pc = "linked"
  /\ \/ st[p].req.target \in ImportTargets /\ ~import_lib /\ Return(p, "cleanup_failed")
     \/ (st[p].req.target \in ImportTargets => import_lib) /\ Goto(p, "clean")
  /\ import_lib' = (import_lib /\ st[p].req.target \notin ImportTargets)
  /\ UNCHANGED <<fs, runs>>

\* Mutant: the last object file stays.
Clean_KeepsLast(p) ==
  /\ st[p].pc = "clean"
  /\ LET k == st[p].removed + 1
     IN  \/ /\ k >= Len(Objects) /\ Return(p, "compiled") /\ UNCHANGED fs
         \/ /\ k < Len(Objects)
            /\ fs[Obj(p, k)] # Absent
            /\ fs' = [fs EXCEPT ![Obj(p, k)] = Absent]
            /\ st' = [st EXCEPT ![p].removed = k]
         \/ /\ k < Len(Objects) /\ fs[Obj(p, k)] = Absent
            /\ Return(p, "cleanup_failed") /\ UNCHANGED fs
  /\ UNCHANGED <<import_lib, runs>>

\* The object files are removed one after the other.
Clean(p) ==
  /\ st[p].pc = "clean"
  /\ LET k == st[p].removed + 1
     IN  \/ /\ k > Len(Objects) /\ Return(p, "compiled") /\ UNCHANGED fs
         \/ /\ k <= Len(Objects)
            /\ fs[Obj(p, k)] # Absent
            /\ fs' = [fs EXCEPT ![Obj(p, k)] = Absent]
            /\ st' = [st EXCEPT ![p].removed = k]
         \/ /\ k <= Len(Objects) /\ fs[Obj(p, k)] = Absent
            /\ Return(p, "cleanup_failed") /\ UNCHANGED fs
  /\ UNCHANGED <<import_lib, runs>>

\* The process is killed, or a task panics because its file cannot be written.
Crash(p) ==
  /\ ~orderly /\ Running(p)
  /\ Return(p, "killed")
  /\ UNCHANGED <<fs, import_lib, runs>>

Next ==
  /\ UNCHANGED orderly
  /\ \E p \in Proc :
       \/ \E r \in Request : Start(p, r)
       \/ CacheHit(p) \/ CacheMiss(p) \/ Analyse(p)
       \/ \E k \in 1 .. Len(Objects) : OpenObject(p, k) \/ CloseObject(p, k)
       \/ TasksDone(p) \/ ReadObjects(p) \/ WriteLibrary(p) \/ LinkFails(p)
       \/ RemoveImportLib(p) \/ Clean(p) \/ Crash(p)

Spec == Init /\ [][Next]_vars

-----------------------------------------------------------------------------
(* What compile promises.                                                  *)

\* This step is the one in which compile of p returns success.
Succeeds(p) ==
  Running(p) /\ ~Running(p)' /\ st'[p].result = "compiled" /\ ~st[p].req.dry

\* When the environment is orderly, the library that compile reports exists, is
\* whole, and holds the code of the source that was compiled and of no other,
\* whatever the other processes of the directory do meanwhile.
ReportedLibraryUsable ==
  [][\A p \in Proc : (orderly /\ Succeeds(p)) =>
       LET lib == fs'[Lib(p)]
       IN  lib.kind = "library" /\ \A c \in lib.of : c[1] = st[p].req.source]_vars

\* Then a run that links leaves none of its object files behind.
NoObjectLeft ==
  [][\A p \in Proc : (orderly /\ Succeeds(p) /\ st[p].pc = "clean") =>
       \A k \in 1 .. Len(Objects) : fs'[Obj(p, k)] = Absent]_vars

\* Then processes do not disturb each other: the linker finds the objects its
\* process has written, and so does their removal.
NoInterference ==
  orderly => \A p \in Proc : st[p].result \notin {"bad_input", "cleanup_failed"}

\* Then a library in the cache is never touched again: a simulator that has
\* loaded it keeps what it has loaded.
CachedLibraryStable ==
  [][\A s \in Source : (orderly /\ fs[<<s, "osdi">>].kind = "library") =>
       fs'[<<s, "osdi">>] = fs[<<s, "osdi">>]]_vars

\* In any environment a whole library in the cache holds code of the source its
\* name stands for and of no other, even when processes with the same library
\* run at once, or are killed: a name never resolves to another model.
CachedLibraryMatchesKey ==
  \A s \in Source : fs[<<s, "osdi">>].kind = "library" =>
    \A c \in fs[<<s, "osdi">>].of : c[1] = s

=============================================================================
