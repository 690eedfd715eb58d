---------------------------- MODULE FallbackStore ----------------------------
(***************************************************************************)
(* The store of the prompts a caller hears when the pipeline fails: files on  *)
(* disk with a decode cache, uploaded and deleted by operators while calls    *)
(* resolve them.  System calls and locked sections are steps of their own.    *)
(*                                                                         *)
(* A file's content is the upload its first half comes from and the one its   *)
(* rest comes from: writes to one inode mix.  A file's time and size change   *)
(* with every write to it, and no two inodes share them.                     *)
(*                                                                         *)
(* Its Init, Next, Spec and TypeOK are called Prompt..., so that one module   *)
(* can extend it and TurnMachine, whose calls play these prompts.             *)
(***************************************************************************)
EXTENDS Naturals, Sequences, Functions

CONSTANTS Dirs,       \* directories of tenants
          Default,    \* the one whose prompts every tenant inherits
          Codes,      \* codes of the errors calls fail with
          Slots,      \* <<directory, scenario>> that are uploaded and deleted
          Puts,       \* PUT /v1/tenant/fallback/{scenario} requests
          Deletes,    \* DELETE requests
          Callers,    \* those who resolve prompts: failing calls, operators' GETs
          None

Scenarios == {"ai_unavailable", "credits_exhausted", "timeout", "system_busy",
              "internal_error", "generic"}
GatewayCodes == {"auth", "rate_limit", "unavailable", "timeout", "unsupported",
                 "bad_request", "bad_audio", "internal", "cancelled", "no_hit"}
Paths == Dirs \X Scenarios

ASSUME FallbackAssumption ==
  /\ Default \in Dirs
  /\ Codes \subseteq GatewayCodes
  /\ Slots \subseteq Paths
  /\ Puts \cap Paths = {}
  /\ None \notin Puts \cup Paths \cup ((Puts \cup Paths) \X Nat)

\* A prompt that was there at the start is named by its path.
Uploads == Puts \cup Paths
Contents == [head : Uploads \cup {None}, tail : Uploads \cup {None}]
Blank == [head |-> None, tail |-> None]
Full(u) == [head |-> u, tail |-> u]

VARIABLES file,   \* the inode at each path
          tmp,    \* the inode at each path's ".tmp"
          data,   \* content of each inode
          stamp,  \* its time and size
          cache,  \* decoded prompts by path
          put, del,
          res,    \* where each caller's Resolve is
          clash,  \* history: paths two uploads wrote at once
          live,   \* history: what a path held while it was being loaded
          gap     \* history: candidates that were missing during a Resolve

diskVars == <<file, tmp, data, stamp>>
promptVars == <<file, tmp, data, stamp, cache, put, del, res, clash, live, gap>>

\* The scenario whose prompt an error calls for.
Classify(code) ==
  CASE code \in {"auth", "rate_limit"} -> "credits_exhausted"
    [] code = "unavailable" -> "ai_unavailable"
    [] code = "timeout" -> "timeout"
    [] code \in {"unsupported", "bad_request", "bad_audio"} -> "system_busy"
    [] OTHER -> "internal_error"

\* The order in which a prompt is widened.
Candidates(dir, sc) ==
  << <<dir, sc>>, <<dir, "generic">>, <<Default, sc>>, <<Default, "generic">> >>

\* A truncated file decodes to as much sound as there is.
Decodes(c) == c.head # None

Idle == [pc |-> "idle", cands |-> <<>>, i |-> 1, seen |-> None, got |-> Blank]

\* The store opens on whatever the directory holds.
PromptInit ==
  /\ \E there \in SUBSET Slots :
       file = [p \in Paths |-> IF p \in there THEN p ELSE None]
  /\ tmp = [p \in Paths |-> None]
  /\ data = [n \in Uploads |-> IF n \in Paths THEN Full(n) ELSE Blank]
  /\ stamp = [n \in Uploads |-> 0]
  /\ cache = [p \in Paths |-> [seen |-> None, wav |-> Blank]]
  /\ put \in [Puts -> [pc : {"new"}, slot : Slots, fd : {None}]]
  /\ del \in [Deletes -> [pc : {"new"}, slot : Slots]]
  /\ res = [c \in Callers |-> Idle]
  /\ clash = {}
  /\ live = [c \in Callers |-> {}]
  /\ gap = [c \in Callers |-> {}]

-----------------------------------------------------------------------------
\* Put.
Slot(u) == put[u].slot
PutGoes(u, pc) == put' = [put EXCEPT ![u].pc = pc]
Writing(u) == put[u].pc \in {"head", "tail", "rename", "remove"}

\* Empty, too large, too long or not a 16-bit PCM WAVE file.
Refuse(u) ==
  /\ put[u].pc = "new"
  /\ PutGoes(u, "refused")
  /\ UNCHANGED <<diskVars, cache, del, res, clash>>

\* A seeded slip: the prompt is written where it is played from.
OpenInPlace(u) ==
  /\ put[u].pc = "new"
  /\ LET n == IF file[Slot(u)] = None THEN u ELSE file[Slot(u)] IN
       /\ file' = [file EXCEPT ![Slot(u)] = n]
       /\ data' = [data EXCEPT ![n] = Blank]
       /\ stamp' = [stamp EXCEPT ![n] = @ + 1]
       /\ put' = [put EXCEPT ![u].pc = "head", ![u].fd = n]
  /\ UNCHANGED <<tmp, cache, del, res, clash>>

\* WriteFile opens the temporary file, which it empties if it is there.
OpenTmp(u) ==
  /\ put[u].pc = "new"
  /\ LET n == IF tmp[Slot(u)] = None THEN u ELSE tmp[Slot(u)] IN
       /\ tmp' = [tmp EXCEPT ![Slot(u)] = n]
       /\ data' = [data EXCEPT ![n] = Blank]
       /\ stamp' = [stamp EXCEPT ![n] = @ + 1]
       /\ put' = [put EXCEPT ![u].pc = "head", ![u].fd = n]
  /\ clash' = IF \E v \in Puts \ {u} : Slot(v) = Slot(u) /\ Writing(v)
              THEN clash \cup {Slot(u)} ELSE clash
  /\ UNCHANGED <<file, cache, del, res>>

WriteHead(u) ==
  /\ put[u].pc = "head"
  /\ data' = [data EXCEPT ![put[u].fd].head = u]
  /\ stamp' = [stamp EXCEPT ![put[u].fd] = @ + 1]
  /\ PutGoes(u, "tail")
  /\ UNCHANGED <<file, tmp, cache, del, res, clash>>

WriteTail(u) ==
  /\ put[u].pc = "tail"
  /\ data' = [data EXCEPT ![put[u].fd].tail = u]
  /\ stamp' = [stamp EXCEPT ![put[u].fd] = @ + 1]
  /\ put' = [put EXCEPT ![u].pc = "rename", ![u].fd = None]
  /\ UNCHANGED <<file, tmp, cache, del, res, clash>>

\* The disk is full: what is written stays in the temporary file.
WriteFails(u) ==
  /\ put[u].pc \in {"head", "tail"}
  /\ put' = [put EXCEPT ![u].pc = "failed", ![u].fd = None]
  /\ UNCHANGED <<diskVars, cache, del, res, clash>>

Rename(u) ==
  /\ put[u].pc = "rename"
  /\ IF tmp[Slot(u)] = None
     THEN PutGoes(u, "remove") /\ UNCHANGED <<file, tmp>>
     ELSE /\ file' = [file EXCEPT ![Slot(u)] = tmp[Slot(u)]]
          /\ tmp' = [tmp EXCEPT ![Slot(u)] = None]
          /\ PutGoes(u, "drop")
  /\ UNCHANGED <<data, stamp, cache, del, res, clash>>

\* The temporary file may by now be another upload's.
RemoveTmp(u) ==
  /\ put[u].pc = "remove"
  /\ tmp' = [tmp EXCEPT ![Slot(u)] = None]
  /\ PutGoes(u, "failed")
  /\ UNCHANGED <<file, data, stamp, cache, del, res, clash>>

NotCached == [seen |-> None, wav |-> Blank]

DropCached(u) ==
  /\ put[u].pc = "drop"
  /\ cache' = [cache EXCEPT ![Slot(u)] = NotCached]
  /\ PutGoes(u, "done")
  /\ UNCHANGED <<diskVars, del, res, clash>>

PutStep(u) ==
  \/ Refuse(u) \/ OpenTmp(u) \/ WriteHead(u) \/ WriteTail(u) \/ WriteFails(u)
  \/ Rename(u) \/ RemoveTmp(u) \/ DropCached(u)

\* Delete: the cache first, then the file.
DeleteCached(d) ==
  /\ del[d].pc = "new"
  /\ cache' = [cache EXCEPT ![del[d].slot] = NotCached]
  /\ del' = [del EXCEPT ![d].pc = "remove"]
  /\ UNCHANGED <<diskVars, put, res, clash>>

DeleteFile(d) ==
  /\ del[d].pc = "remove"
  /\ file' = [file EXCEPT ![del[d].slot] = None]
  /\ del' = [del EXCEPT ![d].pc = "done"]
  /\ UNCHANGED <<tmp, data, stamp, cache, put, res, clash>>

-----------------------------------------------------------------------------
\* Resolve, and load for each candidate.
Path(c) == res[c].cands[res[c].i]

Resolve(c, cands) ==
  /\ res[c].pc \in {"idle", "served", "silent"}
  /\ res' = [res EXCEPT ![c] = [Idle EXCEPT !.pc = "stat", !.cands = cands]]
  /\ UNCHANGED <<diskVars, cache, put, del, clash>>

\* FailCall's playFallback for a tenant with a directory of its own, a GET of a
\* scenario, and List, which loads path by path.
PlayPrompt(c) ==
  \E dir \in Dirs \ {Default}, code \in Codes : Resolve(c, Candidates(dir, Classify(code)))
GetFallback(c) == \E s \in Slots : Resolve(c, Candidates(s[1], s[2]))
List(c) == \E s \in Slots : Resolve(c, <<s>>)

Widened(c) ==
  IF res[c].i = Len(res[c].cands)
  THEN [res EXCEPT ![c].pc = "silent"]
  ELSE [res EXCEPT ![c].pc = "stat", ![c].i = @ + 1]

Stat(c) ==
  /\ res[c].pc = "stat"
  /\ res' = IF file[Path(c)] = None THEN Widened(c)
            ELSE [res EXCEPT ![c].pc = "lookup",
                             ![c].seen = <<file[Path(c)], stamp[file[Path(c)]]>>]
  /\ UNCHANGED <<diskVars, cache, put, del, clash>>

\* A seeded slip: what is cached is taken whatever the file's time and size.
LookupUnchecked(c) ==
  /\ res[c].pc = "lookup"
  /\ res' = IF cache[Path(c)].seen # None
            THEN [res EXCEPT ![c].pc = "served", ![c].got = cache[Path(c)].wav]
            ELSE [res EXCEPT ![c].pc = "read"]
  /\ UNCHANGED <<diskVars, cache, put, del, clash>>

Lookup(c) ==
  /\ res[c].pc = "lookup"
  /\ res' = IF cache[Path(c)].seen = res[c].seen
            THEN [res EXCEPT ![c].pc = "served", ![c].got = cache[Path(c)].wav]
            ELSE [res EXCEPT ![c].pc = "read"]
  /\ UNCHANGED <<diskVars, cache, put, del, clash>>

\* A seeded slip: what does not decode is cached all the same.
ReadUndecoded(c) ==
  /\ res[c].pc = "read"
  /\ LET n == file[Path(c)] IN
       res' = IF n = None THEN Widened(c)
              ELSE [res EXCEPT ![c].pc = "store", ![c].got = data[n]]
  /\ UNCHANGED <<diskVars, cache, put, del, clash>>

ReadFile(c) ==
  /\ res[c].pc = "read"
  /\ LET n == file[Path(c)] IN
       res' = IF n = None \/ ~Decodes(data[n]) THEN Widened(c)
              ELSE [res EXCEPT ![c].pc = "store", ![c].got = data[n]]
  /\ UNCHANGED <<diskVars, cache, put, del, clash>>

StoreCached(c) ==
  /\ res[c].pc = "store"
  /\ cache' = [cache EXCEPT ![Path(c)] = [seen |-> res[c].seen, wav |-> res[c].got]]
  /\ res' = [res EXCEPT ![c].pc = "served"]
  /\ UNCHANGED <<diskVars, put, del, clash>>

Load(c) == Stat(c) \/ Lookup(c) \/ ReadFile(c) \/ StoreCached(c)

-----------------------------------------------------------------------------
Shown(p) == IF file[p] = None THEN Blank ELSE data[file[p]]

Ended(r) == r.pc \in {"served", "silent"}

\* What the history variables take down of every step: what is at the path while
\* it is loaded, and the candidates that are missing while they are searched.
Observe ==
  /\ live' = [c \in Callers |->
       CASE res'[c].pc \in {"idle", "stat", "silent"} -> {}
         [] res[c].pc = "served" /\ res'[c].pc = "served" -> live[c]
         [] OTHER -> live[c] \cup {Shown(Path(c))'}]
  /\ gap' = [c \in Callers |->
       LET missing == {p \in Range(res'[c].cands) : file'[p] = None} IN
       CASE Ended(res[c]) /\ Ended(res'[c]) -> gap[c]
         [] res[c].pc = "idle" \/ (Ended(res[c]) /\ ~Ended(res'[c])) -> missing
         [] OTHER -> gap[c] \cup missing]

PromptNext ==
  /\ \/ \E u \in Puts : PutStep(u)
     \/ \E d \in Deletes : DeleteCached(d) \/ DeleteFile(d)
     \/ \E c \in Callers : PlayPrompt(c) \/ GetFallback(c) \/ List(c) \/ Load(c)
  /\ Observe

PromptSpec == PromptInit /\ [][PromptNext]_promptVars

-----------------------------------------------------------------------------
PutStates == {"new", "refused", "head", "tail", "rename", "remove", "drop", "done", "failed"}
Stamps == (Uploads \X Nat) \cup {None}

\* Every inode is at one path at most, and what is cached decodes.
PromptTypeOK ==
  /\ file \in [Paths -> Uploads \cup {None}] /\ tmp \in [Paths -> Uploads \cup {None}]
  /\ \A p, q \in Paths :
       /\ p # q /\ file[p] # None => file[p] # file[q]
       /\ file[p] # None => file[p] # tmp[q]
  /\ data \in [Uploads -> Contents] /\ stamp \in [Uploads -> Nat]
  /\ cache \in [Paths -> [seen : Stamps, wav : Contents]]
  /\ \A p \in Paths : cache[p].seen # None => Decodes(cache[p].wav)
  /\ put \in [Puts -> [pc : PutStates, slot : Slots, fd : Uploads \cup {None}]]
  /\ del \in [Deletes -> [pc : {"new", "remove", "done"}, slot : Slots]]
  /\ \A c \in Callers :
       /\ res[c].pc \in {"idle", "stat", "lookup", "read", "store", "served", "silent"}
       /\ Range(res[c].cands) \subseteq Paths
       /\ res[c].pc # "idle" => res[c].i \in DOMAIN res[c].cands
  /\ clash \subseteq Paths
  /\ live \in [Callers -> SUBSET Contents] /\ gap \in [Callers -> SUBSET Paths]

\* A caller hears one upload from beginning to end, and one that was in place
\* while it was looked for: not half a file, not a prompt that had been replaced
\* before, however loads, uploads and deletions interleave with the cache. (Two
\* uploads at once to one path excepted: they share one temporary file.)
ServedIsCurrent ==
  \A c \in Callers :
    res[c].pc = "served" /\ Path(c) \notin clash =>
      /\ res[c].got.head = res[c].got.tail
      /\ res[c].got \in live[c]

\* A prompt less specific than another, or silence, is what a caller gets only if
\* each prompt before it was missing at some moment of the search: replacing a
\* prompt never leaves its callers without.
WidensOnlyPastGaps ==
  \A c \in Callers :
    LET passed == IF res[c].pc = "silent" THEN Range(res[c].cands)
                  ELSE {res[c].cands[j] : j \in 1 .. res[c].i - 1}
    IN res[c].pc \in {"served", "silent"} => passed \subseteq gap[c] \cup clash
=============================================================================
