--------------------------- MODULE ServiceProofs ---------------------------
(***************************************************************************)
(* Theorems of the service beside its store: SnippetJobs, for every number *)
(* of jobs and every bound of the registry; ServiceLife, for any number of *)
(* processes and requests; Glosses, for every dictionary and every reading *)
(* of a word.                                                              *)
(*                                                                         *)
(* A snippet has the name of its job, so a file is registered at most once *)
(* in its life, and by its own extraction: whatever is registered, being   *)
(* removed or evicted belongs to a job past its extraction (Entered,       *)
(* Leaving).  A finished job's file is registered or somebody's to remove  *)
(* (Kept).  A cleanup that deletes, and a shutdown that sweeps, found      *)
(* nothing under way and let nothing begin (Quiet, Phased).                *)
(*                                                                         *)
(* LifeInv says what each phase of a process has opened, whose socket may  *)
(* be at the delivery path, that a fixed port has one listener, and that   *)
(* only a process that serves or is closing has connected requests.        *)
(*                                                                         *)
(* What Glosses answers is computed, not remembered: that its selections   *)
(* keep order and lose nothing follows from the order of positions         *)
(* (InOrderIs), from that what a lookup gives (GoodHit), and from that the *)
(* answer.  GlossInv says that every answer was computed from the open     *)
(* dictionary, and that a good file came after the last attempt in vain.   *)
(***************************************************************************)
EXTENDS SnippetJobs, ServiceLife, Glosses, FiniteSetTheorems, SequenceTheorems,
        WellFoundedInduction, TLAPS

Entries(s) == {s[i] : i \in 1 .. Len(s)}
NoRepeats(s) == \A i, j \in 1 .. Len(s) : s[i] = s[j] => i = j

Victims == {victim[c] : c \in Clips}

\* What is registered was extracted, and its job has not failed of itself.
Entered ==
  \A c \in Registered :
    work[c] \in {"evicting", "done"} \/ (work[c] = "failing" /\ faults # 0)

\* What is being removed is not registered, and never will be again.
Leaving ==
  \A c \in Clips :
    c \in removing \cup Victims =>
      c \notin Registered /\ work[c] \in {"evicting", "failing", "done"}

\* Every file belongs to a job that is at work, or is registered or somebody's to remove.
Kept ==
  faults = 0 /\ cleanup # "deleting" /\ closing # "sweeping" =>
    \A c \in files :
      /\ work[c] # "none"
      /\ work[c] \in {"evicting", "done"} => c \in Registered \cup removing \cup Victims

\* Nothing is under way while files are deleted, and after.
Quiet ==
  cleanup = "deleting" \/ closing \in {"sweeping", "closed"} => InFlight = {} /\ registry = <<>>

\* How the life cycle, a cleanup and a shutdown go together.
Phased ==
  /\ closing # "no" <=> lifecycle = "closing"
  /\ cleanup # "none" => lifecycle # "open"
  /\ closing \in {"draining", "sweeping", "closed"} => cleanup = "none"

\* A job works from its creation on.
Begun == \A c \in Clips : job[c] = "none" <=> work[c] = "none"

Sound == TypeOK /\ RegistryBounded /\ RegisteredHasFile /\ Entered /\ Leaving /\ Kept /\ Begun
RunnerInv == Sound /\ Quiet /\ Phased /\ ClosedIsClean

-----------------------------------------------------------------------------
(***************************************************************************)
(* Sequences without repetitions.                                          *)
(***************************************************************************)
LEMMA AppendEntry ==
  ASSUME NEW S, NEW s \in Seq(S), NEW e \in S
  PROVE  /\ Append(s, e) \in Seq(S) /\ Len(Append(s, e)) = Len(s) + 1
         /\ Entries(Append(s, e)) = Entries(s) \cup {e}
         /\ NoRepeats(s) /\ e \notin Entries(s) => NoRepeats(Append(s, e))
  <1>1. Append(s, e) \in Seq(S) /\ Len(Append(s, e)) = Len(s) + 1 /\ Len(s) \in Nat
    OBVIOUS
  <1>2. \A i \in 1 .. Len(s) + 1 : Append(s, e)[i] = IF i = Len(s) + 1 THEN e ELSE s[i]
    OBVIOUS
  <1>3. QED
    BY <1>1, <1>2 DEF Entries, NoRepeats

LEMMA TailEntry ==
  ASSUME NEW S, NEW s \in Seq(S), s # <<>>
  PROVE  /\ Tail(s) \in Seq(S) /\ Len(Tail(s)) = Len(s) - 1
         /\ Head(s) \in Entries(s)
         /\ NoRepeats(s) => NoRepeats(Tail(s)) /\ Entries(Tail(s)) = Entries(s) \ {Head(s)}
  <1>1. Tail(s) \in Seq(S) /\ Len(Tail(s)) = Len(s) - 1 /\ Len(s) \in Nat \ {0}
    BY HeadTailProperties, EmptySeq
  <1>2. \A i \in 1 .. Len(s) - 1 : Tail(s)[i] = s[i + 1]
    BY <1>1, HeadTailProperties
  <1>3. Head(s) = s[1]
    OBVIOUS
  <1>4. Head(s) \in Entries(s)
    BY <1>1, <1>3 DEF Entries
  <1>5. ASSUME NoRepeats(s)
        PROVE  NoRepeats(Tail(s)) /\ Entries(Tail(s)) = Entries(s) \ {Head(s)}
    <2>1. NoRepeats(Tail(s))
      <3> SUFFICES ASSUME NEW i \in 1 .. Len(s) - 1, NEW j \in 1 .. Len(s) - 1, Tail(s)[i] = Tail(s)[j]
                   PROVE  i = j
        BY <1>1 DEF NoRepeats
      <3>1. s[i + 1] = s[j + 1] /\ i + 1 \in 1 .. Len(s) /\ j + 1 \in 1 .. Len(s)
        BY <1>1, <1>2
      <3>2. i + 1 = j + 1
        BY <3>1, <1>5 DEF NoRepeats
      <3>3. QED
        BY <3>2
    <2>2. Entries(Tail(s)) \subseteq Entries(s) \ {Head(s)}
      <3> SUFFICES ASSUME NEW i \in 1 .. Len(s) - 1
                   PROVE  s[i + 1] \in Entries(s) /\ s[i + 1] # s[1]
        BY <1>1, <1>2, <1>3 DEF Entries
      <3>1. i + 1 \in 1 .. Len(s) /\ 1 \in 1 .. Len(s) /\ i + 1 # 1
        BY <1>1
      <3>2. QED
        BY <3>1, <1>5 DEF Entries, NoRepeats
    <2>3. Entries(s) \ {Head(s)} \subseteq Entries(Tail(s))
      <3> SUFFICES ASSUME NEW i \in 1 .. Len(s), s[i] # s[1]
                   PROVE  s[i] \in Entries(Tail(s))
        BY <1>3 DEF Entries
      <3>1. i - 1 \in 1 .. Len(s) - 1 /\ (i - 1) + 1 = i
        BY <1>1
      <3>2. QED
        BY <1>1, <1>2, <3>1 DEF Entries
    <2>4. QED
      BY <2>1, <2>2, <2>3
  <1>6. QED
    BY <1>1, <1>4, <1>5

\* An entry taken out of the registry leaves the others in place.
LEMMA WithoutEntry ==
  ASSUME TypeOK, NEW c \in Registered
  PROVE  /\ Without(c) \in Seq(Clips) /\ Len(Without(c)) = Len(registry) - 1
         /\ NoRepeats(Without(c)) /\ Entries(Without(c)) = Registered \ {c}
  <1> DEFINE n == Len(registry)
             k == Place(c)
             w == Without(c)
  <1>1. registry \in Seq(Clips) /\ n \in Nat /\ \A i \in 1 .. n : registry[i] \in Clips
    BY ElementOfSeq, LenProperties DEF TypeOK
  <1>2. k \in 1 .. n /\ registry[k] = c
    BY DEF Registered, Place
  <1>3. \A i, j \in 1 .. n : registry[i] = registry[j] => i = j
    BY DEF TypeOK
  <1>4. /\ SubSeq(registry, 1, k - 1) \in Seq(Clips) /\ Len(SubSeq(registry, 1, k - 1)) = k - 1
        /\ \A i \in 1 .. k - 1 : SubSeq(registry, 1, k - 1)[i] = registry[i]
    <2>1. 1 \in Int /\ k - 1 \in Int /\ \A i \in 1 .. k - 1 : registry[i] \in Clips
      BY <1>1, <1>2
    <2>2. QED
      BY <2>1, <1>1, <1>2, SubSeqProperties
  <1>5. /\ SubSeq(registry, k + 1, n) \in Seq(Clips) /\ Len(SubSeq(registry, k + 1, n)) = n - k
        /\ \A i \in 1 .. n - k : SubSeq(registry, k + 1, n)[i] = registry[k + i]
    <2>1. k + 1 \in Int /\ n \in Int /\ \A i \in k + 1 .. n : registry[i] \in Clips
      BY <1>1, <1>2
    <2>2. QED
      BY <2>1, <1>1, <1>2, SubSeqProperties
  <1>6. /\ w \in Seq(Clips) /\ Len(w) = n - 1
        /\ \A i \in 1 .. n - 1 : w[i] = IF i < k THEN registry[i] ELSE registry[i + 1]
    <2>1. w = SubSeq(registry, 1, k - 1) \o SubSeq(registry, k + 1, n)
      BY DEF Without
    <2>2. /\ w \in Seq(Clips) /\ Len(w) = (k - 1) + (n - k)
          /\ \A i \in 1 .. (k - 1) + (n - k) :
               w[i] = IF i <= k - 1 THEN SubSeq(registry, 1, k - 1)[i]
                      ELSE SubSeq(registry, k + 1, n)[i - (k - 1)]
      BY <2>1, <1>4, <1>5, ConcatProperties
    <2>3. (k - 1) + (n - k) = n - 1
      BY <1>1, <1>2
    <2>4. ASSUME NEW i \in 1 .. n - 1
          PROVE  w[i] = IF i < k THEN registry[i] ELSE registry[i + 1]
      <3>1. CASE i < k
        <4>1. i \in 1 .. k - 1
          BY <3>1, <1>1, <1>2
        <4>2. QED
          BY <4>1, <3>1, <2>2, <2>3, <1>4
      <3>2. CASE ~(i < k)
        <4>1. ~(i <= k - 1) /\ i - (k - 1) \in 1 .. n - k /\ k + (i - (k - 1)) = i + 1
          BY <3>2, <1>1, <1>2
        <4>2. QED
          BY <4>1, <3>2, <2>2, <2>3, <1>5
      <3>3. QED
        BY <3>1, <3>2
    <2>5. QED
      BY <2>2, <2>3, <2>4
  <1> HIDE DEF w, k, n
  <1>7. NoRepeats(w)
    <2> SUFFICES ASSUME NEW i \in 1 .. n - 1, NEW j \in 1 .. n - 1, w[i] = w[j]
                 PROVE  i = j
      BY <1>6 DEF NoRepeats
    <2> DEFINE up(x) == IF x < k THEN x ELSE x + 1
    <2>1. up(i) \in 1 .. n /\ up(j) \in 1 .. n /\ w[i] = registry[up(i)] /\ w[j] = registry[up(j)]
      BY <1>1, <1>2, <1>6
    <2>2. up(i) = up(j)
      BY <2>1, <1>3
    <2>3. QED
      BY <2>2, <1>1, <1>2
  <1>8. Entries(w) = {registry[i] : i \in (1 .. n) \ {k}}
    <2>1. Entries(w) \subseteq {registry[i] : i \in (1 .. n) \ {k}}
      <3> SUFFICES ASSUME NEW i \in 1 .. n - 1
                   PROVE  \E j \in (1 .. n) \ {k} : w[i] = registry[j]
        BY <1>6 DEF Entries
      <3>1. (IF i < k THEN i ELSE i + 1) \in (1 .. n) \ {k}
        BY <1>1, <1>2
      <3>2. QED
        BY <3>1, <1>6
    <2>2. ASSUME NEW j \in (1 .. n) \ {k}
          PROVE  \E i \in 1 .. n - 1 : registry[j] = w[i]
      <3> DEFINE i == IF j < k THEN j ELSE j - 1
      <3>1. i \in 1 .. n - 1 /\ (IF i < k THEN i ELSE i + 1) = j
        BY <1>1, <1>2
      <3>2. registry[j] = w[i]
        BY <3>1, <1>6
      <3>3. QED
        BY <3>1, <3>2
    <2>3. QED
      BY <2>1, <2>2, <1>6 DEF Entries
  <1>9. {registry[i] : i \in (1 .. n) \ {k}} = Registered \ {c}
    BY <1>1, <1>2, <1>3 DEF Registered, n
  <1>10. QED
    BY <1>6, <1>7, <1>8, <1>9 DEF n, w
-----------------------------------------------------------------------------
(***************************************************************************)
(* Steps.                                                                  *)
(***************************************************************************)
\* Requests about snippets, and the removals they leave behind.
LEMMA RequestsKeep ==
  ASSUME RunnerInv, NEW c \in Clips,
         PostClip(c) \/ GetSnippet(c) \/ DeleteSnippet(c) \/ RemoveFile(c)
  PROVE  RunnerInv'
  <1> USE SnippetAssumption DEF RunnerInv, Sound, Jobs
  <1>1. CASE PostClip(c)
    <2>1. Registered' = Registered
      BY <1>1 DEF PostClip, diskVars, Registered
    <2>2. TypeOK' /\ RegistryBounded'
      BY <1>1 DEF PostClip, Serving, jobVars, diskVars, serviceVars, TypeOK, RegistryBounded, Begun, Statuses, Works
    <2>3. RegisteredHasFile' /\ Entered' /\ Leaving' /\ Kept' /\ Begun'
      BY <1>1, <2>1 DEF PostClip, Serving, jobVars, diskVars, serviceVars, TypeOK, RegisteredHasFile, Entered, Leaving, Kept, Begun, Victims, Quiet, InFlight
    <2>4. Quiet' /\ Phased' /\ ClosedIsClean'
      BY <1>1, <2>1 DEF PostClip, Serving, jobVars, diskVars, serviceVars, TypeOK, Quiet, Phased, ClosedIsClean, InFlight
    <2>5. QED
      BY <2>2, <2>3, <2>4
  <1>2. CASE GetSnippet(c)
    <2>1. /\ registry' \in Seq(Clips) /\ Len(registry') = Len(registry)
          /\ NoRepeats(registry') /\ Registered' = Registered
      <3>1. c \in Registered /\ c \notin Entries(Without(c))
        <4>1. c \in Registered
          BY <1>2 DEF GetSnippet
        <4>2. QED
          BY <4>1, WithoutEntry
      <3>2. registry' = Append(Without(c), c)
        BY <1>2 DEF GetSnippet, Touched
      <3>3. Len(registry) \in Nat /\ Entries(registry') = Registered'
        BY DEF TypeOK, Entries, Registered
      <3>4. /\ Without(c) \in Seq(Clips) /\ Len(Without(c)) = Len(registry) - 1
            /\ NoRepeats(Without(c)) /\ Entries(Without(c)) = Registered \ {c}
        BY <3>1, WithoutEntry
      <3>5. /\ registry' \in Seq(Clips) /\ Len(registry') = Len(Without(c)) + 1
            /\ NoRepeats(registry') /\ Entries(registry') = Entries(Without(c)) \cup {c}
        BY <3>1, <3>2, <3>4, AppendEntry
      <3>6. QED
        BY <3>1, <3>3, <3>4, <3>5
    <2>2. TypeOK' /\ RegistryBounded'
      BY <1>2, <2>1 DEF GetSnippet, Serving, jobVars, diskVars, serviceVars, TypeOK, RegistryBounded, NoRepeats
    <2>3. RegisteredHasFile' /\ Entered' /\ Leaving' /\ Kept' /\ Begun'
      BY <1>2, <2>1 DEF GetSnippet, Serving, jobVars, diskVars, serviceVars, TypeOK, RegisteredHasFile, Entered, Leaving, Kept, Begun, Victims, Quiet, InFlight
    <2>4. Quiet' /\ Phased' /\ ClosedIsClean'
      BY <1>2, <2>1 DEF GetSnippet, Serving, jobVars, diskVars, serviceVars, TypeOK, Quiet, Phased, ClosedIsClean, InFlight
    <2>5. QED
      BY <2>2, <2>3, <2>4
  <1>3. CASE DeleteSnippet(c)
    <2>1. /\ registry' \in Seq(Clips) /\ Len(registry') = Len(registry) - 1
          /\ NoRepeats(registry') /\ Registered' = Registered \ {c}
      <3>1. c \in Registered /\ registry' = Without(c) /\ Entries(registry') = Registered'
        BY <1>3 DEF DeleteSnippet, Entries, Registered
      <3>2. QED
        BY <3>1, WithoutEntry
    <2>2. TypeOK' /\ RegistryBounded'
      BY <1>3, <2>1 DEF DeleteSnippet, Serving, jobVars, diskVars, serviceVars, TypeOK, RegistryBounded, NoRepeats
    <2>3. RegisteredHasFile' /\ Entered' /\ Leaving' /\ Kept' /\ Begun'
      BY <1>3, <2>1 DEF DeleteSnippet, Serving, jobVars, diskVars, serviceVars, TypeOK, RegisteredHasFile, Entered, Leaving, Kept, Begun, Victims, Quiet, InFlight
    <2>4. Quiet' /\ Phased' /\ ClosedIsClean'
      BY <1>3, <2>1 DEF DeleteSnippet, Serving, jobVars, diskVars, serviceVars, TypeOK, Quiet, Phased, ClosedIsClean, InFlight
    <2>5. QED
      BY <2>2, <2>3, <2>4
  <1>4. CASE RemoveFile(c)
    <2>1. Registered' = Registered
      BY <1>4 DEF RemoveFile, diskVars, Registered
    <2>2. TypeOK' /\ RegistryBounded'
      BY <1>4 DEF RemoveFile, Fault, jobVars, diskVars, serviceVars, TypeOK, RegistryBounded, Statuses, Works
    <2>3. RegisteredHasFile' /\ Entered' /\ Leaving' /\ Kept' /\ Begun'
      BY <1>4, <2>1 DEF RemoveFile, Fault, jobVars, diskVars, serviceVars, TypeOK, RegisteredHasFile, Entered, Leaving, Kept, Begun, Victims, Quiet, InFlight
    <2>4. Quiet' /\ Phased' /\ ClosedIsClean'
      BY <1>4, <2>1 DEF RemoveFile, Fault, jobVars, diskVars, serviceVars, TypeOK, Quiet, Phased, ClosedIsClean, InFlight
    <2>5. QED
      BY <2>2, <2>3, <2>4
  <1>5. QED
    BY <1>1, <1>2, <1>3, <1>4

\* The steps of an extraction.
LEMMA ExtractionKeeps ==
  ASSUME RunnerInv, NEW c \in Clips, Step(c)
  PROVE  RunnerInv'
  <1> USE SnippetAssumption DEF RunnerInv, Sound, Jobs
  <1>1. CASE ExtractedInVain(c)
    <2>1. Registered' = Registered
      BY <1>1 DEF ExtractedInVain, diskVars, Registered
    <2>2. TypeOK' /\ RegistryBounded'
      BY <1>1 DEF ExtractedInVain, Wanted, jobVars, diskVars, serviceVars, TypeOK, RegistryBounded, Statuses, Works
    <2>3. RegisteredHasFile' /\ Entered' /\ Leaving' /\ Kept' /\ Begun'
      BY <1>1, <2>1 DEF ExtractedInVain, Wanted, jobVars, diskVars, serviceVars, TypeOK, RegisteredHasFile, Entered, Leaving, Kept, Begun, Victims, Quiet, InFlight
    <2>4. Quiet' /\ Phased' /\ ClosedIsClean'
      BY <1>1, <2>1 DEF ExtractedInVain, Wanted, jobVars, diskVars, serviceVars, TypeOK, Quiet, Phased, ClosedIsClean, InFlight
    <2>5. QED
      BY <2>2, <2>3, <2>4
  <1>2. CASE Extracted(c)
    <2>1. /\ registry' \in Seq(Clips) /\ Len(registry') = Len(registry) + 1
          /\ NoRepeats(registry') /\ Registered' = Registered \cup {c}
          /\ c \notin Registered
      <3>1. c \notin Registered
        BY <1>2 DEF Extracted, Entered
      <3>2. /\ registry' = Append(registry, c) /\ registry \in Seq(Clips)
            /\ NoRepeats(registry) /\ Entries(registry) = Registered /\ Entries(registry') = Registered'
        BY <1>2 DEF Extracted, TypeOK, Entries, Registered, NoRepeats
      <3>3. QED
        BY <3>1, <3>2, AppendEntry
    <2>2. TypeOK' /\ RegistryBounded'
      BY <1>2, <2>1 DEF Extracted, Wanted, Overfull, jobVars, diskVars, serviceVars, TypeOK, RegistryBounded, NoRepeats, Statuses, Works
    <2>3. RegisteredHasFile' /\ Entered' /\ Leaving' /\ Kept' /\ Begun'
      BY <1>2, <2>1 DEF Extracted, Wanted, Overfull, jobVars, diskVars, serviceVars, TypeOK, RegisteredHasFile, Entered, Leaving, Kept, Begun, Victims, Quiet, InFlight
    <2>4. Quiet' /\ Phased' /\ ClosedIsClean'
      BY <1>2, <2>1 DEF Extracted, Wanted, Overfull, jobVars, diskVars, serviceVars, TypeOK, Quiet, Phased, ClosedIsClean, InFlight
    <2>5. QED
      BY <2>2, <2>3, <2>4
  <1>3. CASE ExtractedEvicting(c)
    <2> DEFINE more == Append(registry, c)
               out == Head(more)
    <2>1. /\ registry' \in Seq(Clips) /\ Len(registry') = Len(registry)
          /\ NoRepeats(registry') /\ Registered' = (Registered \cup {c}) \ {out}
          /\ c \notin Registered /\ out \in Registered
      <3>1. c \notin Registered
        BY <1>3 DEF ExtractedEvicting, Entered
      <3>2. /\ registry' = Tail(more) /\ registry \in Seq(Clips) /\ Len(registry) \in Nat
            /\ NoRepeats(registry) /\ Entries(registry) = Registered /\ Entries(registry') = Registered'
        BY <1>3 DEF ExtractedEvicting, TypeOK, Entries, Registered, NoRepeats
      <3>3. /\ more \in Seq(Clips) /\ Len(more) = Len(registry) + 1
            /\ NoRepeats(more) /\ Entries(more) = Registered \cup {c}
        BY <3>1, <3>2, AppendEntry
      <3>4. more # <<>> /\ Len(registry) >= 1
        BY <1>3, <3>2, <3>3, SnippetAssumption DEF ExtractedEvicting, Overfull
      <3>5. out = registry[1] /\ out \in Registered
        <4>1. 1 \in 1 .. Len(registry)
          BY <3>2, <3>4
        <4>2. QED
          BY <4>1, <3>2 DEF Registered
      <3> HIDE DEF more
      <3>6. /\ Tail(more) \in Seq(Clips) /\ Len(Tail(more)) = Len(more) - 1
            /\ NoRepeats(Tail(more)) /\ Entries(Tail(more)) = Entries(more) \ {Head(more)}
        BY <3>3, <3>4, TailEntry
      <3>7. QED
        BY <3>1, <3>2, <3>3, <3>5, <3>6
    <2>2. TypeOK' /\ RegistryBounded'
      <3>1. out \in Clips
        BY <2>1 DEF TypeOK, Registered
      <3>2. /\ work' = [work EXCEPT ![c] = "evicting"] /\ victim' = [victim EXCEPT ![c] = out]
            /\ files' = files \cup {c} /\ UNCHANGED <<job, removing, dir, serviceVars, faults>>
        BY <1>3 DEF ExtractedEvicting
      <3> HIDE DEF out
      <3>3. QED
        BY <2>1, <3>1, <3>2 DEF serviceVars, TypeOK, RegistryBounded, NoRepeats, Works
    <2>3. RegisteredHasFile' /\ Entered' /\ Leaving' /\ Kept' /\ Begun'
      BY <1>3, <2>1 DEF ExtractedEvicting, Wanted, Overfull, jobVars, diskVars, serviceVars, TypeOK, RegisteredHasFile, Entered, Leaving, Kept, Begun, Victims, Quiet, InFlight
    <2>4. Quiet' /\ Phased' /\ ClosedIsClean'
      BY <1>3, <2>1 DEF ExtractedEvicting, Wanted, Overfull, jobVars, diskVars, serviceVars, TypeOK, Quiet, Phased, ClosedIsClean, InFlight
    <2>5. QED
      BY <2>2, <2>3, <2>4
  <1>4. CASE ExtractionFails(c)
    <2>1. Registered' = Registered
      BY <1>4 DEF ExtractionFails, diskVars, Registered
    <2>2. TypeOK' /\ RegistryBounded'
      BY <1>4 DEF ExtractionFails, jobVars, diskVars, serviceVars, TypeOK, RegistryBounded, Statuses, Works
    <2>3. RegisteredHasFile' /\ Entered' /\ Leaving' /\ Kept' /\ Begun'
      BY <1>4, <2>1 DEF ExtractionFails, jobVars, diskVars, serviceVars, TypeOK, RegisteredHasFile, Entered, Leaving, Kept, Begun, Victims, Quiet, InFlight
    <2>4. Quiet' /\ Phased' /\ ClosedIsClean'
      BY <1>4, <2>1 DEF ExtractionFails, jobVars, diskVars, serviceVars, TypeOK, Quiet, Phased, ClosedIsClean, InFlight
    <2>5. QED
      BY <2>2, <2>3, <2>4
  <1>5. CASE Evicted(c)
    <2>1. Registered' = Registered
      BY <1>5 DEF Evicted, diskVars, Registered
    <2>2. TypeOK' /\ RegistryBounded'
      BY <1>5 DEF Evicted, jobVars, diskVars, serviceVars, TypeOK, RegistryBounded, Statuses, Works
    <2>3. RegisteredHasFile' /\ Entered' /\ Leaving' /\ Kept' /\ Begun'
      BY <1>5, <2>1 DEF Evicted, jobVars, diskVars, serviceVars, TypeOK, RegisteredHasFile, Entered, Leaving, Kept, Begun, Victims, Quiet, InFlight
    <2>4. Quiet' /\ Phased' /\ ClosedIsClean'
      BY <1>5, <2>1 DEF Evicted, jobVars, diskVars, serviceVars, TypeOK, Quiet, Phased, ClosedIsClean, InFlight
    <2>5. QED
      BY <2>2, <2>3, <2>4
  <1>6. CASE EvictionFails(c)
    <2>1. Registered' = Registered
      BY <1>6 DEF EvictionFails, diskVars, Registered
    <2>2. TypeOK' /\ RegistryBounded'
      BY <1>6 DEF EvictionFails, Fault, jobVars, diskVars, serviceVars, TypeOK, RegistryBounded, Statuses, Works
    <2>3. RegisteredHasFile' /\ Entered' /\ Leaving' /\ Kept' /\ Begun'
      BY <1>6, <2>1 DEF EvictionFails, Fault, jobVars, diskVars, serviceVars, TypeOK, RegisteredHasFile, Entered, Leaving, Kept, Begun, Victims, Quiet, InFlight
    <2>4. Quiet' /\ Phased' /\ ClosedIsClean'
      BY <1>6, <2>1 DEF EvictionFails, Fault, jobVars, diskVars, serviceVars, TypeOK, Quiet, Phased, ClosedIsClean, InFlight
    <2>5. QED
      BY <2>2, <2>3, <2>4
  <1>7. CASE Discarded(c)
    <2>1. Registered' = Registered
      BY <1>7 DEF Discarded, diskVars, Registered
    <2>2. TypeOK' /\ RegistryBounded'
      BY <1>7 DEF Discarded, jobVars, diskVars, serviceVars, TypeOK, RegistryBounded, Statuses, Works
    <2>3. RegisteredHasFile' /\ Entered' /\ Leaving' /\ Kept' /\ Begun'
      BY <1>7, <2>1 DEF Discarded, jobVars, diskVars, serviceVars, TypeOK, RegisteredHasFile, Entered, Leaving, Kept, Begun, Victims, Quiet, InFlight
    <2>4. Quiet' /\ Phased' /\ ClosedIsClean'
      BY <1>7, <2>1 DEF Discarded, jobVars, diskVars, serviceVars, TypeOK, Quiet, Phased, ClosedIsClean, InFlight
    <2>5. QED
      BY <2>2, <2>3, <2>4
  <1>8. CASE DiscardFails(c)
    <2>1. Registered' = Registered
      BY <1>8 DEF DiscardFails, diskVars, Registered
    <2>2. TypeOK' /\ RegistryBounded'
      BY <1>8 DEF DiscardFails, Fault, jobVars, diskVars, serviceVars, TypeOK, RegistryBounded, Statuses, Works
    <2>3. RegisteredHasFile' /\ Entered' /\ Leaving' /\ Kept' /\ Begun'
      BY <1>8, <2>1 DEF DiscardFails, Fault, jobVars, diskVars, serviceVars, TypeOK, RegisteredHasFile, Entered, Leaving, Kept, Begun, Victims, Quiet, InFlight
    <2>4. Quiet' /\ Phased' /\ ClosedIsClean'
      BY <1>8, <2>1 DEF DiscardFails, Fault, jobVars, diskVars, serviceVars, TypeOK, Quiet, Phased, ClosedIsClean, InFlight
    <2>5. QED
      BY <2>2, <2>3, <2>4
  <1>9. CASE Failed(c)
    <2>1. Registered' = Registered
      BY <1>9 DEF Failed, diskVars, Registered
    <2>2. TypeOK' /\ RegistryBounded'
      BY <1>9 DEF Failed, Wanted, jobVars, diskVars, serviceVars, TypeOK, RegistryBounded, Statuses, Works
    <2>3. RegisteredHasFile' /\ Entered' /\ Leaving' /\ Kept' /\ Begun'
      BY <1>9, <2>1 DEF Failed, Wanted, jobVars, diskVars, serviceVars, TypeOK, RegisteredHasFile, Entered, Leaving, Kept, Begun, Victims, Quiet, InFlight
    <2>4. Quiet' /\ Phased' /\ ClosedIsClean'
      BY <1>9, <2>1 DEF Failed, Wanted, jobVars, diskVars, serviceVars, TypeOK, Quiet, Phased, ClosedIsClean, InFlight
    <2>5. QED
      BY <2>2, <2>3, <2>4
  <1>10. CASE FailureFails(c)
    <2>1. Registered' = Registered
      BY <1>10 DEF FailureFails, diskVars, Registered
    <2>2. TypeOK' /\ RegistryBounded'
      BY <1>10 DEF FailureFails, Fault, jobVars, diskVars, serviceVars, TypeOK, RegistryBounded, Statuses, Works
    <2>3. RegisteredHasFile' /\ Entered' /\ Leaving' /\ Kept' /\ Begun'
      BY <1>10, <2>1 DEF FailureFails, Fault, jobVars, diskVars, serviceVars, TypeOK, RegisteredHasFile, Entered, Leaving, Kept, Begun, Victims, Quiet, InFlight
    <2>4. Quiet' /\ Phased' /\ ClosedIsClean'
      BY <1>10, <2>1 DEF FailureFails, Fault, jobVars, diskVars, serviceVars, TypeOK, Quiet, Phased, ClosedIsClean, InFlight
    <2>5. QED
      BY <2>2, <2>3, <2>4
  <1>11. QED
    BY <1>1, <1>2, <1>3, <1>4, <1>5, <1>6, <1>7, <1>8, <1>9, <1>10 DEF Step

\* A cleanup of all artifacts, and a shutdown.
LEMMA WindDownKeeps ==
  ASSUME RunnerInv, StartCleanup \/ CleanupStep \/ Close \/ CloseStep
  PROVE  RunnerInv'
  <1> USE SnippetAssumption DEF RunnerInv, Sound, Jobs
  <1>1. CASE StartCleanup
    <2>1. Registered' = Registered
      BY <1>1 DEF StartCleanup, diskVars, Registered
    <2>2. TypeOK' /\ RegistryBounded'
      BY <1>1 DEF StartCleanup, Serving, jobVars, diskVars, serviceVars, TypeOK, RegistryBounded, Statuses, Works
    <2>3. RegisteredHasFile' /\ Entered' /\ Leaving' /\ Kept' /\ Begun'
      BY <1>1, <2>1 DEF StartCleanup, Serving, jobVars, diskVars, serviceVars, TypeOK, RegisteredHasFile, Entered, Leaving, Kept, Begun, Victims, Quiet, InFlight
    <2>4. Quiet' /\ Phased' /\ ClosedIsClean'
      BY <1>1, <2>1 DEF StartCleanup, Serving, jobVars, diskVars, serviceVars, TypeOK, Quiet, Phased, ClosedIsClean, InFlight
    <2>5. QED
      BY <2>2, <2>3, <2>4
  <1>2. CASE CleanupDrained
    <2>1. registry' = <<>> /\ Registered' = {}
      BY <1>2 DEF CleanupDrained, Registered
    <2>2. TypeOK' /\ RegistryBounded'
      BY <1>2, <2>1 DEF CleanupDrained, jobVars, diskVars, serviceVars, TypeOK, RegistryBounded
    <2>3. RegisteredHasFile' /\ Entered' /\ Leaving' /\ Kept' /\ Begun'
      BY <1>2, <2>1 DEF CleanupDrained, jobVars, diskVars, serviceVars, TypeOK, RegisteredHasFile, Entered, Leaving, Kept, Begun, Victims, Quiet, InFlight
    <2>4. Quiet' /\ Phased' /\ ClosedIsClean'
      BY <1>2, <2>1 DEF CleanupDrained, jobVars, diskVars, serviceVars, TypeOK, Quiet, Phased, ClosedIsClean, InFlight
    <2>5. QED
      BY <2>2, <2>3, <2>4
  <1>3. CASE CleanupDone
    <2>1. Registered = {} /\ Registered' = {}
      BY <1>3 DEF CleanupDone, Quiet, diskVars, Registered
    <2>2. TypeOK' /\ RegistryBounded'
      BY <1>3 DEF CleanupDone, Reopened, jobVars, diskVars, serviceVars, TypeOK, RegistryBounded, Statuses, Works
    <2>3. RegisteredHasFile' /\ Entered' /\ Leaving' /\ Kept' /\ Begun'
      BY <1>3, <2>1 DEF CleanupDone, Reopened, jobVars, diskVars, serviceVars, TypeOK, RegisteredHasFile, Entered, Leaving, Kept, Begun, Victims, Quiet, InFlight
    <2>4. Quiet' /\ Phased' /\ ClosedIsClean'
      BY <1>3, <2>1 DEF CleanupDone, Reopened, jobVars, diskVars, serviceVars, TypeOK, Quiet, Phased, ClosedIsClean, InFlight
    <2>5. QED
      BY <2>2, <2>3, <2>4
  <1>4. CASE CleanupFails
    <2>1. Registered' = Registered
      BY <1>4 DEF CleanupFails, diskVars, Registered
    <2>2. TypeOK' /\ RegistryBounded'
      <3>1. /\ cleanup' = "none" /\ lifecycle' \in {lifecycle, "open"} /\ closing' \in {closing, "failed"}
            /\ files' \subseteq files /\ dir' \in {dir, FALSE} /\ faults' = faults + 1 /\ faults < MaxFaults
            /\ UNCHANGED <<job, work, victim, registry, removing>>
        BY <1>4 DEF CleanupFails, Reopened, Fault, jobVars
      <3>2. files' \subseteq Clips /\ removing' \subseteq Clips /\ cleanup' \in {"none", "draining", "deleting"}
        BY <3>1 DEF TypeOK
      <3> dir' \in BOOLEAN
        BY <3>1 DEF TypeOK
      <3> faults' \in 0 .. MaxFaults
        BY <3>1 DEF TypeOK
      <3>3. lifecycle' \in {"open", "cleaning", "closing"}
        BY <3>1 DEF TypeOK
      <3>4. closing' \in {"no", "serving", "awaiting", "draining", "sweeping", "closed", "failed"}
        BY <3>1 DEF TypeOK
      <3>5. QED
        BY <3>1, <3>2, <3>3, <3>4 DEF TypeOK, RegistryBounded, Registered
    <2>3. RegisteredHasFile' /\ Entered' /\ Leaving' /\ Kept' /\ Begun'
      BY <1>4, <2>1 DEF CleanupFails, Reopened, Fault, jobVars, diskVars, serviceVars, TypeOK, RegisteredHasFile, Entered, Leaving, Kept, Begun, Victims, Quiet, InFlight
    <2>4. Quiet' /\ Phased' /\ ClosedIsClean'
      BY <1>4, <2>1 DEF CleanupFails, Reopened, Fault, jobVars, diskVars, serviceVars, TypeOK, Quiet, Phased, ClosedIsClean, InFlight
    <2>5. QED
      BY <2>2, <2>3, <2>4
  <1>5. CASE Close
    <2>1. Registered' = Registered
      BY <1>5 DEF Close, diskVars, Registered
    <2>2. TypeOK' /\ RegistryBounded'
      BY <1>5 DEF Close, Serving, jobVars, diskVars, serviceVars, TypeOK, RegistryBounded, Statuses, Works
    <2>3. RegisteredHasFile' /\ Entered' /\ Leaving' /\ Kept' /\ Begun'
      BY <1>5, <2>1 DEF Close, Serving, jobVars, diskVars, serviceVars, TypeOK, RegisteredHasFile, Entered, Leaving, Kept, Begun, Victims, Quiet, InFlight
    <2>4. Quiet' /\ Phased' /\ ClosedIsClean'
      BY <1>5, <2>1 DEF Close, Serving, jobVars, diskVars, serviceVars, TypeOK, Quiet, Phased, ClosedIsClean, InFlight
    <2>5. QED
      BY <2>2, <2>3, <2>4
  <1>6. CASE ConnectionsClosed
    <2>1. Registered' = Registered
      BY <1>6 DEF ConnectionsClosed, diskVars, Registered
    <2>2. TypeOK' /\ RegistryBounded'
      BY <1>6 DEF ConnectionsClosed, jobVars, diskVars, serviceVars, TypeOK, RegistryBounded, Statuses, Works
    <2>3. RegisteredHasFile' /\ Entered' /\ Leaving' /\ Kept' /\ Begun'
      BY <1>6, <2>1 DEF ConnectionsClosed, jobVars, diskVars, serviceVars, TypeOK, RegisteredHasFile, Entered, Leaving, Kept, Begun, Victims, Quiet, InFlight
    <2>4. Quiet' /\ Phased' /\ ClosedIsClean'
      BY <1>6, <2>1 DEF ConnectionsClosed, jobVars, diskVars, serviceVars, TypeOK, Quiet, Phased, ClosedIsClean, InFlight
    <2>5. QED
      BY <2>2, <2>3, <2>4
  <1>7. CASE CleanupAwaited
    <2>1. Registered' = Registered
      BY <1>7 DEF CleanupAwaited, diskVars, Registered
    <2>2. TypeOK' /\ RegistryBounded'
      BY <1>7 DEF CleanupAwaited, jobVars, diskVars, serviceVars, TypeOK, RegistryBounded, Statuses, Works
    <2>3. RegisteredHasFile' /\ Entered' /\ Leaving' /\ Kept' /\ Begun'
      BY <1>7, <2>1 DEF CleanupAwaited, jobVars, diskVars, serviceVars, TypeOK, RegisteredHasFile, Entered, Leaving, Kept, Begun, Victims, Quiet, InFlight
    <2>4. Quiet' /\ Phased' /\ ClosedIsClean'
      BY <1>7, <2>1 DEF CleanupAwaited, jobVars, diskVars, serviceVars, TypeOK, Quiet, Phased, ClosedIsClean, InFlight
    <2>5. QED
      BY <2>2, <2>3, <2>4
  <1>8. CASE CloseDrained
    <2>1. registry' = <<>> /\ Registered' = {}
      BY <1>8 DEF CloseDrained, Registered
    <2>2. TypeOK' /\ RegistryBounded'
      BY <1>8, <2>1 DEF CloseDrained, jobVars, diskVars, serviceVars, TypeOK, RegistryBounded
    <2>3. RegisteredHasFile' /\ Entered' /\ Leaving' /\ Kept' /\ Begun'
      BY <1>8, <2>1 DEF CloseDrained, jobVars, diskVars, serviceVars, TypeOK, RegisteredHasFile, Entered, Leaving, Kept, Begun, Victims, Quiet, InFlight
    <2>4. Quiet' /\ Phased' /\ ClosedIsClean'
      BY <1>8, <2>1 DEF CloseDrained, jobVars, diskVars, serviceVars, TypeOK, Quiet, Phased, ClosedIsClean, InFlight
    <2>5. QED
      BY <2>2, <2>3, <2>4
  <1>9. CASE Closed
    <2>1. Registered = {} /\ Registered' = {}
      BY <1>9 DEF Closed, Quiet, diskVars, Registered
    <2>2. TypeOK' /\ RegistryBounded'
      BY <1>9 DEF Closed, Fault, jobVars, diskVars, serviceVars, TypeOK, RegistryBounded, Statuses, Works
    <2>3. RegisteredHasFile' /\ Entered' /\ Leaving' /\ Kept' /\ Begun'
      BY <1>9, <2>1 DEF Closed, Fault, jobVars, diskVars, serviceVars, TypeOK, RegisteredHasFile, Entered, Leaving, Kept, Begun, Victims, Quiet, InFlight
    <2>4. Quiet' /\ Phased' /\ ClosedIsClean'
      BY <1>9, <2>1 DEF Closed, Fault, jobVars, diskVars, serviceVars, TypeOK, Quiet, Phased, ClosedIsClean, InFlight
    <2>5. QED
      BY <2>2, <2>3, <2>4
  <1>10. QED
    BY <1>1, <1>2, <1>3, <1>4, <1>5, <1>6, <1>7, <1>8, <1>9 DEF CleanupStep, CloseStep

\* Plain jobs, and cancelling: the snippets are as they were.
LEMMA JobsKeep ==
  ASSUME RunnerInv,
         \/ \E p \in Plain : PostPlain(p) \/ FinishPlain(p)
         \/ \E j \in Jobs : Cancel(j)
  PROVE  RunnerInv'
  <1> USE SnippetAssumption DEF RunnerInv, Sound
  <1>1. PICK j \in Jobs, status \in Statuses :
          /\ job' = [job EXCEPT ![j] = status] /\ status # "none"
          /\ j \in Clips => job[j] # "none"
    BY DEF PostPlain, FinishPlain, Cancel, Jobs, Statuses
  <1>2. UNCHANGED <<work, victim, diskVars, serviceVars, faults>>
    BY DEF PostPlain, FinishPlain, Cancel
  <1>3. job' \in [Jobs -> Statuses]
    BY <1>1 DEF TypeOK
  <1>4. Begun'
    BY <1>1, <1>2 DEF Begun, TypeOK, Jobs
  <1>5. TypeOK' /\ RegistryBounded'
    BY <1>2, <1>3 DEF TypeOK, RegistryBounded, diskVars, serviceVars
  <1>6. RegisteredHasFile' /\ Entered' /\ Leaving' /\ Kept'
    BY <1>2 DEF RegisteredHasFile, Entered, Leaving, Kept, Registered, Victims, diskVars, serviceVars
  <1>7. Quiet' /\ Phased' /\ ClosedIsClean'
    BY <1>2 DEF Quiet, Phased, ClosedIsClean, InFlight, diskVars, serviceVars
  <1>8. QED
    BY <1>4, <1>5, <1>6, <1>7

LEMMA RunnerBegins == Init => RunnerInv
  <1> SUFFICES ASSUME Init PROVE RunnerInv
    OBVIOUS
  <1>1. Registered = {} /\ Victims \subseteq {None}
    BY DEF Init, Registered, Victims
  <1>2. TypeOK /\ RegistryBounded
    BY SnippetAssumption DEF Init, TypeOK, RegistryBounded, Statuses, Works
  <1>3. RegisteredHasFile /\ Entered /\ Leaving /\ Kept /\ Begun
    BY <1>1, SnippetAssumption DEF Init, RegisteredHasFile, Entered, Leaving, Kept, Begun, Jobs
  <1>4. Quiet /\ Phased /\ ClosedIsClean
    BY DEF Init, Quiet, Phased, ClosedIsClean
  <1>5. QED
    BY <1>2, <1>3, <1>4 DEF RunnerInv, Sound

LEMMA StepKeeps == RunnerInv /\ [Next]_vars => RunnerInv'
  <1> SUFFICES ASSUME RunnerInv, [Next]_vars PROVE RunnerInv'
    OBVIOUS
  <1>1. CASE Next
    BY <1>1, RequestsKeep, ExtractionKeeps, JobsKeep, WindDownKeeps DEF Next
  <1>2. CASE UNCHANGED vars
    BY <1>2 DEF vars, jobVars, diskVars, serviceVars, RunnerInv, Sound, TypeOK, RegistryBounded,
                RegisteredHasFile, Entered, Leaving, Kept, Begun, Registered, Victims, Quiet, Phased,
                ClosedIsClean, InFlight
  <1>3. QED
    BY <1>1, <1>2

LEMMA RunnerInvHolds == Spec => []RunnerInv
  BY RunnerBegins, StepKeeps, PTL DEF Spec

-----------------------------------------------------------------------------
(***************************************************************************)
(* Theorems.                                                               *)
(***************************************************************************)
\* However many jobs run, are deleted, evicted or cleaned away, the registry stays within
\* its bound and, while file operations succeed, agrees with the directory.
THEOREM RegistryStaysSound == Spec => []RegistrySound
  <1>1. RunnerInv => RegistrySound
    <2> SUFFICES ASSUME RunnerInv PROVE RegistrySound
      OBVIOUS
    <2>1. TypeOK /\ RegistryBounded /\ RegisteredHasFile
      BY DEF RunnerInv, Sound
    <2>2. NoLostFiles
      <3> SUFFICES ASSUME faults = 0, cleanup # "deleting", closing # "sweeping", NEW c \in files
                   PROVE  c \in Registered \cup removing \cup InFlight \cup {victim[d] : d \in InFlight}
        BY DEF NoLostFiles
      <3>1. c \in Clips /\ work[c] \in Works /\ work[c] # "none"
        BY DEF RunnerInv, Sound, TypeOK, Kept
      <3>2. CASE work[c] \in {"evicting", "done"}
        <4>1. c \in Registered \cup removing \cup Victims
          BY <3>2 DEF RunnerInv, Sound, Kept
        <4>2. ASSUME NEW d \in Clips, victim[d] = c
              PROVE  d \in InFlight
          BY <3>1, <4>2, SnippetAssumption DEF RunnerInv, Sound, TypeOK, InFlight
        <4>3. QED
          BY <4>1, <4>2 DEF Victims
      <3>3. CASE work[c] \notin {"evicting", "done"}
        BY <3>1, <3>3 DEF InFlight
      <3>4. QED
        BY <3>2, <3>3
    <2>3. QED
      BY <2>1, <2>2 DEF RegistrySound
  <1>2. QED
    BY <1>1, RunnerInvHolds, PTL

\* After close() nothing is under way or registered, and no file is left unless removing
\* one failed.
THEOREM CloseIsClean == Spec => []ClosedIsClean
  <1>1. RunnerInv => ClosedIsClean
    BY DEF RunnerInv
  <1>2. QED
    BY <1>1, RunnerInvHolds, PTL

\* A cleanup leaves an empty directory, with nothing under way that could fill it.
THEOREM CleanupLeavesNothing == Spec => CleanupIsThorough
  <1> DEFINE Thorough == cleanup = "deleting" /\ cleanup' = "none" =>
                           /\ InFlight' = {} /\ registry' = <<>>
                           /\ faults' = faults => files' = {}
  <1>1. RunnerInv /\ [Next]_vars => [Thorough]_vars
    <2> SUFFICES ASSUME RunnerInv, Next, cleanup = "deleting", cleanup' = "none"
                 PROVE  /\ InFlight' = {} /\ registry' = <<>>
                        /\ faults' = faults => files' = {}
      OBVIOUS
    <2>1. InFlight = {} /\ registry = <<>> /\ faults \in Nat
      BY SnippetAssumption DEF RunnerInv, Sound, Quiet, TypeOK
    <2>2. CleanupDone \/ CleanupFails
      BY DEF Next, PostClip, GetSnippet, DeleteSnippet, RemoveFile, Step, ExtractedInVain, Extracted,
             ExtractedEvicting, ExtractionFails, Evicted, EvictionFails, Discarded, DiscardFails, Failed,
             FailureFails, PostPlain, FinishPlain, Cancel, StartCleanup, CleanupStep, CleanupDrained,
             Close, CloseStep, ConnectionsClosed, CleanupAwaited, CloseDrained, Closed, serviceVars
    <2>3. QED
      BY <2>1, <2>2 DEF CleanupDone, CleanupFails, Fault, InFlight, jobVars
  <1>2. QED
    BY <1>1, RunnerInvHolds, PTL DEF Spec, CleanupIsThorough

\* A cancelled plain job stays cancelled.
THEOREM CancelledStays == Spec => CancelledPlainStays
  <1> DEFINE Stays == \A p \in Plain : job[p] = "cancelled" => job'[p] = "cancelled"
  <1>1. RunnerInv /\ [Next]_vars => [Stays]_vars
    <2> SUFFICES ASSUME RunnerInv, Next, NEW p \in Plain, job[p] = "cancelled"
                 PROVE  job'[p] = "cancelled"
      OBVIOUS
    <2>1. job \in [Jobs -> Statuses] /\ p \in Jobs /\ p \notin Clips
      BY SnippetAssumption DEF RunnerInv, Sound, TypeOK, Jobs
    <2>2. CASE \E c \in Clips : PostClip(c) \/ GetSnippet(c) \/ DeleteSnippet(c) \/ RemoveFile(c) \/ Step(c)
      BY <2>1, <2>2 DEF PostClip, GetSnippet, DeleteSnippet, RemoveFile, Step, ExtractedInVain, Extracted,
             ExtractedEvicting, ExtractionFails, Evicted, EvictionFails, Discarded, DiscardFails, Failed,
             FailureFails, jobVars, Jobs
    <2>3. CASE \E q \in Plain : PostPlain(q) \/ FinishPlain(q)
      BY <2>1, <2>3 DEF PostPlain, FinishPlain, Jobs
    <2>4. CASE \E j \in Jobs : Cancel(j)
      BY <2>1, <2>4 DEF Cancel
    <2>5. CASE StartCleanup \/ CleanupStep \/ Close \/ CloseStep
      BY <2>5 DEF StartCleanup, CleanupStep, CleanupDrained, CleanupDone, CleanupFails, Close, CloseStep,
                  ConnectionsClosed, CleanupAwaited, CloseDrained, Closed, jobVars
    <2>6. QED
      BY <2>2, <2>3, <2>4, <2>5 DEF Next
  <1>2. QED
    BY <1>1, RunnerInvHolds, PTL DEF Spec, CancelledPlainStays

-----------------------------------------------------------------------------
(***************************************************************************)
(* The life of a service process.                                          *)
(***************************************************************************)

Started == {"binding", "preparing", "opening", "ready", "serving", "failing",
            "closing", "draining", "stopped"}
Scratched == {"opening", "ready", "serving", "closing", "draining", "stopped"}
Opened == {"ready", "serving", "closing", "draining"}
Unopened == {"new", "checking", "binding", "preparing", "opening"}

\* What a process has in its phase.
Shape(s) ==
  /\ admission[s] <=> phase[s] = "serving"
  /\ listening[s] =>
       \/ phase[s] = "serving"
       \/ mode.port = "ephemeral" /\ phase[s] \in {"preparing", "opening", "ready", "failing"}
  /\ phase[s] = "serving" => listening[s]
  /\ phase[s] = "binding" => mode.port = "ephemeral"
  /\ phase[s] \in {"preparing", "opening", "ready"} /\ mode.port = "ephemeral" => listening[s]
  /\ phase[s] \in Started => delivery[s] = "holding"
  /\ phase[s] \in {"new"} => delivery[s] = "none"
  /\ phase[s] \in {"failed", "exited"} => delivery[s] \in {"none", "closed"}
  /\ phase[s] \in {"checking", "undelivering"} => Delivered(s)
  /\ phase[s] \in Scratched => scratch[s]
  /\ phase[s] \in {"new", "checking", "binding", "preparing", "undelivering", "failed"} => ~scratch[s]
  /\ phase[s] \in Unopened => store[s] = "none"
  /\ phase[s] \in Opened => store[s] = "open"
  /\ phase[s] = "failing" => store[s] \in {"none", "open"}
  /\ phase[s] \in {"undelivering", "failed"} => store[s] \in {"none", "closed"}
  /\ phase[s] \in {"stopped", "exited"} => store[s] = "closed"

\* Whose socket is at the delivery path.
SocketOwned ==
  /\ socketFile # Nobody => mode.delivery = "socket" /\ Delivered(socketFile)
  /\ mode.delivery = "socket" =>
       \A s \in Processes : Delivered(s) => socketFile = s \/ s \in pulled

\* A fixed port is bound once.
OneListener ==
  mode.port = "fixed" => \A s, t \in Processes : listening[s] /\ listening[t] => s = t

\* Who is connected to whom.
CallsHeld ==
  \A c \in Calls :
    /\ calls[c].began \in {"none", "serving"}
    /\ calls[c].at \in {"admitting", "confirming", "handling"} => calls[c].to \in Processes
    /\ calls[c].at = "unsent" => ~calls[c].connected
    /\ calls[c].connected => calls[c].to \in Processes /\ phase[calls[c].to] \in {"serving", "closing"}

LifeInv == LifeTypeOK /\ (\A s \in Processes : Shape(s)) /\ SocketOwned /\ OneListener /\ CallsHeld

-----------------------------------------------------------------------------
LEMMA LifeBegins == LifeInit => LifeInv
  <1> SUFFICES ASSUME LifeInit PROVE LifeInv
    OBVIOUS
  <1>1. LifeTypeOK
    BY LifeAssumption DEF LifeInit, LifeTypeOK, Phases, CallRecords, Unsent
  <1>2. \A s \in Processes : Shape(s)
    BY DEF LifeInit, Shape, Started, Scratched, Opened, Unopened, Delivered
  <1>3. SocketOwned /\ OneListener
    BY DEF LifeInit, SocketOwned, OneListener, Delivered
  <1>4. CallsHeld
    BY DEF LifeInit, CallsHeld, Unsent
  <1>5. QED
    BY <1>1, <1>2, <1>3, <1>4 DEF LifeInv

\* A step of one process leaves the others as they are.
OnlyOf(s) ==
  /\ mode' = mode
  /\ \A t \in Processes \ {s} :
       /\ phase'[t] = phase[t] /\ delivery'[t] = delivery[t] /\ listening'[t] = listening[t]
       /\ admission'[t] = admission[t] /\ scratch'[t] = scratch[t] /\ store'[t] = store[t]

LEMMA OthersKeepShape ==
  ASSUME NEW s \in Processes, \A t \in Processes : Shape(t), OnlyOf(s), Shape(s)'
  PROVE  \A t \in Processes : Shape(t)'
  <1> SUFFICES ASSUME NEW t \in Processes, t # s PROVE Shape(t)'
    OBVIOUS
  <1>1. QED
    BY DEF OnlyOf, Shape, Delivered

\* Requests keep within bounds, whatever of them ends or is dropped.
GoodCall(call) ==
  /\ call \in CallRecords
  /\ call.began \in {"none", "serving"}
  /\ call.at \in {"admitting", "confirming", "handling"} => call.to \in Processes
  /\ call.at = "unsent" => ~call.connected
  /\ call.connected => call.to \in Processes /\ phase[call.to] \in {"serving", "closing"}

LEMMA CallsAreGood ==
  ASSUME LifeTypeOK, CallsHeld, NEW c \in Calls
  PROVE  GoodCall(calls[c])
  BY DEF LifeTypeOK, CallsHeld, GoodCall

LEMMA LessIsGood ==
  ASSUME NEW call, GoodCall(call)
  PROVE  /\ GoodCall([call EXCEPT !.lingers = FALSE, !.connected = FALSE])
         /\ GoodCall([call EXCEPT !.connected = FALSE, !.lingers = FALSE])
         /\ GoodCall([call EXCEPT !.connected = FALSE, !.lingers = FALSE, !.at = "over"])
         /\ GoodCall([call EXCEPT !.at = "over", !.connected = FALSE])
         /\ GoodCall([call EXCEPT !.at = "over", !.lingers = TRUE])
  BY DEF GoodCall, CallRecords

\* Every request is as before, or of the process s and with nobody connected, while no
\* other process moves.
LEMMA FewerCalls ==
  ASSUME LifeTypeOK, CallsHeld, NEW s \in Processes, OnlyOf(s),
         calls' = [c \in Calls |-> calls'[c]],
         \A c \in Calls :
            \/ calls'[c] = calls[c] /\ (calls[c].connected => calls[c].to # s)
            \/ calls'[c] = [calls[c] EXCEPT !.connected = FALSE, !.lingers = FALSE]
            \/ calls'[c] = [calls[c] EXCEPT !.connected = FALSE, !.lingers = FALSE, !.at = "over"]
  PROVE  calls' \in [Calls -> CallRecords] /\ CallsHeld'
  <1>1. ASSUME NEW c \in Calls
        PROVE  GoodCall(calls'[c]) /\ (calls'[c].connected => calls'[c].to # s)
    <2>1. calls[c] \in CallRecords
      BY DEF LifeTypeOK
    <2>2. calls'[c].connected => calls'[c].to # s
      BY <2>1 DEF CallRecords
    <2>3. GoodCall(calls[c])
      BY CallsAreGood
    <2>4. /\ GoodCall([calls[c] EXCEPT !.connected = FALSE, !.lingers = FALSE])
          /\ GoodCall([calls[c] EXCEPT !.connected = FALSE, !.lingers = FALSE, !.at = "over"])
      BY <2>3, LessIsGood
    <2>5. GoodCall(calls'[c])
      BY <2>3, <2>4
    <2>6. QED
      BY <2>2, <2>5
  <1>2. QED
    BY <1>1 DEF GoodCall, CallsHeld, OnlyOf

\* The steps of a start.
LEMMA StartKeepsLife ==
  ASSUME LifeInv, NEW s \in Processes, Starting(s)
  PROVE  LifeInv'
  <1> USE LifeAssumption DEF LifeInv
  <1>1. CASE MakeDelivery(s)
    <2>1. LifeTypeOK'
      BY <1>1 DEF MakeDelivery, LifeTypeOK, Phases
    <2>2. OnlyOf(s)
      BY <1>1 DEF MakeDelivery, LifeTypeOK, OnlyOf
    <2>3. Shape(s)'
      BY <1>1 DEF MakeDelivery, LifeTypeOK, Shape, Started, Scratched, Opened, Unopened, Delivered
    <2>4. SocketOwned'
      BY <1>1 DEF MakeDelivery, LifeTypeOK, SocketOwned, Shape, Started, Delivered
    <2>5. OneListener'
      BY <1>1 DEF MakeDelivery, LifeTypeOK, OneListener
    <2>6. CallsHeld'
      BY <1>1 DEF MakeDelivery, LifeTypeOK, CallsHeld
    <2>7. QED
      BY <2>1, <2>2, <2>3, <2>4, <2>5, <2>6, OthersKeepShape
  <1>2. CASE HandOver(s)
    <2>1. LifeTypeOK'
      BY <1>2 DEF HandOver, Goes, LifeTypeOK, Phases
    <2>2. OnlyOf(s)
      BY <1>2 DEF HandOver, Goes, LifeTypeOK, OnlyOf
    <2>3. Shape(s)'
      BY <1>2 DEF HandOver, Goes, LifeTypeOK, Shape, Started, Scratched, Opened, Unopened, Delivered
    <2>4. SocketOwned'
      BY <1>2 DEF HandOver, Goes, LifeTypeOK, SocketOwned, Shape, Started, Delivered
    <2>5. OneListener'
      BY <1>2 DEF HandOver, Goes, LifeTypeOK, OneListener
    <2>6. CallsHeld'
      BY <1>2 DEF HandOver, Goes, LifeTypeOK, CallsHeld
    <2>7. QED
      BY <2>1, <2>2, <2>3, <2>4, <2>5, <2>6, OthersKeepShape
  <1>3. CASE RefuseStart(s)
    <2>1. LifeTypeOK'
      BY <1>3 DEF RefuseStart, Goes, LifeTypeOK, Phases
    <2>2. OnlyOf(s)
      BY <1>3 DEF RefuseStart, Goes, LifeTypeOK, OnlyOf
    <2>3. Shape(s)'
      BY <1>3 DEF RefuseStart, Goes, LifeTypeOK, Shape, Started, Scratched, Opened, Unopened, Delivered
    <2>4. SocketOwned'
      BY <1>3 DEF RefuseStart, Goes, LifeTypeOK, SocketOwned, Shape, Started, Delivered
    <2>5. OneListener'
      BY <1>3 DEF RefuseStart, Goes, LifeTypeOK, OneListener
    <2>6. CallsHeld'
      BY <1>3 DEF RefuseStart, Goes, LifeTypeOK, CallsHeld
    <2>7. QED
      BY <2>1, <2>2, <2>3, <2>4, <2>5, <2>6, OthersKeepShape
  <1>4. CASE Bind(s)
    <2>1. LifeTypeOK'
      BY <1>4 DEF Bind, Goes, Listens, PortFree, LifeTypeOK, Phases
    <2>2. OnlyOf(s)
      BY <1>4 DEF Bind, Goes, Listens, PortFree, LifeTypeOK, OnlyOf
    <2>3. Shape(s)'
      BY <1>4 DEF Bind, Goes, Listens, PortFree, LifeTypeOK, Shape, Started, Scratched, Opened, Unopened, Delivered
    <2>4. SocketOwned'
      BY <1>4 DEF Bind, Goes, Listens, PortFree, LifeTypeOK, SocketOwned, Shape, Started, Delivered
    <2>5. OneListener'
      BY <1>4 DEF Bind, Goes, Listens, PortFree, LifeTypeOK, OneListener
    <2>6. CallsHeld'
      BY <1>4 DEF Bind, Goes, Listens, PortFree, LifeTypeOK, CallsHeld
    <2>7. QED
      BY <2>1, <2>2, <2>3, <2>4, <2>5, <2>6, OthersKeepShape
  <1>5. CASE MakeScratch(s)
    <2>1. LifeTypeOK'
      BY <1>5 DEF MakeScratch, Goes, LifeTypeOK, Phases
    <2>2. OnlyOf(s)
      BY <1>5 DEF MakeScratch, Goes, LifeTypeOK, OnlyOf
    <2>3. Shape(s)'
      BY <1>5 DEF MakeScratch, Goes, LifeTypeOK, Shape, Started, Scratched, Opened, Unopened, Delivered
    <2>4. SocketOwned'
      BY <1>5 DEF MakeScratch, Goes, LifeTypeOK, SocketOwned, Shape, Started, Delivered
    <2>5. OneListener'
      BY <1>5 DEF MakeScratch, Goes, LifeTypeOK, OneListener
    <2>6. CallsHeld'
      BY <1>5 DEF MakeScratch, Goes, LifeTypeOK, CallsHeld
    <2>7. QED
      BY <2>1, <2>2, <2>3, <2>4, <2>5, <2>6, OthersKeepShape
  <1>6. CASE OpenStore(s)
    <2>1. LifeTypeOK'
      BY <1>6 DEF OpenStore, Goes, LifeTypeOK, Phases
    <2>2. OnlyOf(s)
      BY <1>6 DEF OpenStore, Goes, LifeTypeOK, OnlyOf
    <2>3. Shape(s)'
      BY <1>6 DEF OpenStore, Goes, LifeTypeOK, Shape, Started, Scratched, Opened, Unopened, Delivered
    <2>4. SocketOwned'
      BY <1>6 DEF OpenStore, Goes, LifeTypeOK, SocketOwned, Shape, Started, Delivered
    <2>5. OneListener'
      BY <1>6 DEF OpenStore, Goes, LifeTypeOK, OneListener
    <2>6. CallsHeld'
      BY <1>6 DEF OpenStore, Goes, LifeTypeOK, CallsHeld
    <2>7. QED
      BY <2>1, <2>2, <2>3, <2>4, <2>5, <2>6, OthersKeepShape
  <1>7. CASE Serve(s)
    <2>1. mode.port \in {"fixed", "ephemeral"}
      BY DEF LifeTypeOK
    <2>2. listening' \in [Processes -> BOOLEAN] /\ listening'[s]
      BY <1>7, <2>1 DEF Serve, Goes, Listens, LifeTypeOK, Shape
    <2>3. LifeTypeOK'
      BY <1>7, <2>2 DEF Serve, Goes, LifeTypeOK, Phases
    <2>4. OnlyOf(s)
      BY <1>7 DEF Serve, Goes, Listens, LifeTypeOK, OnlyOf
    <2>5. phase'[s] = "serving" /\ admission'[s]
      BY <1>7 DEF Serve, Goes, LifeTypeOK
    <2>6. Shape(s)'
      BY <1>7, <2>2, <2>5 DEF Serve, Goes, Shape, Started, Scratched, Opened, Unopened, Delivered
    <2>7. SocketOwned'
      BY <1>7 DEF Serve, SocketOwned, Delivered
    <2>8. OneListener'
      BY <1>7 DEF Serve, Listens, PortFree, LifeTypeOK, OneListener
    <2>9. CallsHeld'
      BY <1>7 DEF Serve, Goes, LifeTypeOK, CallsHeld
    <2>10. QED
      BY <2>3, <2>4, <2>6, <2>7, <2>8, <2>9, OthersKeepShape
  <1>8. CASE FailStart(s)
    <2>1. OnlyOf(s)
      BY <1>8 DEF FailStart, LifeTypeOK, OnlyOf
    <2>2. \A c \in Calls : c \notin Of(s) => calls[c].to # s
      BY DEF Of
    <2>3. calls' = Dropped(s)
      BY <1>8 DEF FailStart
    <2>4. calls' \in [Calls -> CallRecords] /\ CallsHeld'
      BY <2>1, <2>2, <2>3, FewerCalls DEF Dropped
    <2>5. LifeTypeOK'
      <3>1. scratch' \in [Processes -> BOOLEAN]
        BY <1>8 DEF FailStart, LifeTypeOK
      <3>2. QED
        BY ZenonT(40), <1>8, <2>4, <3>1 DEF FailStart, LifeTypeOK, Phases
    <2>6. Shape(s)'
      BY <1>8 DEF FailStart, LifeTypeOK, Shape, Started, Scratched, Opened, Unopened, Delivered
    <2>7. SocketOwned'
      BY <1>8 DEF FailStart, LifeTypeOK, SocketOwned, Shape, Started, Delivered
    <2>8. OneListener'
      BY <1>8 DEF FailStart, LifeTypeOK, OneListener
    <2>9. QED
      BY <2>1, <2>4, <2>5, <2>6, <2>7, <2>8, OthersKeepShape
  <1>9. CASE CleanUpStart(s)
    <2>1. LifeTypeOK'
      BY <1>9 DEF CleanUpStart, Goes, ScratchAfter, LifeTypeOK, Phases
    <2>2. OnlyOf(s)
      BY <1>9 DEF CleanUpStart, Goes, ScratchAfter, LifeTypeOK, OnlyOf
    <2>3. Shape(s)'
      BY <1>9 DEF CleanUpStart, Goes, ScratchAfter, LifeTypeOK, Shape, Started, Scratched, Opened, Unopened, Delivered
    <2>4. SocketOwned'
      BY <1>9 DEF CleanUpStart, Goes, ScratchAfter, LifeTypeOK, SocketOwned, Shape, Started, Delivered
    <2>5. OneListener'
      BY <1>9 DEF CleanUpStart, Goes, ScratchAfter, LifeTypeOK, OneListener
    <2>6. CallsHeld'
      BY <1>9 DEF CleanUpStart, Goes, ScratchAfter, LifeTypeOK, CallsHeld
    <2>7. QED
      BY <2>1, <2>2, <2>3, <2>4, <2>5, <2>6, OthersKeepShape
  <1>10. QED
    BY <1>1, <1>2, <1>3, <1>4, <1>5, <1>6, <1>7, <1>8, <1>9 DEF Starting

\* The steps of an end.
LEMMA StopKeepsLife ==
  ASSUME LifeInv, NEW s \in Processes, Stopping(s)
  PROVE  LifeInv'
  <1> USE LifeAssumption DEF LifeInv
  <1>1. CASE Signal(s)
    <2>1. \A c \in Calls :
            /\ calls'[c] \in CallRecords /\ calls'[c].to = calls[c].to
            /\ calls'[c].at = calls[c].at /\ calls'[c].began = calls[c].began
            /\ calls'[c].connected => calls[c].connected
      <3> SUFFICES ASSUME NEW c \in Calls
                   PROVE  /\ calls'[c] \in CallRecords /\ calls'[c].to = calls[c].to
                          /\ calls'[c].at = calls[c].at /\ calls'[c].began = calls[c].began
                          /\ calls'[c].connected => calls[c].connected
        OBVIOUS
      <3>1. calls[c] \in CallRecords
        BY DEF LifeTypeOK
      <3>2. calls'[c] \in {calls[c], [calls[c] EXCEPT !.lingers = FALSE, !.connected = FALSE]}
        BY <1>1 DEF Signal
      <3>3. QED
        BY <3>1, <3>2 DEF CallRecords
    <2>2. calls' \in [Calls -> CallRecords]
      BY <1>1, <2>1 DEF Signal
    <2>3. LifeTypeOK'
      BY ZenonT(40), <1>1, <2>2 DEF Signal, Goes, LifeTypeOK, Phases
    <2>4. OnlyOf(s)
      BY <1>1 DEF Signal, Goes, LifeTypeOK, OnlyOf
    <2>5. Shape(s)'
      BY ZenonT(40), <1>1 DEF Signal, Goes, LifeTypeOK, Shape, Started, Scratched, Opened, Unopened, Delivered
    <2>6. SocketOwned'
      BY <1>1 DEF Signal, Goes, SocketOwned, Delivered
    <2>7. OneListener'
      BY <1>1 DEF Signal, Goes, LifeTypeOK, OneListener
    <2>8. phase'[s] = "closing"
      BY <1>1 DEF Signal, Goes, LifeTypeOK
    <2>9. CallsHeld'
      BY <2>1, <2>4, <2>8 DEF CallsHeld, OnlyOf
    <2>10. QED
      BY <2>3, <2>4, <2>5, <2>6, <2>7, <2>9, OthersKeepShape
  <1>2. CASE SecondSignal(s)
    <2>1. LifeTypeOK'
      BY <1>2 DEF SecondSignal, LifeTypeOK, Phases
    <2>2. OnlyOf(s)
      BY <1>2 DEF SecondSignal, LifeTypeOK, OnlyOf
    <2>3. Shape(s)'
      BY <1>2 DEF SecondSignal, LifeTypeOK, Shape, Started, Scratched, Opened, Unopened, Delivered
    <2>4. SocketOwned'
      BY <1>2 DEF SecondSignal, LifeTypeOK, SocketOwned, Shape, Started, Delivered
    <2>5. OneListener'
      BY <1>2 DEF SecondSignal, LifeTypeOK, OneListener
    <2>6. CallsHeld'
      BY <1>2 DEF SecondSignal, LifeTypeOK, CallsHeld
    <2>7. QED
      BY <2>1, <2>2, <2>3, <2>4, <2>5, <2>6, OthersKeepShape
  <1>3. CASE ConnectionsEnd(s)
    <2>1. LifeTypeOK'
      BY <1>3 DEF ConnectionsEnd, Goes, AllLeft, Of, LifeTypeOK, Phases
    <2>2. OnlyOf(s)
      BY <1>3 DEF ConnectionsEnd, Goes, AllLeft, Of, LifeTypeOK, OnlyOf
    <2>3. Shape(s)'
      BY <1>3 DEF ConnectionsEnd, Goes, AllLeft, Of, LifeTypeOK, Shape, Started, Scratched, Opened, Unopened, Delivered
    <2>4. SocketOwned'
      BY <1>3 DEF ConnectionsEnd, Goes, AllLeft, Of, LifeTypeOK, SocketOwned, Shape, Started, Delivered
    <2>5. OneListener'
      BY <1>3 DEF ConnectionsEnd, Goes, AllLeft, Of, LifeTypeOK, OneListener
    <2>6. CallsHeld'
      BY <1>3 DEF ConnectionsEnd, Goes, AllLeft, Of, LifeTypeOK, CallsHeld
    <2>7. QED
      BY <2>1, <2>2, <2>3, <2>4, <2>5, <2>6, OthersKeepShape
  <1>4. CASE CloseStore(s)
    <2>1. LifeTypeOK'
      BY <1>4 DEF CloseStore, Goes, LifeTypeOK, Phases
    <2>2. OnlyOf(s)
      BY <1>4 DEF CloseStore, Goes, LifeTypeOK, OnlyOf
    <2>3. Shape(s)'
      BY <1>4 DEF CloseStore, Goes, LifeTypeOK, Shape, Started, Scratched, Opened, Unopened, Delivered
    <2>4. SocketOwned'
      BY <1>4 DEF CloseStore, Goes, LifeTypeOK, SocketOwned, Shape, Started, Delivered
    <2>5. OneListener'
      BY <1>4 DEF CloseStore, Goes, LifeTypeOK, OneListener
    <2>6. CallsHeld'
      BY <1>4 DEF CloseStore, Goes, LifeTypeOK, CallsHeld
    <2>7. QED
      BY <2>1, <2>2, <2>3, <2>4, <2>5, <2>6, OthersKeepShape
  <1>5. CASE Exit(s)
    <2>1. OnlyOf(s)
      BY <1>5 DEF Exit, CloseDelivery, SocketAfter, Delivered, LifeTypeOK, OnlyOf
    <2>2. \A c \in Calls : c \notin Of(s) => calls[c].to # s
      BY DEF Of
    <2>3. calls' = Ended(s)
      BY <1>5 DEF Exit
    <2>4. calls' \in [Calls -> CallRecords] /\ CallsHeld'
      BY <2>1, <2>2, <2>3, FewerCalls DEF Ended
    <2>5. LifeTypeOK'
      BY <1>5, <2>4 DEF Exit, CloseDelivery, SocketAfter, Delivered, LifeTypeOK, Phases
    <2>6. Shape(s)'
      BY <1>5 DEF Exit, CloseDelivery, SocketAfter, LifeTypeOK, Shape, Started, Scratched, Opened, Unopened, Delivered
    <2>7. SocketOwned'
      BY <1>5 DEF Exit, CloseDelivery, SocketAfter, LifeTypeOK, SocketOwned, Shape, Started, Delivered
    <2>8. OneListener'
      BY <1>5 DEF Exit, CloseDelivery, SocketAfter, Delivered, LifeTypeOK, OneListener
    <2>9. QED
      BY <2>1, <2>4, <2>5, <2>6, <2>7, <2>8, OthersKeepShape
  <1>6. CASE Crash(s)
    <2>1. OnlyOf(s)
      BY <1>6 DEF Crash, Dies, LifeTypeOK, OnlyOf
    <2>2. \A c \in Calls : c \notin Of(s) => calls[c].to # s
      BY DEF Of
    <2>3. calls' = Ended(s)
      BY <1>6 DEF Crash
    <2>4. calls' \in [Calls -> CallRecords] /\ CallsHeld'
      BY <2>1, <2>2, <2>3, FewerCalls DEF Ended
    <2>5. LifeTypeOK'
      BY <1>6, <2>4 DEF Crash, Dies, LifeTypeOK, Phases
    <2>6. Shape(s)'
      BY <1>6 DEF Crash, Dies, LifeTypeOK, Shape, Started, Scratched, Opened, Unopened, Delivered
    <2>7. SocketOwned'
      BY <1>6 DEF Crash, Dies, LifeTypeOK, SocketOwned, Shape, Started, Delivered
    <2>8. OneListener'
      BY <1>6 DEF Crash, Dies, LifeTypeOK, OneListener
    <2>9. QED
      BY <2>1, <2>4, <2>5, <2>6, <2>7, <2>8, OthersKeepShape
  <1>7. CASE Kill(s)
    <2>1. OnlyOf(s)
      BY <1>7 DEF Kill, Dies, LifeTypeOK, OnlyOf
    <2>2. \A c \in Calls : c \notin Of(s) => calls[c].to # s
      BY DEF Of
    <2>3. calls' = Ended(s)
      BY <1>7 DEF Kill
    <2>4. calls' \in [Calls -> CallRecords] /\ CallsHeld'
      BY <2>1, <2>2, <2>3, FewerCalls DEF Ended
    <2>5. LifeTypeOK'
      BY <1>7, <2>4 DEF Kill, Dies, LifeTypeOK, Phases
    <2>6. Shape(s)'
      BY <1>7 DEF Kill, Dies, LifeTypeOK, Shape, Started, Scratched, Opened, Unopened, Delivered
    <2>7. SocketOwned'
      BY <1>7 DEF Kill, Dies, LifeTypeOK, SocketOwned, Shape, Started, Delivered
    <2>8. OneListener'
      BY <1>7 DEF Kill, Dies, LifeTypeOK, OneListener
    <2>9. QED
      BY <2>1, <2>4, <2>5, <2>6, <2>7, <2>8, OthersKeepShape
  <1>8. QED
    BY <1>1, <1>2, <1>3, <1>4, <1>5, <1>6, <1>7 DEF Stopping

\* A request moves, and the processes stay as they are.
LEMMA CallKeepsLife ==
  ASSUME LifeInv, NEW c \in Calls, Calling(c)
  PROVE  LifeInv'
  <1> USE LifeAssumption DEF LifeInv
  <1>1. OnlyCalls
    BY DEF Calling, Send, Deny, LingerEnds, Admit, Turned, Handle, Respond, Leave
  <1>2. (\A s \in Processes : Shape(s)') /\ SocketOwned' /\ OneListener'
    BY <1>1 DEF OnlyCalls, processVars, Shape, SocketOwned, OneListener, Delivered
  <1>3. ASSUME NEW next, GoodCall(next), Becomes(c, next)
        PROVE  LifeInv'
    <2>1. LifeTypeOK'
      BY <1>1, <1>3 DEF OnlyCalls, processVars, LifeTypeOK, Becomes, GoodCall
    <2>2. CallsHeld'
      BY <1>1, <1>3 DEF OnlyCalls, processVars, LifeTypeOK, Becomes, CallsHeld, GoodCall
    <2>3. QED
      BY <1>2, <2>1, <2>2
  <1>4. GoodCall(calls[c]) /\ calls[c] \in CallRecords
    BY CallsAreGood DEF LifeTypeOK
  <1>5. GoodCall(Over(c))
    BY <1>4, LessIsGood DEF Over
  <1>6. CASE \E s \in Processes : Send(c, s)
    <2>1. PICK s \in Processes : Send(c, s)
      BY <1>6
    <2>2. admission[s] => phase[s] = "serving"
      BY DEF Shape
    <2> DEFINE sent == [calls[c] EXCEPT !.to = s]
    <2>3. CASE admission[s]
      <3>1. GoodCall([sent EXCEPT !.at = "admitting", !.connected = TRUE])
        BY <1>4, <2>2, <2>3 DEF GoodCall, CallRecords
      <3>2. QED
        BY <1>3, <2>1, <2>3, <3>1 DEF Send
    <2>4. CASE ~admission[s]
      <3>1. ~calls[c].connected
        BY <1>4, <2>1 DEF Send, GoodCall
      <3>2. GoodCall([sent EXCEPT !.at = "over"])
        BY <1>4, <3>1 DEF GoodCall, CallRecords
      <3>3. QED
        BY <1>3, <2>1, <2>4, <3>2 DEF Send
    <2>5. QED
      BY <2>3, <2>4
  <1>7. CASE Deny(c)
    BY <1>3, <1>4, <1>5, <1>7, LessIsGood DEF Deny
  <1>8. CASE LingerEnds(c)
    BY <1>3, <1>4, <1>8, LessIsGood DEF LingerEnds
  <1>9. CASE Admit(c)
    <2>1. GoodCall([calls[c] EXCEPT !.at = "confirming"])
      BY <1>4, <1>9 DEF Admit, GoodCall, CallRecords
    <2>2. QED
      BY <1>3, <1>5, <1>9, <2>1 DEF Admit
  <1>10. CASE Turned(c)
    BY <1>3, <1>5, <1>10 DEF Turned
  <1>11. CASE Handle(c)
    <2>1. calls[c].to \in Processes /\ phase[calls[c].to] = "serving"
      BY <1>4, <1>11 DEF Handle, MayHandle, GoodCall, Shape
    <2>2. GoodCall([calls[c] EXCEPT !.at = "handling", !.began = phase[calls[c].to]])
      BY <1>4, <2>1 DEF GoodCall, CallRecords, Phases
    <2>3. QED
      BY <1>3, <1>11, <2>2 DEF Handle
  <1>12. CASE Respond(c)
    BY <1>3, <1>5, <1>12 DEF Respond
  <1>13. CASE Leave(c)
    BY <1>3, <1>4, <1>5, <1>13, LessIsGood DEF Leave
  <1>14. QED
    BY <1>6, <1>7, <1>8, <1>9, <1>10, <1>11, <1>12, <1>13 DEF Calling

LEMMA RemoveSocketKeepsLife ==
  ASSUME LifeInv, RemoveSocket
  PROVE  LifeInv'
  <1> USE LifeAssumption DEF LifeInv
  <1>1. LifeTypeOK'
    BY DEF RemoveSocket, processVars, LifeTypeOK
  <1>2. \A s \in Processes : Shape(s)'
    BY DEF RemoveSocket, processVars, Shape, Delivered
  <1>3. SocketOwned'
    BY DEF RemoveSocket, processVars, SocketOwned, Delivered, LifeTypeOK
  <1>4. OneListener' /\ CallsHeld'
    BY DEF RemoveSocket, processVars, OneListener, CallsHeld
  <1>5. QED
    BY <1>1, <1>2, <1>3, <1>4

LEMMA StepKeepsLife == LifeInv /\ [LifeNext]_lifeVars => LifeInv'
  <1> SUFFICES ASSUME LifeInv, [LifeNext]_lifeVars PROVE LifeInv'
    OBVIOUS
  <1>1. CASE LifeNext
    BY <1>1, StartKeepsLife, StopKeepsLife, CallKeepsLife, RemoveSocketKeepsLife DEF LifeNext
  <1>2. CASE UNCHANGED lifeVars
    BY <1>2 DEF lifeVars, processVars, LifeInv, LifeTypeOK, Shape, Delivered, SocketOwned,
                OneListener, CallsHeld
  <1>3. QED
    BY <1>1, <1>2

LEMMA LifeInvHolds == LifeSpec => []LifeInv
  BY LifeBegins, StepKeepsLife, PTL DEF LifeSpec

-----------------------------------------------------------------------------
\* Handlers begin only in a process that serves and have its store while anybody waits
\* for them; a process that serves has its port, store, run directory and socket; a
\* failed start or an orderly end leaves nothing behind.
THEOREM ServiceStaysWhole == LifeSpec => []ServiceWhole
  <1>1. LifeInv => ServiceWhole
    <2> SUFFICES ASSUME LifeInv PROVE ServiceWhole
      OBVIOUS
    <2> USE DEF LifeInv
    <2>1. HandlersHaveStore
      <3> SUFFICES ASSUME NEW c \in Calls
                   PROVE  /\ calls[c].began \in {"none", "serving"}
                          /\ calls[c].at = "handling" /\ calls[c].connected => store[calls[c].to] = "open"
        BY DEF HandlersHaveStore
      <3>1. QED
        BY DEF CallsHeld, Shape, Opened
    <2>2. ServingIsWhole
      BY DEF ServingIsWhole, Shape, Started, Scratched, Opened, OneListener, SocketOwned, Delivered
    <2>3. NothingLeftBehind
      BY LifeAssumption DEF NothingLeftBehind, Shape, SocketOwned, Delivered
    <2>4. QED
      BY <2>1, <2>2, <2>3 DEF ServiceWhole
  <1>2. QED
    BY <1>1, LifeInvHolds, PTL

-----------------------------------------------------------------------------
(***************************************************************************)
(* The word services: selections of a sequence, a lookup, an answer.       *)
(***************************************************************************)
\* A set of numbers has a least one: what stands for an induction here.
LEMMA LeastNumber ==
  ASSUME NEW S \in SUBSET Nat, S # {}
  PROVE  \E n \in S : \A k \in S : n <= k
  <1> DEFINE R == OpToRel(<, Nat)
  <1>1. IsWellFoundedOn(R, Nat)
    BY NatLessThanWellFounded
  <1>2. \A a, b \in Nat : a < b => <<a, b>> \in R
    BY DEF OpToRel
  <1> HIDE DEF R
  <1>3. PICK n \in S : \A k \in S : ~ (<<k, n>> \in R)
    BY <1>1, WFMin
  <1>4. ASSUME NEW k \in S PROVE n <= k
    <2>1. n \in Nat /\ k \in Nat
      OBVIOUS
    <2>2. ~ (k < n)
      BY <1>2, <1>3, <2>1
    <2>3. QED
      BY <2>1, <2>2
  <1>5. QED
    BY <1>4

\* The first m values increase, and numbers in order.
Increases(f, m) == \A i, j \in 1 .. m : i < j => f[i] < f[j]
Ordered(K) == \E f \in [1 .. Cardinality(K) -> K] : Increases(f, Cardinality(K))

\* Sets of positions are finite.
LEMMA Counted ==
  ASSUME NEW n \in Nat, NEW K \in SUBSET (1 .. n)
  PROVE  IsFiniteSet(K) /\ Cardinality(K) \in Nat
  <1>1. IsFiniteSet(1 .. n)
    BY FS_Interval
  <1>2. IsFiniteSet(K)
    BY <1>1, FS_Subset
  <1> QED
    BY <1>2, FS_CardinalityType

\* With the order of the smaller positions, there is one of all.
LEMMA OrderGrows ==
  ASSUME NEW n \in Nat \ {0}, NEW K \in SUBSET (1 .. n), n \in K, Ordered(K \ {n})
  PROVE  Ordered(K)
  <1> DEFINE L == K \ {n}
             c == Cardinality(K)
  <1>1. L \in SUBSET (1 .. n - 1) /\ n - 1 \in Nat
    OBVIOUS
  <1>2. Cardinality(L) = c - 1 /\ c \in Nat /\ Cardinality(L) \in Nat
    BY <1>1, Counted, FS_RemoveElement
  <1>3. PICK f \in [1 .. Cardinality(L) -> L] : Increases(f, Cardinality(L))
    BY DEF Ordered
  <1> DEFINE g == [i \in 1 .. c |-> IF i = c THEN n ELSE f[i]]
  <1>4. \A i \in 1 .. c : i # c => (i \in 1 .. Cardinality(L) /\ f[i] \in L)
    <2> SUFFICES ASSUME NEW i \in 1 .. c, i # c PROVE i \in 1 .. Cardinality(L) /\ f[i] \in L
      OBVIOUS
    <2> HIDE DEF L, c
    <2>1. i \in 1 .. c - 1
      BY <1>2
    <2>2. i \in 1 .. Cardinality(L)
      BY <1>2, <2>1
    <2> QED
      BY <1>3, <2>2
  <1>5. g \in [1 .. c -> K]
    BY <1>4
  <1>6. Increases(g, c)
    <2> SUFFICES ASSUME NEW i \in 1 .. c, NEW j \in 1 .. c, i < j PROVE g[i] < g[j]
      BY DEF Increases
    <2>1. i # c
      BY <1>2
    <2>2. g[i] = f[i] /\ f[i] \in 1 .. n - 1
      BY <1>1, <1>4, <2>1
    <2>3. CASE j = c
      BY <2>2, <2>3
    <2>4. CASE j # c
      <3>1. f[i] < f[j]
        BY <1>3, <1>4, <2>1, <2>4 DEF Increases
      <3> QED
        BY <2>2, <2>4, <3>1
    <2> QED
      BY <2>3, <2>4
  <1> QED
    BY <1>5, <1>6 DEF Ordered

\* Positions have an order: the least bound for which some had none would be no bound.
LEMMA OrderExists ==
  ASSUME NEW n \in Nat, NEW K \in SUBSET (1 .. n)
  PROVE  Ordered(K)
  <1> DEFINE Can(m) == \A L \in SUBSET (1 .. m) : Ordered(L)
             Cannot == {m \in Nat : ~ Can(m)}
  <1> SUFFICES Cannot = {}
    OBVIOUS
  <1> SUFFICES ASSUME Cannot # {} PROVE FALSE
    OBVIOUS
  <1>1. Cannot \in SUBSET Nat
    OBVIOUS
  <1>2. PICK m \in Cannot : \A k \in Cannot : m <= k
    BY <1>1, LeastNumber
  <1>3. PICK L \in SUBSET (1 .. m) : ~ Ordered(L)
    BY <1>2
  <1>4. CASE m = 0
    <2> HIDE DEF Cannot
    <2>0. L = {}
      <3>1. 1 .. m = {}
        BY <1>4
      <3> QED
        BY <1>3, <3>1
    <2>1. L = {} /\ Cardinality(L) = 0
      BY <2>0, FS_EmptySet
    <2>2. [i \in {} |-> i] \in [1 .. 0 -> L]
      OBVIOUS
    <2>3. Increases([i \in {} |-> i], 0)
      BY DEF Increases
    <2> QED
      BY <1>3, <2>1, <2>2, <2>3 DEF Ordered
  <1>5. CASE m # 0
    <2>1. m - 1 \in Nat /\ m \in Nat \ {0} /\ Can(m - 1)
      BY <1>2, <1>5
    <2>2. L \ {m} \in SUBSET (1 .. m - 1)
      BY <1>3, <2>1
    <2>3. Ordered(L \ {m})
      BY <2>1, <2>2
    <2>4. m \in L
      <3> SUFFICES ASSUME m \notin L PROVE FALSE
        OBVIOUS
      <3>1. L \ {m} = L
        OBVIOUS
      <3> QED
        BY <1>3, <2>3, <3>1
    <2> QED
      BY <1>3, <2>1, <2>3, <2>4, OrderGrows
  <1> QED
    BY <1>4, <1>5

\* InOrder goes through all positions, upwards.
LEMMA InOrderIs ==
  ASSUME NEW n \in Nat, NEW K \in SUBSET (1 .. n)
  PROVE  /\ Cardinality(K) \in Nat
         /\ InOrder(K) \in [1 .. Cardinality(K) -> K]
         /\ Increases(InOrder(K), Cardinality(K))
         /\ \A k \in K : \E i \in 1 .. Cardinality(K) : InOrder(K)[i] = k
  <1> DEFINE c == Cardinality(K)
  <1>1. IsFiniteSet(K) /\ c \in Nat
    BY Counted
  <1>2. PICK f \in [1 .. c -> K] : Increases(f, c)
    BY OrderExists DEF Ordered
  <1>3. \A i, j \in DOMAIN f : i < j => f[i] < f[j]
    BY <1>2 DEF Increases
  <1>4. InOrder(K) \in [1 .. c -> K]
        /\ \A i, j \in DOMAIN InOrder(K) : i < j => InOrder(K)[i] < InOrder(K)[j]
    BY <1>3 DEF InOrder
  <1> DEFINE at == InOrder(K)
  <1>11. at \in [1 .. c -> K]
    BY <1>4
  <1>5. \A i, j \in 1 .. c : i < j => at[i] < at[j]
    BY <1>4
  <1>6. at \in Injection(1 .. c, K)
    <2>1. ASSUME NEW i \in 1 .. c, NEW j \in 1 .. c, at[i] = at[j] PROVE i = j
      <3>0. at[i] \in K /\ at[j] \in K
        <4> HIDE DEF at, c
        <4> QED
          BY <1>11
      <3>9. K \subseteq Nat
        OBVIOUS
      <3>1. at[i] \in Nat /\ at[j] \in Nat
        <4> HIDE DEF at, c
        <4> QED
          BY <3>0, <3>9
      <3>2. ~ (i < j) /\ ~ (j < i)
        BY <1>5, <2>1, <3>1
      <3> QED
        BY <3>2
    <2>2. DOMAIN at = 1 .. c
      BY <1>4
    <2>3. IsInjective(at)
      BY <2>1, <2>2 DEF IsInjective
    <2> QED
      BY <1>4, <2>3 DEF Injection
  <1>7. IsFiniteSet(1 .. c) /\ Cardinality(1 .. c) = c
    BY <1>1, FS_Interval
  <1>8. at \in Surjection(1 .. c, K)
    BY <1>1, <1>6, <1>7, FS_Injection
  <1>9. \A k \in K : \E i \in 1 .. c : at[i] = k
    BY <1>8 DEF Surjection
  <1> QED
    BY <1>1, <1>4, <1>5, <1>9 DEF Increases

\* Those picks just the entries at the positions, in their order.
LEMMA ThoseAre ==
  ASSUME NEW S, NEW s \in Seq(S), NEW K \in SUBSET (1 .. Len(s))
  PROVE  /\ Those(s, K) \in Seq(S)
         /\ \A i \in 1 .. Len(Those(s, K)) : InOrder(K)[i] \in K /\ Those(s, K)[i] = s[InOrder(K)[i]]
         /\ Increases(InOrder(K), Len(Those(s, K)))
         /\ \A k \in K : \E i \in 1 .. Len(Those(s, K)) : InOrder(K)[i] = k /\ Those(s, K)[i] = s[k]
  <1> DEFINE c == Cardinality(K)
             at == InOrder(K)
             t == [i \in 1 .. c |-> s[at[i]]]
  <1>1. Len(s) \in Nat
    OBVIOUS
  <1>2. /\ c \in Nat /\ at \in [1 .. c -> K] /\ Increases(at, c)
        /\ \A k \in K : \E i \in 1 .. c : at[i] = k
    BY <1>1, InOrderIs
  <1>3. Those(s, K) = t
    BY <1>2 DEF Those
  <1>4. \A i \in 1 .. c : t[i] \in S
    <2> SUFFICES ASSUME NEW i \in 1 .. c PROVE s[at[i]] \in S
      OBVIOUS
    <2> HIDE DEF c, at
    <2>1. at[i] \in 1 .. Len(s)
      BY <1>2
    <2> QED
      BY <2>1, ElementOfSeq
  <1>5. t \in Seq(S) /\ Len(t) = c
    BY <1>2, <1>4
  <1> HIDE DEF c, at
  <1>6. \A i \in 1 .. c : at[i] \in K /\ t[i] = s[at[i]]
    BY <1>2
  <1>7. \A k \in K : \E i \in 1 .. c : at[i] = k /\ t[i] = s[k]
    BY <1>2
  <1> HIDE DEF t
  <1> QED
    BY <1>2, <1>3, <1>5, <1>6, <1>7 DEF at

\* AtMost is the beginning of a sequence.
LEMMA FewAre ==
  ASSUME NEW S, NEW s \in Seq(S), NEW n \in Nat
  PROVE  /\ AtMost(s, n) \in Seq(S)
         /\ Len(AtMost(s, n)) = (IF Len(s) < n THEN Len(s) ELSE n)
         /\ \A i \in 1 .. Len(AtMost(s, n)) : i \in 1 .. Len(s) /\ AtMost(s, n)[i] = s[i]
  <1> DEFINE m == IF Len(s) < n THEN Len(s) ELSE n
  <1>1. Len(s) \in Nat /\ m \in Nat /\ m <= Len(s)
    BY LenProperties
  <1>2. AtMost(s, n) = SubSeq(s, 1, m)
    BY DEF AtMost
  <1> HIDE DEF m
  <1>3. \A i \in 1 .. m : i \in 1 .. Len(s) /\ s[i] \in S
    BY <1>1, ElementOfSeq
  <1>4. /\ SubSeq(s, 1, m) \in Seq(S)
        /\ Len(SubSeq(s, 1, m)) = (IF 1 <= m THEN m - 1 + 1 ELSE 0)
        /\ \A i \in 1 .. m - 1 + 1 : SubSeq(s, 1, m)[i] = s[1 + i - 1]
    BY <1>1, <1>3, SubSeqProperties
  <1>5. Len(SubSeq(s, 1, m)) = m
    BY <1>1, <1>4
  <1>6. \A i \in 1 .. m : SubSeq(s, 1, m)[i] = s[i]
    BY <1>1, <1>4
  <1> QED
    BY <1>2, <1>3, <1>4, <1>5, <1>6 DEF m

\* Nothing that does not fit stands before something that does.
FitsFirst(s, upos) ==
  \A i, j \in 1 .. Len(s) : i < j /\ Fits(s[j], upos) => Fits(s[i], upos)

\* A beginning keeps what fits in front.
LEMMA FewFitFirst ==
  ASSUME NEW S, NEW s \in Seq(S), NEW n \in Nat, NEW upos, FitsFirst(s, upos)
  PROVE  FitsFirst(AtMost(s, n), upos)
  BY FewAre DEF FitsFirst

\* So does a selection.
LEMMA ThoseFitFirst ==
  ASSUME NEW S, NEW s \in Seq(S), NEW K \in SUBSET (1 .. Len(s)), NEW upos, FitsFirst(s, upos)
  PROVE  FitsFirst(Those(s, K), upos)
  <1> SUFFICES ASSUME NEW i \in 1 .. Len(Those(s, K)), NEW j \in 1 .. Len(Those(s, K)), i < j,
                      Fits(Those(s, K)[j], upos)
               PROVE  Fits(Those(s, K)[i], upos)
    BY DEF FitsFirst
  <1> DEFINE at == InOrder(K)
  <1>1. /\ at[i] \in K /\ Those(s, K)[i] = s[at[i]]
        /\ at[j] \in K /\ Those(s, K)[j] = s[at[j]]
        /\ at[i] < at[j]
    BY ThoseAre DEF Increases
  <1> HIDE DEF at
  <1>2. at[i] \in 1 .. Len(s) /\ at[j] \in 1 .. Len(s)
    BY <1>1
  <1> QED
    BY <1>1, <1>2 DEF FitsFirst

\* MatchingFirst puts what fits in front, and loses nothing (RowsOf, Direct, Forms).
LEMMA MatchingOnes ==
  ASSUME NEW S, NEW s \in Seq(S), NEW upos
  PROVE  /\ MatchingFirst(s, upos) \in Seq(S)
         /\ FitsFirst(MatchingFirst(s, upos), upos)
         /\ \A i \in 1 .. Len(MatchingFirst(s, upos)) :
              \E k \in 1 .. Len(s) : MatchingFirst(s, upos)[i] = s[k]
         /\ s # <<>> => MatchingFirst(s, upos) # <<>>
  <1> DEFINE fit == {i \in DOMAIN s : Fits(s[i], upos)}
             rest == DOMAIN s \ fit
             p == Those(s, fit)
             q == Those(s, rest)
             r == MatchingFirst(s, upos)
  <1>1. Len(s) \in Nat /\ DOMAIN s = 1 .. Len(s)
    BY LenProperties
  <1>2. r = p \o q
    BY DEF MatchingFirst
  <1>3. fit \in SUBSET (1 .. Len(s)) /\ rest \in SUBSET (1 .. Len(s))
    BY <1>1
  <1>4. \A k \in fit : k \in 1 .. Len(s) /\ Fits(s[k], upos)
    BY <1>3
  <1>5. \A k \in rest : k \in 1 .. Len(s) /\ ~ Fits(s[k], upos)
    BY <1>1
  <1>6. 1 .. Len(s) = fit \cup rest
    BY <1>1
  <1> HIDE DEF fit, rest
  <1>7. /\ p \in Seq(S)
        /\ \A i \in 1 .. Len(p) : \E k \in fit : p[i] = s[k]
        /\ \A k \in fit : \E i \in 1 .. Len(p) : p[i] = s[k]
    BY ZenonT(40), <1>3, ThoseAre
  <1>8. /\ q \in Seq(S)
        /\ \A i \in 1 .. Len(q) : \E k \in rest : q[i] = s[k]
        /\ \A k \in rest : \E i \in 1 .. Len(q) : q[i] = s[k]
    BY ZenonT(40), <1>3, ThoseAre
  <1> HIDE DEF p, q
  <1>9. /\ Len(p) \in Nat /\ Len(q) \in Nat
        /\ p \o q \in Seq(S) /\ Len(p \o q) = Len(p) + Len(q)
        /\ \A i \in 1 .. Len(p) + Len(q) :
             (p \o q)[i] = IF i <= Len(p) THEN p[i] ELSE q[i - Len(p)]
    BY <1>7, <1>8, ConcatProperties, LenProperties
  <1>10. r \in Seq(S) /\ Len(r) = Len(p) + Len(q)
    BY <1>2, <1>9
  <1>11. \A i \in 1 .. Len(r) :
           /\ i <= Len(p) => \E k \in fit : r[i] = s[k]
           /\ i > Len(p) => \E k \in rest : r[i] = s[k]
    <2> SUFFICES ASSUME NEW i \in 1 .. Len(r)
                 PROVE  /\ i <= Len(p) => \E k \in fit : r[i] = s[k]
                        /\ i > Len(p) => \E k \in rest : r[i] = s[k]
      OBVIOUS
    <2> HIDE DEF r
    <2>1. i \in 1 .. Len(p) + Len(q)
      BY <1>10
    <2>2. CASE i <= Len(p)
      <3>1. i \in 1 .. Len(p) /\ r[i] = p[i]
        BY <1>2, <1>9, <2>1, <2>2
      <3> QED
        BY <1>7, <1>9, <2>2, <3>1
    <2>3. CASE i > Len(p)
      <3>1. i - Len(p) \in 1 .. Len(q) /\ r[i] = q[i - Len(p)]
        BY <1>2, <1>9, <2>1, <2>3
      <3> QED
        BY <1>8, <1>9, <2>1, <2>3, <3>1
    <2> QED
      BY <1>9, <2>1, <2>2, <2>3
  <1> HIDE DEF r
  <1>12. FitsFirst(r, upos)
    <2> SUFFICES ASSUME NEW i \in 1 .. Len(r), NEW j \in 1 .. Len(r), i < j, Fits(r[j], upos)
                 PROVE  Fits(r[i], upos)
      BY DEF FitsFirst
    <2>1. ~ (j > Len(p))
      <3> SUFFICES ASSUME j > Len(p) PROVE FALSE
        OBVIOUS
      <3>1. PICK k \in rest : r[j] = s[k]
        BY <1>11
      <3> QED
        BY <1>5, <3>1
    <2>2. i <= Len(p)
      BY <1>9, <1>10, <2>1
    <2>3. PICK k \in fit : r[i] = s[k]
      BY <1>11, <2>2
    <2> QED
      BY <1>4, <2>3
  <1>13. \A i \in 1 .. Len(r) : \E k \in 1 .. Len(s) : r[i] = s[k]
    <2> SUFFICES ASSUME NEW i \in 1 .. Len(r) PROVE \E k \in 1 .. Len(s) : r[i] = s[k]
      OBVIOUS
    <2>0. i \in Nat /\ Len(p) \in Nat
      BY <1>9, <1>10
    <2>1. \E k \in fit \cup rest : r[i] = s[k]
      <3>1. CASE i <= Len(p)
        BY <1>11, <3>1
      <3>2. CASE i > Len(p)
        BY <1>11, <3>2
      <3> QED
        BY <2>0, <3>1, <3>2
    <2> QED
      BY <1>6, <2>1
  <1>14. s # <<>> => r # <<>>
    <2> SUFFICES ASSUME s # <<>> PROVE Len(r) # 0
      BY <1>10, EmptySeq
    <2>1. Len(s) # 0
      BY EmptySeq
    <2>2. 1 \in fit \cup rest
      BY <1>1, <1>6, <2>1
    <2>3. Len(p) # 0 \/ Len(q) # 0
      BY <1>7, <1>8, <1>9, <2>2
    <2> QED
      BY <1>9, <1>10, <2>3
  <1> QED
    BY <1>10, <1>12, <1>13, <1>14 DEF r

\* A row of a dictionary as it is sent.
AnySense ==
  [key : LemmaKeys, at : Nat, kind : {"gloss", "form-of"}, upos : Upos \cup {Nil},
   of : Lemmas \cup {Nil}]

\* Senses that are entries of a lemma.
SensesOf(s, lemma) ==
  s \in Seq(AnySense) /\ \A i \in 1 .. Len(s) : s[i].key = KeyOf[lemma]

\* A selection of the entries of a lemma is one.
LEMMA SensesPicked ==
  ASSUME NEW s, NEW lemma, SensesOf(s, lemma), NEW K \in SUBSET (1 .. Len(s))
  PROVE  SensesOf(Those(s, K), lemma)
  <1>1. s \in Seq(AnySense) /\ \A i \in 1 .. Len(s) : s[i].key = KeyOf[lemma]
    BY DEF SensesOf
  <1>2. /\ Those(s, K) \in Seq(AnySense)
        /\ \A i \in 1 .. Len(Those(s, K)) : InOrder(K)[i] \in K /\ Those(s, K)[i] = s[InOrder(K)[i]]
    BY <1>1, ThoseAre
  <1>3. \A i \in 1 .. Len(Those(s, K)) : Those(s, K)[i].key = KeyOf[lemma]
    BY <1>1, <1>2
  <1> QED
    BY <1>2, <1>3 DEF SensesOf

\* So is their beginning.
LEMMA SensesCut ==
  ASSUME NEW s, NEW lemma, SensesOf(s, lemma), NEW n \in Nat
  PROVE  SensesOf(AtMost(s, n), lemma)
  <1>1. s \in Seq(AnySense) /\ \A i \in 1 .. Len(s) : s[i].key = KeyOf[lemma]
    BY DEF SensesOf
  <1>2. /\ AtMost(s, n) \in Seq(AnySense)
        /\ \A i \in 1 .. Len(AtMost(s, n)) : i \in 1 .. Len(s) /\ AtMost(s, n)[i] = s[i]
    BY <1>1, FewAre
  <1> QED
    BY <1>1, <1>2 DEF SensesOf

\* So are they, sorted.
LEMMA SensesSorted ==
  ASSUME NEW s, NEW lemma, SensesOf(s, lemma), NEW upos
  PROVE  SensesOf(MatchingFirst(s, upos), lemma)
  <1>1. s \in Seq(AnySense) /\ \A i \in 1 .. Len(s) : s[i].key = KeyOf[lemma]
    BY DEF SensesOf
  <1>2. /\ MatchingFirst(s, upos) \in Seq(AnySense)
        /\ \A i \in 1 .. Len(MatchingFirst(s, upos)) :
             \E k \in 1 .. Len(s) : MatchingFirst(s, upos)[i] = s[k]
    BY <1>1, MatchingOnes
  <1>3. \A i \in 1 .. Len(MatchingFirst(s, upos)) : MatchingFirst(s, upos)[i].key = KeyOf[lemma]
    BY <1>1, <1>2
  <1> QED
    BY <1>2, <1>3 DEF SensesOf

\* If any fits, the first does.
LEMMA FirstFits ==
  ASSUME NEW S, NEW s \in Seq(S), NEW upos, FitsFirst(s, upos), SomeFits(s, upos)
  PROVE  Len(s) >= 1 /\ 1 \in 1 .. Len(s) /\ Fits(s[1], upos)
  <1>1. PICK i \in 1 .. Len(s) : Fits(s[i], upos)
    BY DEF SomeFits
  <1>2. Len(s) \in Nat /\ i \in Nat /\ 1 <= i /\ i <= Len(s)
    BY LenProperties
  <1>3. 1 \in 1 .. Len(s)
    BY <1>2
  <1>4. Fits(s[1], upos)
    <2>1. CASE i = 1
      BY <1>1, <2>1
    <2>2. CASE i # 1
      <3>1. 1 < i
        BY <1>2, <2>2
      <3> QED
        BY <1>1, <1>3, <3>1 DEF FitsFirst
    <2> QED
      BY <2>1, <2>2
  <1> QED
    BY <1>2, <1>3, <1>4

\* The rows of a kind are entries of the lemma asked for; a form is of a lemma.
LEMMA RowsAre ==
  ASSUME NEW d \in Dictionaries, NEW lemma \in Lemmas, NEW kind
  PROVE  /\ SensesOf(RowsOf(d, lemma, kind), lemma)
         /\ kind = "form-of" => \A i \in 1 .. Len(RowsOf(d, lemma, kind)) :
                                  RowsOf(d, lemma, kind)[i].of \in Lemmas
  <1> DEFINE key == KeyOf[lemma]
             rows == d[key]
             named == [i \in DOMAIN rows |-> [key |-> key, at |-> i, kind |-> rows[i].kind,
                                              upos |-> rows[i].upos, of |-> rows[i].of]]
             K == {i \in DOMAIN rows : rows[i].kind = kind}
             t == Those(named, K)
  <1>1. key \in LemmaKeys
    BY GlossAssumption
  <1>2. rows \in Seq(DictionaryRows)
    BY <1>1, GlossAssumption
  <1>3. RowsOf(d, lemma, kind) = t
    BY DEF RowsOf
  <1> HIDE DEF rows, key
  <1>4. Len(rows) \in Nat /\ DOMAIN rows = 1 .. Len(rows)
        /\ \A i \in 1 .. Len(rows) : rows[i] \in DictionaryRows
    BY <1>2, LenProperties, ElementOfSeq
  <1>5. \A r \in DictionaryRows :
          /\ r.kind \in {"gloss", "form-of"} /\ r.upos \in Upos \cup {Nil}
          /\ r.of \in Lemmas \cup {Nil} /\ (r.kind = "form-of" => r.of \in Lemmas)
    BY DEF DictionaryRows
  <1>6. \A i \in 1 .. Len(rows) : named[i] \in AnySense /\ named[i].key = key
    <2> SUFFICES ASSUME NEW i \in 1 .. Len(rows) PROVE named[i] \in AnySense /\ named[i].key = key
      OBVIOUS
    <2>1. rows[i] \in DictionaryRows /\ i \in Nat
      BY <1>4
    <2>2. named[i] = [key |-> key, at |-> i, kind |-> rows[i].kind,
                      upos |-> rows[i].upos, of |-> rows[i].of]
      BY <1>4
    <2> QED
      BY <1>1, <1>5, <2>1, <2>2 DEF AnySense
  <1>7. named \in Seq(AnySense) /\ Len(named) = Len(rows)
    BY <1>4, <1>6
  <1>8. K \in SUBSET (1 .. Len(named))
    BY <1>4, <1>7
  <1>9. \A i \in K : rows[i].kind = kind /\ i \in 1 .. Len(rows) /\ named[i].of = rows[i].of
    BY <1>4
  <1> HIDE DEF named, K
  <1>10. SensesOf(named, lemma)
    BY <1>6, <1>7 DEF SensesOf, key
  <1>11. SensesOf(t, lemma)
    BY <1>8, <1>10, SensesPicked
  <1>12. \A i \in 1 .. Len(t) : \E k \in K : t[i] = named[k]
    BY <1>7, <1>8, ThoseAre
  <1>13. ASSUME kind = "form-of", NEW i \in 1 .. Len(t) PROVE t[i].of \in Lemmas
    <2>1. PICK k \in K : t[i] = named[k]
      BY <1>12
    <2>2. t[i].of = rows[k].of /\ rows[k].kind = "form-of" /\ rows[k] \in DictionaryRows
      BY <1>4, <1>9, <1>13, <2>1
    <2> QED
      BY <1>5, <2>2
  <1> HIDE DEF t
  <1> QED
    BY <1>3, <1>11, <1>13

\* A lemma's own glosses: at most MaxSenses, the fitting ones first, some if there are any.
LEMMA DirectAre ==
  ASSUME NEW d \in Dictionaries, NEW lemma \in Lemmas, NEW upos
  PROVE  /\ SensesOf(Direct(d, lemma, upos), lemma)
         /\ Len(Direct(d, lemma, upos)) <= MaxSenses
         /\ FitsFirst(Direct(d, lemma, upos), upos)
         /\ Resolvable(d, lemma) => Direct(d, lemma, upos) # <<>>
  <1> DEFINE r == RowsOf(d, lemma, "gloss")
             m == MatchingFirst(r, upos)
  <1>1. SensesOf(r, lemma)
    BY RowsAre
  <1>2. r \in Seq(AnySense)
    BY <1>1 DEF SensesOf
  <1>3. Direct(d, lemma, upos) = AtMost(m, MaxSenses) /\ (Resolvable(d, lemma) <=> r # <<>>)
    BY DEF Direct, Resolvable
  <1> HIDE DEF r
  <1>4. SensesOf(m, lemma)
    BY <1>1, SensesSorted
  <1>5. m \in Seq(AnySense) /\ FitsFirst(m, upos) /\ (r # <<>> => m # <<>>)
    BY <1>2, MatchingOnes
  <1> HIDE DEF m
  <1>6. MaxSenses \in Nat /\ MaxSenses > 0
    BY GlossAssumption
  <1>7. Len(m) \in Nat /\ (m # <<>> => Len(m) # 0)
    BY <1>5, EmptySeq, LenProperties
  <1>8. Len(AtMost(m, MaxSenses)) = IF Len(m) < MaxSenses THEN Len(m) ELSE MaxSenses
    BY <1>5, <1>6, FewAre
  <1>9. Len(AtMost(m, MaxSenses)) <= MaxSenses
    BY <1>6, <1>7, <1>8
  <1>10. m # <<>> => AtMost(m, MaxSenses) # <<>>
    <2> SUFFICES ASSUME m # <<>>, AtMost(m, MaxSenses) = <<>> PROVE FALSE
      OBVIOUS
    <2>1. Len(AtMost(m, MaxSenses)) = 0
      BY EmptySeq
    <2> QED
      BY <1>6, <1>7, <1>8, <2>1
  <1>11. SensesOf(AtMost(m, MaxSenses), lemma)
    BY <1>4, <1>6, SensesCut
  <1>12. FitsFirst(AtMost(m, MaxSenses), upos)
    BY <1>5, <1>6, FewFitFirst
  <1> QED
    BY <1>3, <1>5, <1>9, <1>10, <1>11, <1>12

\* Its form-of rows, the fitting ones first.
LEMMA FormsAre ==
  ASSUME NEW d \in Dictionaries, NEW lemma \in Lemmas, NEW upos
  PROVE  /\ SensesOf(Forms(d, lemma, upos), lemma)
         /\ FitsFirst(Forms(d, lemma, upos), upos)
         /\ \A i \in 1 .. Len(Forms(d, lemma, upos)) : Forms(d, lemma, upos)[i].of \in Lemmas
  <1> DEFINE r == RowsOf(d, lemma, "form-of")
             m == MatchingFirst(r, upos)
             f == AtMost(m, MaxForms)
  <1>1. SensesOf(r, lemma) /\ \A i \in 1 .. Len(r) : r[i].of \in Lemmas
    BY RowsAre
  <1>2. r \in Seq(AnySense)
    BY <1>1 DEF SensesOf
  <1>3. Forms(d, lemma, upos) = f
    BY DEF Forms
  <1> HIDE DEF r
  <1>4. SensesOf(m, lemma)
    BY <1>1, SensesSorted
  <1>5. /\ m \in Seq(AnySense) /\ FitsFirst(m, upos)
        /\ \A i \in 1 .. Len(m) : \E k \in 1 .. Len(r) : m[i] = r[k]
    BY <1>2, MatchingOnes
  <1> HIDE DEF m
  <1>6. MaxForms \in Nat
    BY GlossAssumption
  <1>7. SensesOf(f, lemma)
    BY <1>4, <1>6, SensesCut
  <1>8. FitsFirst(f, upos)
    BY <1>5, <1>6, FewFitFirst
  <1>9. \A i \in 1 .. Len(f) : i \in 1 .. Len(m) /\ f[i] = m[i]
    BY <1>5, <1>6, FewAre
  <1> HIDE DEF f
  <1>10. \A i \in 1 .. Len(f) : f[i].of \in Lemmas
    BY <1>1, <1>5, <1>9
  <1> QED
    BY <1>3, <1>7, <1>8, <1>10

\* The lemma whose entries a hit on `queried` gives.
Named(hit, queried) == IF hit.of # Nil THEN hit.of ELSE queried

\* A hit as a lookup gives it: senses of the lemma it names, fitting ones first.
GoodHit(hit, queried, upos) ==
  /\ SensesOf(hit.senses, Named(hit, queried))
  /\ FitsFirst(hit.senses, upos) /\ Len(hit.senses) <= MaxSenses
  /\ hit.via \in Hops \cup {Nil} /\ hit.of \in Lemmas \cup {Nil}
  /\ hit.via = "form-of" <=> hit.of # Nil
  /\ Found(hit) <=> hit.senses # <<>>

\* null is none of the values it stands beside.
LEMMA NilIsApart ==
  Nil \notin Hops /\ Nil # "alternative" /\ Nil \notin Lemmas /\ Nil \notin Upos
  BY GlossAssumption

\* What form-of rows say themselves is a good hit.
LEMMA TextHit ==
  ASSUME NEW lemma \in Lemmas, NEW upos, NEW loose, SensesOf(loose, lemma), FitsFirst(loose, upos),
         loose # <<>>
  PROVE  GoodHit(Hit("form-of-text", Nil, AtMost(loose, MaxSenses)), lemma, upos)
  <1> DEFINE s == AtMost(loose, MaxSenses)
             h == Hit("form-of-text", Nil, s)
  <1>1. loose \in Seq(AnySense) /\ MaxSenses \in Nat /\ MaxSenses > 0
    BY GlossAssumption DEF SensesOf
  <1>2. SensesOf(s, lemma) /\ FitsFirst(s, upos)
    BY <1>1, SensesCut, FewFitFirst
  <1>3. s \in Seq(AnySense) /\ Len(s) = (IF Len(loose) < MaxSenses THEN Len(loose) ELSE MaxSenses)
    BY <1>1, FewAre
  <1>4. Len(loose) \in Nat /\ Len(loose) # 0
    BY <1>1, EmptySeq
  <1> HIDE DEF s
  <1>5. Len(s) <= MaxSenses /\ Len(s) # 0
    BY <1>1, <1>3, <1>4
  <1>6. s # <<>>
    BY <1>5, EmptySeq
  <1>7. h.via = "form-of-text" /\ h.of = Nil /\ h.senses = s
    BY DEF Hit
  <1> HIDE DEF h
  <1>8. Named(h, lemma) = lemma
    BY <1>7 DEF Named
  <1>9. Found(h) /\ "form-of-text" \in Hops
    BY <1>7, NilIsApart DEF Found, Hops
  <1> QED
    BY <1>2, <1>5, <1>6, <1>7, <1>8, <1>9 DEF GoodHit, h, s

\* Whichever branch of the lookup is taken, the hit is good (glossStore.ts:98-126).
LEMMA BestHitIsGood ==
  ASSUME NEW d \in Dictionaries, NEW lemma \in Lemmas, NEW upos,
         NEW resolved, SensesOf(resolved, lemma),
         \A i \in 1 .. Len(resolved) : resolved[i].of \in Lemmas /\ Resolvable(d, resolved[i].of),
         NEW loose, SensesOf(loose, lemma), FitsFirst(loose, upos)
  PROVE  GoodHit(BestHit(d, upos, Direct(d, lemma, upos), resolved, loose), lemma, upos)
  <1> DEFINE direct == Direct(d, lemma, upos)
             text == Hit("form-of-text", Nil, AtMost(loose, MaxSenses))
             only == ~ SomeFits(direct, upos) /\ SomeFits(loose, upos) /\ ~ SomeFits(resolved, upos)
             hop == Hit("form-of", resolved[1].of, Direct(d, resolved[1].of, upos))
             best == BestHit(d, upos, direct, resolved, loose)
  <1>1. /\ SensesOf(direct, lemma) /\ Len(direct) <= MaxSenses /\ FitsFirst(direct, upos)
    BY DirectAre
  <1>2. CASE only
    <2>1. best = text
      BY <1>2 DEF BestHit
    <2>2. loose # <<>>
      <3>1. PICK i \in 1 .. Len(loose) : Fits(loose[i], upos)
        BY <1>2 DEF SomeFits
      <3> SUFFICES ASSUME loose = <<>> PROVE FALSE
        OBVIOUS
      <3>2. Len(loose) = 0
        BY EmptySeq
      <3> QED
        BY <3>1, <3>2
    <2> QED
      BY <2>1, <2>2, TextHit
  <1>3. CASE ~ only /\ direct # <<>>
    <2> DEFINE h == Hit("lemma", Nil, direct)
    <2>1. best = h
      BY <1>3 DEF BestHit
    <2>2. h.via = "lemma" /\ h.of = Nil /\ h.senses = direct
      BY DEF Hit
    <2> HIDE DEF h, direct
    <2>3. Named(h, lemma) = lemma /\ Found(h) /\ "lemma" \in Hops
      BY <2>2, NilIsApart DEF Named, Found, Hops
    <2>4. GoodHit(h, lemma, upos)
      BY <1>1, <1>3, <2>2, <2>3 DEF GoodHit
    <2> QED
      BY <2>1, <2>4 DEF direct
  <1>4. CASE ~ only /\ direct = <<>> /\ resolved # <<>>
    <2> DEFINE of == resolved[1].of
               senses == Direct(d, of, upos)
               h == Hit("form-of", of, senses)
    <2>1. best = h
      BY <1>4 DEF BestHit
    <2>2. resolved \in Seq(AnySense)
      BY DEF SensesOf
    <2>3. Len(resolved) \in Nat \ {0}
      BY <1>4, <2>2, EmptySeq
    <2>4. of \in Lemmas /\ Resolvable(d, of)
      BY <2>3
    <2> HIDE DEF of
    <2>5. SensesOf(senses, of) /\ Len(senses) <= MaxSenses /\ FitsFirst(senses, upos) /\ senses # <<>>
      BY <2>4, DirectAre
    <2>6. h.via = "form-of" /\ h.of = of /\ h.senses = senses /\ of # Nil
      BY <2>4, NilIsApart DEF Hit
    <2> HIDE DEF h, senses
    <2>7. Named(h, lemma) = of /\ Found(h) /\ "form-of" \in Hops
      BY <2>6, NilIsApart DEF Named, Found, Hops
    <2>8. GoodHit(h, lemma, upos)
      BY <2>4, <2>5, <2>6, <2>7 DEF GoodHit
    <2> QED
      BY <2>1, <2>8
  <1>5. CASE ~ only /\ direct = <<>> /\ resolved = <<>> /\ loose # <<>>
    <2>1. best = text
      BY <1>5 DEF BestHit
    <2> QED
      BY <1>5, <2>1, TextHit
  <1>6. CASE ~ only /\ direct = <<>> /\ resolved = <<>> /\ loose = <<>>
    <2> DEFINE h == Hit(Nil, Nil, <<>>)
    <2>1. best = h
      BY <1>6 DEF BestHit, NoHit
    <2>2. h.via = Nil /\ h.of = Nil /\ h.senses = <<>>
      BY DEF Hit
    <2> HIDE DEF h
    <2>3. ~ Found(h) /\ Nil # "form-of" /\ Named(h, lemma) = lemma
      BY <2>2, NilIsApart DEF Found, Hops, Named
    <2>4. SensesOf(h.senses, lemma) /\ Len(h.senses) = 0
      BY <2>2, EmptySeq DEF SensesOf
    <2>5. FitsFirst(h.senses, upos) /\ 0 <= MaxSenses
      BY <2>4, GlossAssumption DEF FitsFirst
    <2>6. GoodHit(h, lemma, upos)
      BY <2>2, <2>3, <2>4, <2>5 DEF GoodHit
    <2> QED
      BY <2>1, <2>6
  <1> QED
    BY <1>2, <1>3, <1>4, <1>5, <1>6

\* A lookup in any dictionary gives a good hit.
LEMMA LookUpIsGood ==
  ASSUME NEW d \in Dictionaries, NEW lemma \in Lemmas, NEW upos
  PROVE  GoodHit(LookUp(d, lemma, upos), lemma, upos)
  <1> DEFINE forms == Forms(d, lemma, upos)
             K == {i \in DOMAIN forms : Resolvable(d, forms[i].of)}
             rest == DOMAIN forms \ K
             resolved == Those(forms, K)
             loose == Those(forms, rest)
  <1>1. /\ SensesOf(forms, lemma) /\ FitsFirst(forms, upos)
        /\ \A i \in 1 .. Len(forms) : forms[i].of \in Lemmas
    BY FormsAre
  <1>2. LookUp(d, lemma, upos) = BestHit(d, upos, Direct(d, lemma, upos), resolved, loose)
    BY DEF LookUp
  <1> HIDE DEF forms
  <1>3. forms \in Seq(AnySense) /\ DOMAIN forms = 1 .. Len(forms)
    BY <1>1, LenProperties DEF SensesOf
  <1>4. K \in SUBSET (1 .. Len(forms)) /\ rest \in SUBSET (1 .. Len(forms))
    BY <1>3
  <1>5. \A k \in K : forms[k].of \in Lemmas /\ Resolvable(d, forms[k].of)
    BY <1>1, <1>3
  <1> HIDE DEF K, rest
  <1>6. SensesOf(resolved, lemma) /\ SensesOf(loose, lemma)
    BY <1>1, <1>4, SensesPicked
  <1>7. FitsFirst(loose, upos)
    BY <1>1, <1>3, <1>4, ThoseFitFirst
  <1>8. \A i \in 1 .. Len(resolved) : \E k \in K : resolved[i] = forms[k]
    BY <1>3, <1>4, ThoseAre
  <1> HIDE DEF resolved, loose
  <1>9. \A i \in 1 .. Len(resolved) : resolved[i].of \in Lemmas /\ Resolvable(d, resolved[i].of)
    BY <1>5, <1>8
  <1> QED
    BY <1>2, <1>6, <1>7, <1>9, BestHitIsGood

\* A selection is no longer, and not empty if it selects anything.
LEMMA ThoseFew ==
  ASSUME NEW S, NEW s \in Seq(S), NEW K \in SUBSET (1 .. Len(s))
  PROVE  Len(Those(s, K)) \in Nat /\ Len(Those(s, K)) <= Len(s)
         /\ (K # {} => Len(Those(s, K)) # 0)
  <1> DEFINE c == Cardinality(K)
             at == InOrder(K)
             n == Len(s)
             t == Those(s, K)
  <1>1. n \in Nat
    BY LenProperties
  <1>2. c \in Nat /\ at \in [1 .. c -> K]
    BY <1>1, InOrderIs
  <1>3. IsFiniteSet(1 .. n) /\ Cardinality(1 .. n) = n
    BY SMTT(30), <1>1, FS_Interval
  <1>4. c <= n
    BY <1>3, FS_Subset
  <1>5. DOMAIN t = 1 .. c
    BY <1>2 DEF Those
  <1>6. t \in Seq(S) /\ \A k \in K : \E i \in 1 .. Len(t) : t[i] = s[k]
    BY ThoseAre
  <1> HIDE DEF t, c, n
  <1>7. Len(t) \in Nat /\ DOMAIN t = 1 .. Len(t)
    BY <1>6, LenProperties
  <1>8. Len(t) = c
    BY <1>2, <1>5, <1>7
  <1>9. K # {} => Len(t) # 0
    <2> SUFFICES ASSUME NEW k \in K PROVE Len(t) # 0
      OBVIOUS
    <2>1. PICK i \in 1 .. Len(t) : t[i] = s[k]
      BY <1>6
    <2> QED
      BY <1>7, <2>1
  <1> QED
    BY <1>1, <1>2, <1>4, <1>7, <1>8, <1>9 DEF n, t

\* What the browser may ask.
GoodQuery(q) ==
  /\ q.lemma \in Lemmas /\ q.upos \in Upos \cup {Nil}
  /\ q.alternatives \in Seq(NamedReadings) /\ Len(q.alternatives) <= MaxAlternatives

\* A word read in any way gives a query within the bounds of the route.
LEMMA QueriesAreGood ==
  ASSUME NEW readings \in Readings
  PROVE  GoodQuery(QueryFor(readings))
  <1> DEFINE Id(i) == <<KeyOf[readings[i].lemma], readings[i].upos>>
             K == {i \in DOMAIN readings : \A k \in 1 .. i - 1 : Id(k) # Id(i)}
             t == Distinct(readings)
             alts == AtMost(Tail(t), MaxAlternatives)
  <1>1. readings \in Seq(NamedReadings) /\ readings # <<>>
    BY GlossAssumption
  <1>2. Len(readings) \in Nat \ {0} /\ DOMAIN readings = 1 .. Len(readings)
    BY <1>1, EmptySeq, LenProperties
  <1>3. t = Those(readings, K)
    BY DEF Distinct
  <1>4. K \in SUBSET (1 .. Len(readings)) /\ 1 \in K
    <2>1. 1 .. 1 - 1 = {} /\ 1 \in DOMAIN readings
      BY <1>2
    <2> QED
      BY <1>2, <2>1
  <1> HIDE DEF K
  <1>5. t \in Seq(NamedReadings) /\ Len(t) \in Nat /\ Len(t) # 0
    BY <1>1, <1>3, <1>4, ThoseAre, ThoseFew
  <1>6. QueryFor(readings) = [lemma |-> t[1].lemma, upos |-> t[1].upos, alternatives |-> alts]
    BY DEF QueryFor
  <1> HIDE DEF t
  <1>7. t[1] \in NamedReadings
    <2>1. 1 \in 1 .. Len(t)
      BY <1>5
    <2> QED
      BY <1>5, <2>1, ElementOfSeq
  <1>8. t[1].lemma \in Lemmas /\ t[1].upos \in Upos \cup {Nil}
    BY <1>7 DEF NamedReadings
  <1>9. t # <<>>
    BY <1>5, EmptySeq
  <1>10. Tail(t) \in Seq(NamedReadings) /\ MaxAlternatives \in Nat
    BY <1>5, <1>9, HeadTailProperties, GlossAssumption
  <1>11. /\ alts \in Seq(NamedReadings)
         /\ Len(alts) = (IF Len(Tail(t)) < MaxAlternatives THEN Len(Tail(t)) ELSE MaxAlternatives)
    BY <1>10, FewAre
  <1> HIDE DEF alts
  <1>12. Len(alts) <= MaxAlternatives
    <2>1. Len(Tail(t)) \in Nat
      BY <1>10, LenProperties
    <2> QED
      BY <1>10, <1>11, <2>1
  <1> QED
    BY <1>6, <1>8, <1>11, <1>12 DEF GoodQuery

\* Every alternative was looked up.
GoodHits(q, hits) ==
  /\ DOMAIN hits = 1 .. Len(q.alternatives)
  /\ \A i \in 1 .. Len(q.alternatives) :
       GoodHit(hits[i], q.alternatives[i].lemma, q.alternatives[i].upos)

\* Alternatives are readings.
LEMMA AlternativesAre ==
  ASSUME NEW q, GoodQuery(q), NEW i \in 1 .. Len(q.alternatives)
  PROVE  q.alternatives[i].lemma \in Lemmas /\ q.alternatives[i].upos \in Upos \cup {Nil}
  <1>1. q.alternatives[i] \in NamedReadings
    BY ElementOfSeq DEF GoodQuery
  <1> QED
    BY <1>1 DEF NamedReadings

\* Their hits are good.
LEMMA HitsAreGood ==
  ASSUME NEW d \in Dictionaries, NEW q, GoodQuery(q)
  PROVE  GoodHits(q, AlternativeHits(d, q))
  <1> DEFINE hits == AlternativeHits(d, q)
             n == Len(q.alternatives)
  <1>1. hits = [i \in 1 .. n |-> LookUp(d, q.alternatives[i].lemma, q.alternatives[i].upos)]
    BY DEF AlternativeHits
  <1>2. DOMAIN hits = 1 .. n
    BY <1>1
  <1>3. ASSUME NEW i \in 1 .. n
        PROVE  GoodHit(hits[i], q.alternatives[i].lemma, q.alternatives[i].upos)
    <2>1. q.alternatives[i].lemma \in Lemmas
      BY AlternativesAre
    <2>2. hits[i] = LookUp(d, q.alternatives[i].lemma, q.alternatives[i].upos)
      BY <1>1
    <2> QED
      BY <2>1, <2>2, LookUpIsGood
  <1> QED
    BY <1>2, <1>3 DEF GoodHits

\* What is sent of a hit names the lemma its senses are of, and says whether it hopped.
LEMMA ReadingsAreTrue ==
  ASSUME NEW queried \in Lemmas, NEW upos, NEW hit, GoodHit(hit, queried, upos), NEW hop,
         NEW senses, SensesOf(senses, Named(hit, queried)), NEW u
  PROVE  LET r == Reading(hit, queried, hop, senses, u) IN
         /\ NamesItsLemma(r) /\ FormOfOK(hit.via, r.formOf)
         /\ r.lemma = Named(hit, queried) /\ r.hop = hop /\ r.senses = senses
         /\ r.upos = IF senses # <<>> THEN senses[1].upos ELSE u
  <1> DEFINE r == Reading(hit, queried, hop, senses, u)
  <1>1. /\ r.lemma = Named(hit, queried) /\ r.hop = hop /\ r.senses = senses
        /\ r.upos = (IF senses # <<>> THEN senses[1].upos ELSE u)
        /\ r.formOf = IF hit.of # Nil THEN queried ELSE Nil
    BY DEF Reading, Named
  <1> HIDE DEF r
  <1>2. NamesItsLemma(r)
    BY <1>1 DEF NamesItsLemma, SensesOf
  <1>3. FormOfOK(hit.via, r.formOf)
    <2>1. hit.via = "form-of" <=> hit.of # Nil
      BY DEF GoodHit
    <2>2. queried # Nil
      BY NilIsApart
    <2> QED
      BY <1>1, <2>1, <2>2 DEF FormOfOK
  <1> QED
    BY <1>1, <1>2, <1>3 DEF r

\* The senses left to an alternative are of its lemma, and there are some.
LEMMA OwnSensesAre ==
  ASSUME NEW queried \in Lemmas, NEW upos, NEW hit, GoodHit(hit, queried, upos)
  PROVE  /\ SensesOf(OwnSenses(hit, upos), Named(hit, queried))
         /\ Found(hit) => Len(OwnSenses(hit, upos)) \in 1 .. MaxSenses
  <1> DEFINE s == hit.senses
             K == {i \in DOMAIN s : Fits(s[i], upos)}
  <1>1. SensesOf(s, Named(hit, queried)) /\ Len(s) <= MaxSenses /\ (Found(hit) <=> s # <<>>)
    BY DEF GoodHit
  <1>2. s \in Seq(AnySense)
    BY <1>1 DEF SensesOf
  <1>3. Len(s) \in Nat /\ DOMAIN s = 1 .. Len(s) /\ (s # <<>> => Len(s) # 0) /\ MaxSenses \in Nat
    BY <1>2, LenProperties, EmptySeq, GlossAssumption
  <1>4. CASE Matches(hit, upos)
    <2>1. OwnSenses(hit, upos) = Those(s, K)
      BY <1>4 DEF OwnSenses
    <2>2. K \in SUBSET (1 .. Len(s)) /\ K # {}
      BY <1>3, <1>4 DEF Matches, SomeFits
    <2> HIDE DEF K, s
    <2>3. SensesOf(Those(s, K), Named(hit, queried))
      BY <1>1, <2>2, SensesPicked
    <2>4. Len(Those(s, K)) \in Nat /\ Len(Those(s, K)) <= Len(s) /\ Len(Those(s, K)) # 0
      BY <1>2, <2>2, ThoseFew
    <2>5. Len(Those(s, K)) \in 1 .. MaxSenses
      BY <1>1, <1>3, <2>4
    <2> QED
      BY <2>1, <2>3, <2>5
  <1>5. CASE ~ Matches(hit, upos)
    <2>1. OwnSenses(hit, upos) = s
      BY <1>5 DEF OwnSenses
    <2> HIDE DEF s
    <2>2. Found(hit) => Len(s) \in 1 .. MaxSenses
      BY <1>1, <1>3
    <2> QED
      BY <1>1, <2>1, <2>2
  <1> QED
    BY <1>4, <1>5

\* The reading of an alternative that was found.
OtherOf(q, hits, i) ==
  Reading(hits[i], q.alternatives[i].lemma, hits[i].via,
          OwnSenses(hits[i], q.alternatives[i].upos), Nil)
\* What tells it from other readings.
OtherKey(q, hits, i) == KeyOfReading(OtherOf(q, hits, i))

\* A found alternative is sent as the browser accepts it.
LEMMA OthersAreTrue ==
  ASSUME NEW q, GoodQuery(q), NEW hits, GoodHits(q, hits), NEW i \in 1 .. Len(q.alternatives),
         Found(hits[i])
  PROVE  /\ AcceptsOther(OtherOf(q, hits, i)) /\ NamesItsLemma(OtherOf(q, hits, i))
         /\ OtherOf(q, hits, i).lemma = Named(hits[i], q.alternatives[i].lemma)
  <1> DEFINE alt == q.alternatives[i]
             hit == hits[i]
             own == OwnSenses(hit, alt.upos)
             r == OtherOf(q, hits, i)
  <1>1. alt.lemma \in Lemmas /\ GoodHit(hit, alt.lemma, alt.upos)
    BY AlternativesAre DEF GoodHits
  <1>2. r = Reading(hit, alt.lemma, hit.via, own, Nil)
    BY DEF OtherOf
  <1>3. Found(hit)
    OBVIOUS
  <1> HIDE DEF alt, hit
  <1>4. SensesOf(own, Named(hit, alt.lemma)) /\ Len(own) \in 1 .. MaxSenses
    BY <1>1, <1>3, OwnSensesAre
  <1> HIDE DEF own, r
  <1>5. /\ NamesItsLemma(r) /\ FormOfOK(hit.via, r.formOf)
        /\ r.lemma = Named(hit, alt.lemma) /\ r.hop = hit.via /\ r.senses = own
    BY <1>1, <1>2, <1>4, ReadingsAreTrue
  <1>6. hit.via \in Hops
    BY <1>1, <1>3 DEF GoodHit, Found
  <1>7. AcceptsOther(r)
    BY <1>4, <1>5, <1>6 DEF AcceptsOther
  <1> QED
    BY <1>5, <1>7 DEF r, alt, hit

\* Other readings, told apart, that leave out none that was not seen.
OthersOf(q, hits, seen, o) ==
  /\ Len(o) \in Nat /\ Len(o) <= MaxAlternatives /\ DOMAIN o = 1 .. Len(o)
  /\ \A j \in 1 .. Len(o) :
       /\ KeyOfReading(o[j]) \notin seen
       /\ \E i \in 1 .. Len(q.alternatives) : Found(hits[i]) /\ o[j] = OtherOf(q, hits, i)
  /\ \A j, k \in 1 .. Len(o) : j < k => KeyOfReading(o[j]) # KeyOfReading(o[k])
  /\ \A i \in 1 .. Len(q.alternatives) : Found(hits[i]) =>
       \/ OtherKey(q, hits, i) \in seen
       \/ \E j \in 1 .. Len(o) : KeyOfReading(o[j]) = OtherKey(q, hits, i)

\* What the service sends beside the chosen reading.
LEMMA OthersAre ==
  ASSUME NEW q, GoodQuery(q), NEW hits, GoodHits(q, hits), NEW seen
  PROVE  OthersOf(q, hits, seen, OtherReadings(q, hits, seen))
  <1> DEFINE n == Len(q.alternatives)
             found == {i \in DOMAIN hits : Found(hits[i])}
             Key(i) == OtherKey(q, hits, i)
             new == {i \in found : Key(i) \notin seen /\ \A k \in found : k < i => Key(k) # Key(i)}
             all == [i \in DOMAIN hits |-> OtherOf(q, hits, i)]
             S == {OtherOf(q, hits, i) : i \in 1 .. n}
             t == Those(all, new)
             at == InOrder(new)
             o == OtherReadings(q, hits, seen)
  <1>1. o = AtMost(t, MaxAlternatives)
    BY DEF OtherReadings, OtherOf, OtherKey
  <1>2. DOMAIN hits = 1 .. n /\ q.alternatives \in Seq(NamedReadings) /\ n <= MaxAlternatives
    BY DEF GoodHits, GoodQuery
  <1>3. n \in Nat /\ MaxAlternatives \in Nat
    BY <1>2, LenProperties, GlossAssumption
  <1>4. found \in SUBSET (1 .. n) /\ \A i \in 1 .. n : i \in found <=> Found(hits[i])
    BY <1>2
  <1> HIDE DEF found, n
  <1>5. all = [i \in 1 .. n |-> OtherOf(q, hits, i)]
    BY <1>2
  <1>6. \A i \in 1 .. n : all[i] = OtherOf(q, hits, i) /\ all[i] \in S
    BY <1>5
  <1>7. all \in Seq(S) /\ Len(all) = n
    BY <1>3, <1>5, <1>6
  <1>8. new \in SUBSET (1 .. Len(all))
    BY <1>4, <1>7
  <1>9. \A i \in new : i \in found /\ Key(i) \notin seen /\ \A k \in found : k < i => Key(k) # Key(i)
    OBVIOUS
  <1>10. \A i \in found : Key(i) \notin seen =>
           \E k \in new : Key(k) = Key(i)
    <2> SUFFICES ASSUME NEW i \in found, Key(i) \notin seen PROVE \E k \in new : Key(k) = Key(i)
      OBVIOUS
    <2> DEFINE M == {k \in found : Key(k) = Key(i)}
    <2>1. M \in SUBSET Nat /\ i \in M
      <3>1. found \subseteq Nat
        BY <1>3, <1>4
      <3> HIDE DEF Key, new, all, S
      <3> QED
        BY <3>1
    <2>2. PICK m \in M : \A k \in M : m <= k
      BY <2>1, LeastNumber
    <2>3. m \in found /\ Key(m) = Key(i)
      OBVIOUS
    <2>4. ASSUME NEW k \in found, k < m PROVE Key(k) # Key(m)
      <3>1. k \in Nat /\ m \in Nat
        BY <1>4, <2>3
      <3>2. k \notin M
        BY <2>2, <2>4, <3>1
      <3> QED
        BY <2>3, <3>2
    <2> QED
      BY <2>3, <2>4
  <1> HIDE DEF all, new, S, Key
  <1>11. /\ t \in Seq(S)
         /\ \A i \in 1 .. Len(t) : at[i] \in new /\ t[i] = all[at[i]]
         /\ Increases(at, Len(t))
         /\ \A k \in new : \E i \in 1 .. Len(t) : at[i] = k /\ t[i] = all[k]
    BY <1>7, <1>8, ThoseAre
  <1>12. Len(t) \in Nat /\ Len(t) <= n
    BY <1>7, <1>8, ThoseFew
  <1> HIDE DEF t, at, o
  <1>13. o \in Seq(S) /\ Len(o) = (IF Len(t) < MaxAlternatives THEN Len(t) ELSE MaxAlternatives)
         /\ \A i \in 1 .. Len(o) : i \in 1 .. Len(t) /\ o[i] = t[i]
    BY <1>1, <1>3, <1>11, FewAre
  <1>14. Len(o) = Len(t) /\ DOMAIN o = 1 .. Len(o)
    BY <1>2, <1>3, <1>12, <1>13, LenProperties
  <1>15. \A i \in 1 .. Len(o) :
           /\ at[i] \in found /\ at[i] \in new /\ at[i] \in 1 .. n
           /\ o[i] = OtherOf(q, hits, at[i]) /\ KeyOfReading(o[i]) = Key(at[i])
    BY <1>4, <1>6, <1>9, <1>11, <1>13 DEF Key, OtherKey
  <1>16. \A j \in 1 .. Len(o) :
           /\ KeyOfReading(o[j]) \notin seen
           /\ \E i \in 1 .. n : Found(hits[i]) /\ o[j] = OtherOf(q, hits, i)
    BY <1>4, <1>9, <1>15
  <1>17. \A j, k \in 1 .. Len(o) : j < k => KeyOfReading(o[j]) # KeyOfReading(o[k])
    <2> SUFFICES ASSUME NEW j \in 1 .. Len(o), NEW k \in 1 .. Len(o), j < k
                 PROVE  KeyOfReading(o[j]) # KeyOfReading(o[k])
      OBVIOUS
    <2>1. at[j] < at[k]
      BY <1>11, <1>14 DEF Increases
    <2> QED
      BY <1>9, <1>15, <2>1
  <1>18. \A i \in 1 .. n : Found(hits[i]) =>
           \/ Key(i) \in seen
           \/ \E j \in 1 .. Len(o) : KeyOfReading(o[j]) = Key(i)
    <2> SUFFICES ASSUME NEW i \in 1 .. n, Found(hits[i]), Key(i) \notin seen
                 PROVE  \E j \in 1 .. Len(o) : KeyOfReading(o[j]) = Key(i)
      OBVIOUS
    <2>1. PICK k \in new : Key(k) = Key(i)
      BY <1>4, <1>10
    <2>2. PICK j \in 1 .. Len(t) : at[j] = k
      BY <1>11
    <2> QED
      BY <1>14, <1>15, <2>1, <2>2
  <1> QED
    BY <1>3, <1>2, <1>12, <1>14, <1>16, <1>17, <1>18 DEF n, Key, o, OthersOf

\* The chosen reading is accepted, true, and the likeliest if the dictionary explains that.
LEMMA ChosenIs ==
  ASSUME NEW q, GoodQuery(q), NEW primary, GoodHit(primary, q.lemma, q.upos),
         NEW hits, GoodHits(q, hits)
  PROVE  LET c == Chosen(q, primary, hits)
             r == c.reading
         IN  /\ NamesItsLemma(r)
             /\ IF c.via = Nil THEN r.senses = <<>> ELSE Len(r.senses) \in 1 .. MaxSenses
             /\ IF c.via = "alternative" THEN r.hop \in Hops ELSE r.hop = Nil
             /\ FormOfOK(IF c.via = "alternative" THEN r.hop ELSE c.via, r.formOf)
             /\ Matches(primary, q.upos) => c.via # "alternative" /\ r.upos = q.upos
  <1> DEFINE c == Chosen(q, primary, hits)
             r == c.reading
             alts == q.alternatives
             n == Len(alts)
             standing == {i \in DOMAIN hits :
               /\ Found(hits[i])
               /\ Matches(hits[i], alts[i].upos) \/ (~ Found(primary) /\ alts[i].upos = Nil)}
             kept == Found(primary) /\ (q.upos = Nil \/ Matches(primary, q.upos))
  <1>1. DOMAIN hits = 1 .. n /\ q.lemma \in Lemmas
    BY DEF GoodHits, GoodQuery
  <1>2. /\ SensesOf(primary.senses, Named(primary, q.lemma))
        /\ FitsFirst(primary.senses, q.upos) /\ Len(primary.senses) <= MaxSenses
        /\ primary.via \in Hops \cup {Nil}
        /\ Found(primary) <=> primary.senses # <<>>
    BY DEF GoodHit
  <1>3. primary.senses \in Seq(AnySense)
    BY <1>2 DEF SensesOf
  <1>4. Len(primary.senses) \in Nat /\ (primary.senses # <<>> => Len(primary.senses) # 0)
        /\ MaxSenses \in Nat
    BY <1>3, LenProperties, EmptySeq, GlossAssumption
  <1>5. "alternative" \notin Hops \cup {Nil}
    BY NilIsApart DEF Hops
  <1>6. CASE kept \/ standing = {}
    <2> DEFINE p == Reading(primary, q.lemma, Nil, primary.senses, q.upos)
    <2>1. c = [via |-> primary.via, reading |-> p]
      BY <1>6 DEF Chosen
    <2>2. c.via = primary.via /\ r = p
      BY <2>1
    <2> HIDE DEF c, p
    <2>3. /\ NamesItsLemma(p) /\ FormOfOK(primary.via, p.formOf)
          /\ p.hop = Nil /\ p.senses = primary.senses
          /\ p.upos = (IF primary.senses # <<>> THEN primary.senses[1].upos ELSE q.upos)
      BY <1>1, <1>2, ReadingsAreTrue DEF p
    <2>4. c.via # "alternative"
      BY <1>2, <1>5, <2>2
    <2>5. IF c.via = Nil THEN p.senses = <<>> ELSE Len(p.senses) \in 1 .. MaxSenses
      BY <1>2, <1>4, <2>2, <2>3 DEF Found
    <2>6. Matches(primary, q.upos) => p.upos = q.upos
      <3> SUFFICES ASSUME Matches(primary, q.upos) PROVE p.upos = q.upos
        OBVIOUS
      <3>1. Len(primary.senses) >= 1 /\ Fits(primary.senses[1], q.upos)
        BY <1>2, <1>3, FirstFits DEF Matches
      <3>2. primary.senses # <<>>
        BY <3>1, EmptySeq
      <3> QED
        BY <2>3, <3>1, <3>2 DEF Fits
    <2> QED
      BY <2>2, <2>3, <2>4, <2>5, <2>6 DEF c
  <1>7. CASE ~ kept /\ standing # {}
    <2> DEFINE As(i) == Reading(hits[i], alts[i].lemma, hits[i].via, hits[i].senses, alts[i].upos)
               i == CHOOSE i \in standing : \A j \in standing : i <= j
               hit == hits[i]
               alt == alts[i]
               a == As(i)
    <2>1. c = [via |-> "alternative", reading |-> a]
      BY <1>7 DEF Chosen
    <2>2. c.via = "alternative" /\ r = a
      <3> HIDE DEF a, c
      <3> QED
        BY <2>1
    <2>3. standing \in SUBSET Nat
      BY <1>1
    <2>4. i \in standing
      <3> HIDE DEF standing
      <3>1. \E k \in standing : \A j \in standing : k <= j
        BY <1>7, <2>3, LeastNumber
      <3> QED
        BY <3>1
    <2> HIDE DEF i, c
    <2>5. i \in 1 .. n /\ Found(hit)
      BY <1>1, <2>4
    <2>6. alt.lemma \in Lemmas /\ GoodHit(hit, alt.lemma, alt.upos)
      BY <2>5, AlternativesAre DEF GoodHits
    <2>7. a = Reading(hit, alt.lemma, hit.via, hit.senses, alt.upos)
      OBVIOUS
    <2> HIDE DEF a, hit, alt
    <2>8. /\ SensesOf(hit.senses, Named(hit, alt.lemma)) /\ Len(hit.senses) <= MaxSenses
          /\ hit.via \in Hops /\ hit.senses # <<>>
      BY <2>5, <2>6 DEF GoodHit, Found
    <2>9. Len(hit.senses) \in 1 .. MaxSenses
      <3>1. hit.senses \in Seq(AnySense)
        BY <2>8 DEF SensesOf
      <3>2. Len(hit.senses) \in Nat \ {0}
        BY <2>8, <3>1, EmptySeq
      <3> QED
        BY <1>4, <2>8, <3>2
    <2>10. /\ NamesItsLemma(a) /\ FormOfOK(hit.via, a.formOf)
           /\ a.hop = hit.via /\ a.senses = hit.senses
      BY <2>6, <2>7, <2>8, ReadingsAreTrue
    <2>11. ~ Matches(primary, q.upos)
      <3> SUFFICES ASSUME Matches(primary, q.upos) PROVE FALSE
        OBVIOUS
      <3>1. Len(primary.senses) >= 1
        BY <1>2, <1>3, FirstFits DEF Matches
      <3>2. primary.senses # <<>>
        BY <3>1, EmptySeq
      <3> QED
        BY <1>2, <1>7, <3>2
    <2>12. "alternative" # Nil
      BY NilIsApart
    <2> QED
      BY <2>2, <2>8, <2>9, <2>10, <2>11, <2>12 DEF c
  <1> QED
    BY <1>6, <1>7

\* Every answer of every dictionary is accepted, names its lemmas and loses nothing.
LEMMA AnswersAreHonest ==
  ASSUME opened \in Dictionaries, NEW q, GoodQuery(q)
  PROVE  LET a == Resolve(opened, q) IN
         /\ AcceptsResult(a)
         /\ \A r \in {a.reading} \cup ToSet(a.others) : NamesItsLemma(r)
         /\ NothingLost(q, a)
  <1> DEFINE a == Resolve(opened, q)
             primary == LookUp(opened, q.lemma, q.upos)
             hits == AlternativeHits(opened, q)
             c == Chosen(q, primary, hits)
             k0 == KeyOfReading(c.reading)
             o == OtherReadings(q, hits, {k0})
             n == Len(q.alternatives)
             keys == <<k0>> \o [i \in 1 .. Len(o) |-> KeyOfReading(o[i])]
  <1>1. a.via = c.via /\ a.reading = c.reading /\ a.others = o
    BY DEF Resolve, Answer
  <1>2. GoodHit(primary, q.lemma, q.upos) /\ GoodHits(q, hits)
    BY LookUpIsGood, HitsAreGood DEF GoodQuery
  <1>3. \A i \in 1 .. n :
          hits[i] = LookUp(opened, q.alternatives[i].lemma, q.alternatives[i].upos)
    BY DEF AlternativeHits
  <1> HIDE DEF a, hits
  <1>4. /\ NamesItsLemma(c.reading)
        /\ IF c.via = Nil THEN c.reading.senses = <<>> ELSE Len(c.reading.senses) \in 1 .. MaxSenses
        /\ IF c.via = "alternative" THEN c.reading.hop \in Hops ELSE c.reading.hop = Nil
        /\ FormOfOK(IF c.via = "alternative" THEN c.reading.hop ELSE c.via, c.reading.formOf)
        /\ Matches(primary, q.upos) => c.via # "alternative" /\ c.reading.upos = q.upos
    BY <1>2, ChosenIs
  <1> HIDE DEF c, primary, k0
  <1>5. /\ Len(o) \in Nat /\ Len(o) <= MaxAlternatives /\ DOMAIN o = 1 .. Len(o)
        /\ \A j \in 1 .. Len(o) :
             /\ KeyOfReading(o[j]) \notin {k0}
             /\ \E i \in 1 .. n : Found(hits[i]) /\ o[j] = OtherOf(q, hits, i)
        /\ \A j, k \in 1 .. Len(o) : j < k => KeyOfReading(o[j]) # KeyOfReading(o[k])
        /\ \A i \in 1 .. n : Found(hits[i]) =>
             \/ OtherKey(q, hits, i) \in {k0}
             \/ \E j \in 1 .. Len(o) : KeyOfReading(o[j]) = OtherKey(q, hits, i)
    <2> HIDE DEF o
    <2>1. OthersOf(q, hits, {k0}, o)
      BY <1>2, OthersAre DEF o
    <2> QED
      BY <2>1 DEF OthersOf
  <1> HIDE DEF o, n
  <1>6. \A j \in 1 .. Len(o) : AcceptsOther(o[j]) /\ NamesItsLemma(o[j])
    <2> SUFFICES ASSUME NEW j \in 1 .. Len(o) PROVE AcceptsOther(o[j]) /\ NamesItsLemma(o[j])
      OBVIOUS
    <2>1. PICK i \in 1 .. n : Found(hits[i]) /\ o[j] = OtherOf(q, hits, i)
      BY <1>5
    <2> QED
      BY <1>2, <2>1, OthersAreTrue DEF n
  <1>7. IsInjective(keys)
    <2> DEFINE tail == [i \in 1 .. Len(o) |-> KeyOfReading(o[i])]
               S == {k0} \cup {KeyOfReading(o[i]) : i \in 1 .. Len(o)}
    <2>1. tail \in Seq(S) /\ Len(tail) = Len(o) /\ <<k0>> \in Seq(S) /\ Len(<<k0>>) = 1 /\ <<k0>>[1] = k0
      BY <1>5
    <2>2. \A i \in 1 .. Len(o) : tail[i] = KeyOfReading(o[i])
      OBVIOUS
    <2>3. keys = <<k0>> \o tail
      OBVIOUS
    <2> HIDE DEF tail, S, keys
    <2>4. /\ keys \in Seq(S) /\ Len(keys) = 1 + Len(o)
          /\ \A i \in 1 .. 1 + Len(o) : keys[i] = IF i <= 1 THEN <<k0>>[i] ELSE tail[i - 1]
      BY <2>1, <2>3, ConcatProperties
    <2>5. DOMAIN keys = 1 .. 1 + Len(o)
      BY <2>4, LenProperties
    <2>6. keys[1] = k0
      BY <1>5, <2>1, <2>4
    <2>7. \A i \in 1 .. Len(o) : keys[i + 1] = KeyOfReading(o[i])
      <3> SUFFICES ASSUME NEW i \in 1 .. Len(o) PROVE keys[i + 1] = KeyOfReading(o[i])
        OBVIOUS
      <3>1. i + 1 \in 1 .. 1 + Len(o) /\ ~ (i + 1 <= 1) /\ (i + 1) - 1 = i
        BY <1>5
      <3> QED
        BY <2>2, <2>4, <3>1
    <2>8. \A i, j \in DOMAIN keys : i < j => keys[i] # keys[j]
      <3> SUFFICES ASSUME NEW i \in 1 .. 1 + Len(o), NEW j \in 1 .. 1 + Len(o), i < j
                   PROVE  keys[i] # keys[j]
        BY <2>5
      <3>1. j - 1 \in 1 .. Len(o) /\ keys[j] = KeyOfReading(o[j - 1])
        <4>1. j - 1 \in 1 .. Len(o) /\ (j - 1) + 1 = j
          BY <1>5
        <4> QED
          BY <2>7, <4>1
      <3>2. CASE i = 1
        BY <1>5, <2>6, <3>1, <3>2
      <3>3. CASE i # 1
        <4>1. i - 1 \in 1 .. Len(o) /\ (i - 1) + 1 = i /\ i - 1 < j - 1
          BY <1>5, <3>3
        <4>2. keys[i] = KeyOfReading(o[i - 1])
          BY <2>7, <4>1
        <4> QED
          BY <1>5, <3>1, <4>1, <4>2
      <3> QED
        BY <3>2, <3>3
    <2>9. \A i, j \in DOMAIN keys : i \in Nat /\ j \in Nat
      BY <2>5
    <2>10. ASSUME NEW i \in DOMAIN keys, NEW j \in DOMAIN keys, keys[i] = keys[j] PROVE i = j
      <3>1. ~ (i < j) /\ ~ (j < i)
        BY <2>8, <2>10
      <3> QED
        BY <2>9, <3>1
    <2> QED
      BY <2>10 DEF IsInjective
  <1>8. AcceptsResult(a)
    BY <1>1, <1>4, <1>5, <1>6, <1>7 DEF AcceptsResult, k0
  <1>9. \A r \in {a.reading} \cup ToSet(a.others) : NamesItsLemma(r)
    BY <1>1, <1>4, <1>5, <1>6 DEF ToSet
  <1>10. NothingLost(q, a)
    <2>1. ASSUME Matches(LookUp(opened, q.lemma, q.upos), q.upos)
          PROVE  a.via # "alternative" /\ a.reading.upos = q.upos
      BY <1>1, <1>4, <2>1 DEF primary
    <2>2. ASSUME NEW i \in 1 .. n,
                 Found(LookUp(opened, q.alternatives[i].lemma, q.alternatives[i].upos))
          PROVE  LET alt == q.alternatives[i]
                     hit == LookUp(opened, alt.lemma, alt.upos)
                 IN  \E r \in {a.reading} \cup ToSet(a.others) :
                       r.lemma = IF hit.of # Nil THEN hit.of ELSE alt.lemma
      <3> DEFINE alt == q.alternatives[i]
                 lemma == Named(hits[i], alt.lemma)
      <3>1. hits[i] = LookUp(opened, alt.lemma, alt.upos) /\ Found(hits[i])
        BY <1>3, <2>2
      <3>2. OtherOf(q, hits, i).lemma = lemma
        BY <1>2, <3>1, OthersAreTrue DEF n
      <3>3. ASSUME NEW r, KeyOfReading(r) = OtherKey(q, hits, i) PROVE r.lemma = lemma
        BY <3>2, <3>3 DEF KeyOfReading, OtherKey
      <3>4. \E r \in {a.reading} \cup ToSet(a.others) : r.lemma = lemma
        <4>1. CASE OtherKey(q, hits, i) \in {k0}
          <5>1. a.reading.lemma = lemma
            BY <1>1, <3>3, <4>1 DEF k0
          <5> QED
            BY <5>1
        <4>2. CASE \E j \in 1 .. Len(o) : KeyOfReading(o[j]) = OtherKey(q, hits, i)
          <5>1. PICK j \in 1 .. Len(o) : KeyOfReading(o[j]) = OtherKey(q, hits, i)
            BY <4>2
          <5>2. o[j].lemma = lemma
            BY <3>3, <5>1
          <5>3. o[j] \in ToSet(a.others)
            BY <1>1, <1>5 DEF ToSet
          <5> QED
            BY <5>2, <5>3
        <4> QED
          BY <1>5, <3>1, <4>1, <4>2
      <3>5. lemma = IF hits[i].of # Nil THEN hits[i].of ELSE alt.lemma
        BY DEF Named
      <3> HIDE DEF lemma
      <3> QED
        BY <3>1, <3>4, <3>5
    <2> QED
      BY <2>1, <2>2 DEF NothingLost, n
  <1> QED
    BY <1>8, <1>9, <1>10 DEF a

-----------------------------------------------------------------------------
\* A good file came after the last attempt to open one, if that found none.
CameSince ==
  /\ since # Nil <=> Good
  /\ since # Nil => since <= now
  /\ lastAttempt # Nil => lastAttempt <= now
  /\ opened = Nil /\ lastAttempt # Nil /\ since # Nil => lastAttempt <= since

\* An answer is what the open dictionary says to a query of some readings.
AnswerTrue ==
  reply.answer # Nil =>
    /\ opened \in Dictionaries
    /\ \E readings \in Readings :
         reply.query = QueryFor(readings) /\ reply.answer = Resolve(opened, reply.query)

\* The invariant of the word services.
GlossInv == GlossTypeOK /\ CameSince /\ AnswerTrue /\ FoundInTime /\ EngineTold

\* Times are numbers and never null.
LEMMA TimesAre ==
  /\ MaxTime \in Nat /\ Recheck \in Nat
  /\ \A t \in 0 .. MaxTime : t # Nil /\ t \in Nat
  BY GlossAssumption

\* The service begins so.
LEMMA GlossBegins == GlossInit => GlossInv
  <1> SUFFICES ASSUME GlossInit PROVE GlossInv
    OBVIOUS
  <1>1. 0 \in 0 .. MaxTime /\ 0 # Nil
    BY TimesAre
  <1>2. DOMAIN analysed = {} /\ analysed = <<>>
    BY DEF GlossInit
  <1>3. GlossTypeOK
    BY <1>1, <1>2 DEF GlossInit, GlossTypeOK, Contents
  <1>4. CameSince
    BY <1>1 DEF GlossInit, CameSince
  <1>5. AnswerTrue /\ FoundInTime
    BY DEF GlossInit, AnswerTrue, FoundInTime, NoReply
  <1>6. EngineTold
    BY <1>2 DEF GlossInit, EngineTold
  <1> QED
    BY <1>3, <1>4, <1>5, <1>6 DEF GlossInv

\* Ensure opens a good file at the latest a re-check after it came, and keeps what is open.
LEMMA EnsureOpens ==
  ASSUME GlossInv, Ensure, UNCHANGED <<fileVars, dictMode>>
  PROVE  /\ opened' \in Dictionaries \cup {Nil} /\ (opened # Nil => opened' = opened)
         /\ dictState' \in {"available", "not-installed", "disabled", "invalid-dictionary"}
         /\ lastAttempt' \in (0 .. MaxTime) \cup {Nil}
         /\ CameSince'
         /\ dictMode = "enabled" /\ opened' = Nil /\ since # Nil => now - since < Recheck
  <1> DEFINE tries == /\ dictMode = "enabled" /\ opened = Nil
                      /\ lastAttempt = Nil \/ now - lastAttempt >= Recheck
  <1>1. /\ opened \in Dictionaries \cup {Nil} /\ now \in 0 .. MaxTime
        /\ since \in (0 .. MaxTime) \cup {Nil} /\ lastAttempt \in (0 .. MaxTime) \cup {Nil}
        /\ dictState \in {"available", "not-installed", "disabled", "invalid-dictionary"}
    BY DEF GlossInv, GlossTypeOK
  <1>2. CameSince
    BY DEF GlossInv
  <1>3. /\ opened' = (IF tries /\ Good THEN dictFile ELSE opened)
        /\ dictState' = (IF ~ tries THEN dictState
                         ELSE IF Good THEN "available"
                         ELSE IF dictFile = Missing THEN "not-installed" ELSE "invalid-dictionary")
        /\ lastAttempt' = (IF dictMode = "enabled" /\ opened = Nil
                           THEN (IF tries THEN now ELSE lastAttempt) ELSE lastAttempt)
    BY DEF Ensure, Attempted
  <1>4. since' = since /\ now' = now /\ dictFile' = dictFile /\ (Good' <=> Good)
    BY DEF fileVars, Good
  <1>5. Good => dictFile \in Dictionaries /\ dictFile # Nil
    BY GlossAssumption DEF Good
  <1>6. CASE tries
    <2>1. opened = Nil /\ lastAttempt' = now /\ opened' = (IF Good THEN dictFile ELSE Nil)
      BY <1>3, <1>6
    <2>2. opened' \in Dictionaries \cup {Nil} /\ (opened' = Nil => since = Nil)
      BY <1>2, <1>5, <2>1 DEF CameSince
    <2>3. CameSince'
      BY <1>1, <1>2, <1>4, <2>1, <2>2, TimesAre DEF CameSince
    <2>4. dictState' \in {"available", "not-installed", "disabled", "invalid-dictionary"}
      BY <1>1, <1>3
    <2> QED
      BY <1>1, <2>1, <2>2, <2>3, <2>4
  <1>7. CASE ~ tries
    <2>1. opened' = opened /\ lastAttempt' = lastAttempt /\ dictState' = dictState
      BY <1>3, <1>7
    <2>2. CameSince'
      BY <1>2, <1>4, <2>1 DEF CameSince
    <2>3. dictMode = "enabled" /\ opened' = Nil /\ since # Nil => now - since < Recheck
      <3> SUFFICES ASSUME dictMode = "enabled", opened' = Nil, since # Nil
                   PROVE  now - since < Recheck
        OBVIOUS
      <3>1. opened = Nil /\ lastAttempt # Nil /\ ~ (now - lastAttempt >= Recheck)
        BY <1>7, <2>1
      <3>2. lastAttempt <= since
        BY <1>2, <3>1 DEF CameSince
      <3>3. now \in Nat /\ since \in Nat /\ lastAttempt \in Nat /\ Recheck \in Nat
        BY <1>1, <3>1, TimesAre
      <3> QED
        BY <3>1, <3>2, <3>3
    <2> QED
      BY <1>1, <2>1, <2>2, <2>3
  <1> QED
    BY <1>6, <1>7

\* A file that comes or goes.
LEMMA FileKeepsGloss ==
  ASSUME GlossInv, NEW content \in Contents, ChangeFile(content)
  PROVE  GlossInv'
  <1>1. /\ dictFile' = content /\ now' = now
        /\ since' = IF content \notin Dictionaries THEN Nil ELSE IF Good THEN since ELSE now
    BY DEF ChangeFile
  <1>2. UNCHANGED <<dictMode, opened, dictState, lastAttempt, reply, engine, waiting, analysed>>
    BY DEF ChangeFile, dictVars, engineVars
  <1>3. now \in 0 .. MaxTime /\ now # Nil /\ {since, lastAttempt} \subseteq (0 .. MaxTime) \cup {Nil}
    BY TimesAre DEF GlossInv, GlossTypeOK
  <1>4. CameSince /\ now \in Nat
    BY <1>3, TimesAre DEF GlossInv
  <1>5. CameSince'
    <2>1. Good' <=> content \in Dictionaries
      BY <1>1 DEF Good
    <2>2. CASE content \notin Dictionaries
      BY <1>1, <1>2, <1>4, <2>1, <2>2 DEF CameSince
    <2>3. CASE content \in Dictionaries /\ Good
      BY <1>1, <1>2, <1>4, <2>1, <2>3 DEF CameSince
    <2>4. CASE content \in Dictionaries /\ ~ Good
      <3>1. since' = now
        BY <1>1, <2>4
      <3> QED
        BY <1>1, <1>2, <1>3, <1>4, <2>1, <2>4, <3>1 DEF CameSince
    <2> QED
      BY <2>2, <2>3, <2>4
  <1>6. since' \in (0 .. MaxTime) \cup {Nil}
    BY <1>1, <1>3
  <1>7. GlossTypeOK'
    BY <1>1, <1>2, <1>3, <1>6 DEF GlossInv, GlossTypeOK, Contents
  <1>8. AnswerTrue' /\ FoundInTime' /\ EngineTold'
    BY <1>2 DEF GlossInv, AnswerTrue, FoundInTime, EngineTold
  <1> QED
    BY <1>5, <1>7, <1>8 DEF GlossInv

\* Time.
LEMMA TickKeepsGloss ==
  ASSUME GlossInv, Tick
  PROVE  GlossInv'
  <1>1. now < MaxTime /\ now' = now + 1 /\ since' = since /\ dictFile' = dictFile
    BY DEF Tick
  <1>2. UNCHANGED <<dictMode, opened, dictState, lastAttempt, reply, engine, waiting, analysed>>
    BY DEF Tick, dictVars, engineVars
  <1>3. now \in 0 .. MaxTime /\ {since, lastAttempt} \subseteq (0 .. MaxTime) \cup {Nil}
    BY DEF GlossInv, GlossTypeOK
  <1>4. now' \in 0 .. MaxTime
    BY <1>1, <1>3, TimesAre
  <1>5. GlossTypeOK'
    BY <1>1, <1>2, <1>4 DEF GlossInv, GlossTypeOK
  <1>6. CameSince'
    <2>1. since # Nil => since \in Nat
      BY <1>3, TimesAre
    <2>2. lastAttempt # Nil => lastAttempt \in Nat
      BY <1>3, TimesAre
    <2>3. now \in Nat
      BY <1>3, TimesAre
    <2>4. CameSince /\ (Good' <=> Good)
      BY <1>1 DEF GlossInv, Good
    <2> QED
      BY <1>1, <1>2, <2>1, <2>2, <2>3, <2>4 DEF CameSince
  <1>7. AnswerTrue' /\ FoundInTime' /\ EngineTold'
    BY <1>2 DEF GlossInv, AnswerTrue, FoundInTime, EngineTold
  <1> QED
    BY <1>5, <1>6, <1>7 DEF GlossInv

\* The start of the service.
LEMMA WarmKeepsGloss ==
  ASSUME GlossInv, Warm
  PROVE  GlossInv'
  <1>1. Ensure /\ UNCHANGED <<fileVars, dictMode, reply, engine, waiting, analysed>>
    BY DEF Warm, engineVars
  <1>2. /\ opened' \in Dictionaries \cup {Nil} /\ (opened # Nil => opened' = opened)
        /\ dictState' \in {"available", "not-installed", "disabled", "invalid-dictionary"}
        /\ lastAttempt' \in (0 .. MaxTime) \cup {Nil}
        /\ CameSince'
    BY <1>1, EnsureOpens
  <1>3. GlossTypeOK'
    BY <1>1, <1>2 DEF GlossInv, GlossTypeOK, fileVars
  <1>4. AnswerTrue'
    <2>1. opened \in Dictionaries => opened' = opened
      BY <1>2, GlossAssumption
    <2> QED
      BY <1>1, <2>1 DEF GlossInv, AnswerTrue
  <1>5. FoundInTime' /\ EngineTold'
    BY <1>1 DEF GlossInv, FoundInTime, EngineTold
  <1> QED
    BY <1>2, <1>3, <1>4, <1>5 DEF GlossInv

\* A lookup.
LEMMA AskKeepsGloss ==
  ASSUME GlossInv, NEW readings \in Readings, AskMeaning(readings)
  PROVE  GlossInv'
  <1>1. Ensure /\ UNCHANGED <<fileVars, dictMode, engine, waiting, analysed>>
    BY DEF AskMeaning, engineVars
  <1>2. /\ opened' \in Dictionaries \cup {Nil} /\ (opened # Nil => opened' = opened)
        /\ dictState' \in {"available", "not-installed", "disabled", "invalid-dictionary"}
        /\ lastAttempt' \in (0 .. MaxTime) \cup {Nil}
        /\ CameSince'
        /\ dictMode = "enabled" /\ opened' = Nil /\ since # Nil => now - since < Recheck
    BY <1>1, EnsureOpens
  <1>3. GlossTypeOK'
    BY <1>1, <1>2 DEF GlossInv, GlossTypeOK, fileVars
  <1>4. /\ dictMode \in {"enabled", "disabled"} /\ now \in 0 .. MaxTime
        /\ since \in (0 .. MaxTime) \cup {Nil}
    BY DEF GlossInv, GlossTypeOK
  <1>5. EngineTold'
    BY <1>1 DEF GlossInv, EngineTold
  <1> DEFINE late == since # Nil /\ now - since >= Recheck
             query == QueryFor(readings)
             refused(status) == [status |-> status, late |-> late, query |-> Nil, answer |-> Nil]
             told == [status |-> "available", late |-> late, query |-> query,
                      answer |-> Resolve(opened', query)]
  <1>6. \/ dictMode = "disabled" /\ reply' = refused("disabled")
        \/ opened' # Nil /\ reply' = told
        \/ reply' = refused("lookup-failed")
        \/ /\ dictMode = "enabled" /\ opened' = Nil
           /\ reply' = refused(IF dictState' = "invalid-dictionary" THEN dictState' ELSE "not-installed")
    BY <1>4 DEF AskMeaning, Refused, Answered
  <1> HIDE DEF query
  <1>7. CASE opened' # Nil /\ reply' = told
    <2>1. opened' \in Dictionaries
      BY <1>2, <1>7
    <2>2. reply'.status = "available" /\ reply'.query = query /\ reply'.answer = Resolve(opened', query)
      BY <1>7
    <2>3. AnswerTrue'
      BY <2>1, <2>2 DEF AnswerTrue, query
    <2>4. FoundInTime'
      BY <2>2 DEF FoundInTime
    <2> QED
      BY <1>2, <1>3, <1>5, <2>3, <2>4 DEF GlossInv
  <1>8. ASSUME NEW status, reply' = refused(status), status \notin {"not-installed", "invalid-dictionary"}
        PROVE  GlossInv'
    <2>1. reply'.answer = Nil /\ reply'.status = status
      BY <1>8
    <2>2. AnswerTrue' /\ FoundInTime'
      BY <1>8, <2>1 DEF AnswerTrue, FoundInTime
    <2> QED
      BY <1>2, <1>3, <1>5, <2>2 DEF GlossInv
  <1>9. ASSUME NEW status, reply' = refused(status), dictMode = "enabled", opened' = Nil
        PROVE  GlossInv'
    <2>1. reply'.answer = Nil /\ reply'.late = late
      BY <1>9
    <2>2. ~ late
      <3> SUFFICES ASSUME since # Nil PROVE ~ (now - since >= Recheck)
        OBVIOUS
      <3>1. now - since < Recheck
        BY <1>2, <1>9
      <3>2. now \in Nat /\ since \in Nat /\ Recheck \in Nat
        BY <1>4, TimesAre
      <3> QED
        BY <3>1, <3>2
    <2> HIDE DEF late
    <2>3. AnswerTrue' /\ FoundInTime'
      BY <2>1, <2>2 DEF AnswerTrue, FoundInTime
    <2> QED
      BY <1>2, <1>3, <1>5, <2>3 DEF GlossInv
  <1> HIDE DEF refused, told
  <1> QED
    BY <1>6, <1>7, <1>8, <1>9

\* Morfeusz, loaded or asked.
LEMMA EngineKeepsGloss ==
  ASSUME GlossInv,
         UNCHANGED <<fileVars, dictVars>>,
         \/ WarmEngine \/ EngineLoads
         \/ \E r \in Asked : AskAnalysis(r) \/ Analysed(r)
  PROVE  GlossInv'
  <1>1. UNCHANGED <<dictFile, since, now, dictMode, opened, dictState, lastAttempt, reply>>
    BY DEF fileVars, dictVars
  <1>2. /\ engine \in {"not-loaded", "loading", "available", "unavailable"}
        /\ waiting \subseteq Asked /\ DOMAIN analysed \subseteq Asked \ waiting
        /\ EngineTold
    BY DEF GlossInv, GlossTypeOK
  <1>3. /\ engine' \in {"not-loaded", "loading", "available", "unavailable"}
        /\ waiting' \subseteq Asked /\ DOMAIN analysed' \subseteq Asked \ waiting'
        /\ EngineTold'
    <2>0. DOMAIN <<>> = {}
      OBVIOUS
    <2>1. CASE WarmEngine
      BY <1>2, <2>0, <2>1 DEF WarmEngine, EnsureEngine, EngineTold
    <2>2. CASE EngineLoads
      BY <1>2, <2>0, <2>2 DEF EngineLoads, EngineTold
    <2>3. ASSUME NEW r \in Asked, AskAnalysis(r)
          PROVE  /\ engine' \in {"not-loaded", "loading", "available", "unavailable"}
                 /\ waiting' \subseteq Asked /\ DOMAIN analysed' \subseteq Asked \ waiting'
                 /\ EngineTold'
      BY <1>2, <2>0, <2>3 DEF AskAnalysis, EnsureEngine, EngineTold
    <2>4. ASSUME NEW r \in Asked, Analysed(r)
          PROVE  /\ engine' \in {"not-loaded", "loading", "available", "unavailable"}
                 /\ waiting' \subseteq Asked /\ DOMAIN analysed' \subseteq Asked \ waiting'
                 /\ EngineTold'
      <3>1. PICK end \in (IF engine = "available" THEN {"available", "analysis-failed"}
                          ELSE {"adapter-load-failed"}) :
              analysed' = [x \in DOMAIN analysed \cup {r} |-> IF x = r THEN end ELSE analysed[x]]
        BY <2>4 DEF Analysed
      <3>2. engine \in {"available", "unavailable"} /\ engine' = engine /\ waiting' = waiting \ {r}
            /\ r \in waiting
        BY <2>4 DEF Analysed
      <3>3. DOMAIN analysed' = DOMAIN analysed \cup {r}
        BY <3>1
      <3>4. \A x \in DOMAIN analysed' : analysed'[x] = IF x = r THEN end ELSE analysed[x]
        BY <3>1
      <3>5. (end = "adapter-load-failed") <=> (engine = "unavailable")
        BY <3>1, <3>2
      <3>6. EngineTold'
        BY <1>2, <3>2, <3>3, <3>4, <3>5 DEF EngineTold
      <3> QED
        BY <1>2, <3>2, <3>3, <3>6
    <2> QED
      BY <2>1, <2>2, <2>3, <2>4
  <1>4. GlossTypeOK' /\ CameSince' /\ AnswerTrue' /\ FoundInTime'
    BY <1>1, <1>3 DEF GlossInv, GlossTypeOK, CameSince, AnswerTrue, FoundInTime, Good
  <1> QED
    BY <1>3, <1>4 DEF GlossInv

\* Every step keeps the invariant.
LEMMA GlossSteps == GlossInv /\ [GlossNext]_glossVars => GlossInv'
  <1> SUFFICES ASSUME GlossInv, [GlossNext]_glossVars PROVE GlossInv'
    OBVIOUS
  <1>1. CASE \E content \in Contents : ChangeFile(content)
    BY <1>1, FileKeepsGloss
  <1>2. CASE Tick
    BY <1>2, TickKeepsGloss
  <1>3. CASE Warm
    BY <1>3, WarmKeepsGloss
  <1>4. CASE \E readings \in Readings : AskMeaning(readings)
    BY <1>4, AskKeepsGloss
  <1>5. CASE WarmEngine \/ EngineLoads \/ \E r \in Asked : AskAnalysis(r) \/ Analysed(r)
    <2>1. UNCHANGED <<fileVars, dictVars>>
      BY <1>5 DEF WarmEngine, EngineLoads, AskAnalysis, Analysed
    <2> QED
      BY <1>5, <2>1, EngineKeepsGloss
  <1>6. CASE UNCHANGED glossVars
    BY <1>6 DEF glossVars, fileVars, dictVars, engineVars, GlossInv, GlossTypeOK, CameSince, Good,
                AnswerTrue, FoundInTime, EngineTold
  <1> QED
    BY <1>1, <1>2, <1>3, <1>4, <1>5, <1>6 DEF GlossNext

\* A dictionary that is open stays, what was answered is what it says, and no good file is
\* overlooked for longer than a re-check.
THEOREM GlossInvHolds == GlossSpec => []GlossInv
  BY GlossBegins, GlossSteps, PTL DEF GlossSpec

\* Whatever the dictionary holds and whatever Morfeusz reads, the browser accepts the
\* service's answer, which names its lemmas truly and loses nothing; an installed dictionary
\* is found in time; nobody is refused while Morfeusz may still load.
THEOREM MeaningsStayHonest == GlossSpec => []MeaningsHonest
  <1>1. GlossInv => MeaningsHonest
    <2> SUFFICES ASSUME GlossInv PROVE MeaningsHonest
      OBVIOUS
    <2>1. AnswerHonest
      <3> SUFFICES ASSUME reply.answer # Nil
                   PROVE  /\ AcceptsResult(reply.answer)
                          /\ \A r \in {reply.answer.reading} \cup ToSet(reply.answer.others) : NamesItsLemma(r)
                          /\ NothingLost(reply.query, reply.answer)
        BY DEF AnswerHonest
      <3>1. opened \in Dictionaries
        BY DEF GlossInv, AnswerTrue
      <3>2. PICK readings \in Readings :
              reply.query = QueryFor(readings) /\ reply.answer = Resolve(opened, reply.query)
        BY DEF GlossInv, AnswerTrue
      <3>3. GoodQuery(reply.query)
        BY <3>2, QueriesAreGood
      <3> QED
        BY <3>1, <3>2, <3>3, AnswersAreHonest
    <2> QED
      BY <2>1 DEF GlossInv, MeaningsHonest
  <1> QED
    BY <1>1, GlossInvHolds, PTL
=============================================================================
