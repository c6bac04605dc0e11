---------------------------- MODULE ResponseCache ----------------------------
(***************************************************************************)
(* The lists that the pages of the Subsonic plugin share: the answer to a  *)
(* request is kept with its time and served until it is too old, a failure *)
(* like a success; a request that raises leaves the answer kept before.    *)
(***************************************************************************)
EXTENDS Integers, SequencesExt

CONSTANTS Lists,       \* playlists, starred, artists, genres, newest, random, all artists
          Timeout,     \* of each list
          PageOf,      \* the answers per request of each list; 0: all at once
          MaxItems, MaxTime,
          Never

VARIABLES now, length,  \* the time, the items of a list on the server
          cached,       \* [Lists -> answer and its time]
          shown         \* what the last page used: the list, the answer

vars == <<now, length, cached, shown>>

__is_older_than(t, delta) == t # Never => t < now - delta
\* Mutant of cached_response_is_expired: an answer stays.
NeverExpired(l) == cached[l].answer = Never
cached_response_is_expired(l) == cached[l].answer # Never => __is_older_than(cached[l].time, Timeout[l])

\* _load_all_artists(): pages until a short one.
LoadAll(l) ==
  LET n == PageOf[l]
      from[offset \in 0..MaxItems + n] ==
        LET count == IF length[l] - offset < n THEN length[l] - offset ELSE n
        IN IF count < n THEN count ELSE count + from[offset + n]
  IN IF n = 0 THEN length[l] ELSE from[0]

Serve(l, answer) == shown' = [list |-> l, answer |-> answer]
GetCached(l) ==
  /\ ~cached_response_is_expired(l)
  /\ Serve(l, cached[l].answer)
  /\ UNCHANGED <<now, length, cached>>
Request(l, answer) ==
  /\ cached_response_is_expired(l)
  /\ cached' = [cached EXCEPT ![l] = [answer |-> answer, time |-> now]]
  /\ Serve(l, answer)
  /\ UNCHANGED <<now, length>>
\* An answer that is not Ok is kept, too; -1 stands for it.
GetAnswer(l) == Request(l, LoadAll(l))
GetFailure(l) == PageOf[l] = 0 /\ Request(l, -1)
\* Parameters other than those of the first page are asked for every time.
GetUncached(l) == Serve(l, LoadAll(l)) /\ UNCHANGED <<now, length, cached>>
Tick == now < MaxTime /\ now' = now + 1 /\ UNCHANGED <<length, cached, shown>>
ServerChange(l) ==
  \E n \in 0..MaxItems : length' = [length EXCEPT ![l] = n] /\ UNCHANGED <<now, cached, shown>>

Init ==
  /\ now = 0 /\ length \in [Lists -> 0..MaxItems] /\ shown = Never
  /\ cached = [l \in Lists |-> [answer |-> Never, time |-> Never]]
Next == Tick \/ \E l \in Lists : GetCached(l) \/ GetAnswer(l) \/ GetFailure(l) \/ GetUncached(l) \/ ServerChange(l)
Spec == Init /\ [][Next]_vars

-----------------------------------------------------------------------------
(* Properties. *)

\* A page shows the whole list as the server has it now, or what was asked for
\* no longer ago than the timeout of the list allows (get_starred and others).
AnswersAreRecent ==
  shown' # shown \/ cached' # cached =>
    LET l == shown'.list
    IN \/ shown'.answer \in {length[l], -1} /\ (cached' # cached => cached'[l].time = now)
       \/ shown'.answer = cached[l].answer /\ now - cached[l].time <= Timeout[l]

=============================================================================
