----------------------------- MODULE AllowedPaths -----------------------------
(***************************************************************************)
(* The check that a path lies under one of the allowed roots, as the       *)
(* server makes it when a job is posted and as an Agent makes it again     *)
(* before the job's files are touched.                                     *)
(*                                                                         *)
(* The check works on the spelling of a path, so here a path is a sequence *)
(* of characters: a letter in both cases, the dot, and both separators.    *)
(* It is judged after every character that is added to it.                 *)
(***************************************************************************)
EXTENDS Naturals, Sequences, FiniteSets, SequencesExt

CONSTANTS MaxPath, MaxRoot   \* bounds on the lengths of paths and roots

ASSUME AllowedPathsAssumption == {MaxPath, MaxRoot} \subseteq Nat

Separators == {"\\", "/"}
Chars      == {"a", "A", "."} \cup Separators

\* A configured root names something besides the top of everything.
RootNames ==
  {r \in UNION {[1..n -> Chars] : n \in 1..MaxRoot} : \E i \in DOMAIN r : r[i] \notin Separators}

VARIABLES roots, path

pathVars == <<roots, path>>

PathInit == path = <<>> /\ roots \in {{}} \cup {{r} : r \in RootNames}

Add(c) == Len(path) < MaxPath /\ path' = Append(path, c) /\ UNCHANGED roots

PathNext == \E c \in Chars : Add(c)

PathSpec == PathInit /\ [][PathNext]_pathVars

-------------------------------------------------------------------------------
(* The server.                                                               *)

Folded(c) == IF c = "A" THEN "a" ELSE IF c = "/" THEN "\\" ELSE c

\* The length without the separators at the end.
Trimmed(s) == CHOOSE n \in 0..Len(s) :
                /\ \A i \in n + 1..Len(s) : s[i] = "\\"
                /\ n = 0 \/ s[n] # "\\"

normalized(s) ==
  LET folded == [i \in DOMAIN s |-> Folded(s[i])] IN SubSeq(folded, 1, Trimmed(folded))

ClimbsUp(s) == \E i \in 1..Len(s) - 1 : s[i] = "." /\ s[i + 1] = "."

\* Mutant: only a component of its own counts as a step up, and only inside.
ClimbsInside(s) == \E i \in 2..Len(s) - 2 :
  s[i] = "." /\ s[i + 1] = "." /\ s[i - 1] \in Separators /\ s[i + 2] \in Separators

ClimbsOut(s) == ClimbsUp(s)

Below(s, root) == s = root \/ IsPrefix(Append(root, "\\"), s)

isPathUnderAllowedRoot(s, allowed) ==
  /\ ~ ClimbsOut(s)
  /\ \E root \in allowed : Below(normalized(s), normalized(root))

requirePath(s, allowed) == s # <<>> /\ isPathUnderAllowedRoot(s, allowed)

-------------------------------------------------------------------------------
(* The Agent.                                                                *)

Normalize(s) == normalized(s)

IsUnderAllowedRoot(s, allowed) ==
  /\ s # <<>> /\ ~ ClimbsUp(s)
  /\ \E root \in allowed :
       Normalize(s) = Normalize(root) \/ IsPrefix(Append(Normalize(root), "\\"), Normalize(s))

-------------------------------------------------------------------------------
(* What a path means: how it begins, and the names on the way from there,    *)
(* where a dot stays and two dots go back.                                   *)

Leading(s) == CHOOSE n \in 0..Len(s) :
                /\ \A i \in 1..n : s[i] \in Separators
                /\ n = Len(s) \/ s[n + 1] \notin Separators

\* The names that the first n characters write, each letter in one case.
NamesTo(s) ==
  LET to[n \in 0..Len(s)] ==
        IF n = 0 THEN <<>>
        ELSE LET names == to[n - 1]
             IN  IF s[n] \in Separators THEN names
                 ELSE IF n = 1 \/ s[n - 1] \in Separators
                      THEN Append(names, <<Folded(s[n])>>)
                      ELSE [names EXCEPT ![Len(names)] = Append(@, Folded(s[n]))]
  IN  to

PathNames(s) == NamesTo(s)[Len(s)]

\* Where the first n of these names lead to.
WalkTo(names) ==
  LET at[n \in 0..Len(names)] ==
        IF n = 0 THEN <<>>
        ELSE IF names[n] = <<".">> THEN at[n - 1]
        ELSE IF names[n] = <<".", ".">> THEN SubSeq(at[n - 1], 1, Len(at[n - 1]) - 1)
        ELSE Append(at[n - 1], names[n])
  IN  at

Walk(s) == WalkTo(PathNames(s))[Len(PathNames(s))]

Inside(s, root) == Leading(s) = Leading(root) /\ IsPrefix(Walk(root), Walk(s))

\* Spelled without dot names and with one separator between two names.
Plain(s) ==
  /\ \A i \in DOMAIN PathNames(s) : \E j \in DOMAIN PathNames(s)[i] : PathNames(s)[i][j] # "."
  /\ \A i \in Leading(s) + 1..Len(s) - 1 : {s[i], s[i + 1]} \subseteq Separators
                                            => \A j \in i..Len(s) : s[j] \in Separators

(* A path that the server accepts leads to a place inside an allowed root,   *)
(* in whatever case and with whatever separators and dots it is spelled.     *)
AcceptedIsInside == requirePath(path, roots) => \E root \in roots : Inside(path, root)

(* No ordinary path inside a root is turned away, so that a job on the share *)
(* can be posted: refused are only two dots in a row, which may also stand   *)
(* inside a name, and detours that nobody's path takes.                      *)
InsideIsAccepted ==
  \A root \in roots :
    /\ Inside(path, root) /\ Plain(path) /\ Plain(root) /\ ~ ClimbsUp(path)
    => requirePath(path, roots)

(* With the same roots, a path that passed the server's check passes the     *)
(* Agent's, and the other way round: neither accepts a job that the other    *)
(* will fail.                                                                *)
SameVerdict == requirePath(path, roots) = IsUnderAllowedRoot(path, roots)

(* Both sides let through just the paths that lie inside an allowed root.    *)
PathRulesAgree == AcceptedIsInside /\ InsideIsAccepted /\ SameVerdict
===============================================================================
