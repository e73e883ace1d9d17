------------------------------- MODULE JobInput -------------------------------
(***************************************************************************)
(* What becomes of the request that creates a job: the server checks and   *)
(* normalizes it, stores a row, and the runner of an Agent judges the      *)
(* input of the row by rules of its own.                                   *)
(*                                                                         *)
(* A field's value is reduced to what the rules tell apart.  That two of   *)
(* the other fields are stored as JSON text makes no difference: the       *)
(* Agent's rules read the input only.  AllowedPaths models the check of    *)
(* paths.                                                                  *)
(***************************************************************************)
EXTENDS FiniteSets

CONSTANTS
  Missing,     \* not in the request
  Null,
  Good,        \* valid, in the form it is stored in
  Loose,       \* valid once converted: a number as text, blanks around a name, another time zone
  Empty,       \* the empty text
  Elsewhere,   \* a path under a root of the server's that is not the Agent's
  Invalid,     \* anything else
  Nothing

Values == {Missing, Null, Good, Loose, Empty, Elsewhere, Invalid}

Kinds == {"ffmpeg", "topaz", "other"}

Paths       == {"sourcePath", "outputPath"}
Encoding    == {"codec", "qualityMode", "quality", "bitrate", "preset", "audioCodec", "projectId"}
InputFields(kind) ==
  Paths \cup Encoding \cup (IF kind = "topaz" THEN {"model", "scale"} ELSE {"resolution"})

\* The values are seven, and none of them is text for an object.
ASSUME InputAssumption ==
  /\ Missing \notin {Null, Good, Loose, Empty, Elsewhere, Invalid}
  /\ Null \notin {Good, Loose, Empty, Elsewhere, Invalid} /\ Good \notin {Loose, Empty, Elsewhere, Invalid}
  /\ Loose \notin {Empty, Elsewhere, Invalid} /\ Empty \notin {Elsewhere, Invalid} /\ Elsewhere # Invalid
  /\ Nothing # "fails"
  /\ \A kind \in Kinds, v \in {Null, Invalid} : v \notin [InputFields(kind) -> Values]

Provenance == {"project_id", "version_no", "uploaded_at"}
RowFields  == {"priority", "depends_on", "required_software", "origin"} \cup Provenance

VARIABLES
  sent,      \* the request, or Nothing
  jobRow,    \* the row it made, or Nothing
  verdict    \* of the Agent: "runs" or "fails", or Nothing

inputVars == <<sent, jobRow, verdict>>

InputInit == sent = Nothing /\ jobRow = Nothing /\ verdict = Nothing

-------------------------------------------------------------------------------
(* One field.                                                                *)

Converted == {"quality", "scale", "priority", "depends_on"} \cup Provenance

IsAbsent(v) == v \in {Missing, Null}

Nullable ==
  {"quality", "bitrate", "resolution", "projectId", "depends_on", "required_software", "origin"}

\* Without a value a default is stored; null and the empty text count as 0.
Filled(f, v) ==
  \/ v = Missing /\ f \in {"preset", "audioCodec", "priority"}
  \/ v = Null /\ f = "priority"
  \/ v = Empty /\ f \in {"quality", "priority"}

\* Mutant: what Number() accepts is stored as it came.
AsSent(f, v) == IF v = Loose /\ f \in Converted THEN Loose ELSE Good

Stored(f, v) == Good

\* What is stored of a field, or Bad when the request is refused.
normal(f, v) ==
  CASE v = Good \/ Filled(f, v) \/ (v = Loose /\ f \in Converted) -> Stored(f, v)
    [] IsAbsent(v) /\ f \in Nullable \cup Provenance                -> Null
    [] v = Empty /\ f \in Provenance                              -> Null
    [] v = Elsewhere /\ f \in Paths                               -> Elsewhere
    [] OTHER                                                      -> Invalid

Normalized(fields) == [f \in DOMAIN fields |-> normal(f, fields[f])]
Accepted(fields)   == \A f \in DOMAIN fields : normal(f, fields[f]) # Invalid

-------------------------------------------------------------------------------
(* The request.  Its input is absent, or text that is no JSON object, or an  *)
(* object; its type may be written with blanks around it.                    *)

Ordinary(fields) == [f \in fields |-> Good]

\* All but two fields are as they should be.
Objects(fields) ==
  {[Ordinary(fields) EXCEPT ![f] = v, ![g] = w] : f, g \in fields, v, w \in Values}

Inputs(kind) == {Null, Invalid} \cup Objects(InputFields(kind))

Requests ==
  (UNION {[kind : {k}, blanks : BOOLEAN, input : Inputs(k), rest : {Ordinary(RowFields)}]
            : k \in Kinds})
  \cup [kind : Kinds, blanks : BOOLEAN, input : {Null}, rest : Objects(RowFields)]

\* The type is compared before it is trimmed.
KnownAs(request, kind) == request.kind = kind /\ ~ request.blanks

validateInput(fields) == fields \notin {Null, Invalid} /\ Accepted(fields)

IsValid(request) ==
  /\ Accepted(request.rest)
  /\ \A kind \in {"ffmpeg", "topaz"} :
       KnownAs(request, kind) /\ request.input # Null => validateInput(request.input)

Checked(request) == request.input # Null /\ \E kind \in {"ffmpeg", "topaz"} : KnownAs(request, kind)

validateJobInput(request) ==
  [kind  |-> request.kind,
   input |-> IF Checked(request) THEN Normalized(request.input) ELSE request.input,
   rest  |-> Normalized(request.rest)]

Create ==
  /\ sent = Nothing
  /\ \E request \in Requests :
       /\ sent' = request /\ verdict' = Nothing
       /\ jobRow' = IF IsValid(request) THEN validateJobInput(request) ELSE Nothing

-------------------------------------------------------------------------------
(* The Agent.  ParseInput fails without an input, on what is no object and   *)
(* on a number given as text; a field left out is null, or 0.                *)

AgentTakes(f, v) ==
  \/ v = Good
  \/ f \in {"quality", "bitrate", "resolution"} /\ v \in {Missing, Null}
  \/ f = "projectId" /\ v \in {Missing, Null, Empty}

\* Any text will do as a project, and what else may stand there will not.
AgentMayTake(f, v) == AgentTakes(f, v) \/ f = "projectId"

Judge ==
  /\ jobRow # Nothing /\ jobRow.kind # "other" /\ verdict = Nothing
  /\ LET fields == DOMAIN jobRow.input
     IN  \/ /\ jobRow.input \notin {Null, Invalid}
            /\ \A f \in fields : AgentMayTake(f, jobRow.input[f])
            /\ verdict' = "runs"
         \/ /\ jobRow.input \notin {Null, Invalid}
               => \E f \in fields : ~ AgentTakes(f, jobRow.input[f])
            /\ verdict' = "fails"
  /\ UNCHANGED <<sent, jobRow>>

InputNext == Create \/ Judge

InputSpec == InputInit /\ [][InputNext]_inputVars

-------------------------------------------------------------------------------
(* The row is well formed: every field outside its input is stored in its    *)
(* one form or as null, and only null where null may stand.                  *)
InputTypeOK ==
  /\ verdict \in {Nothing, "runs", "fails"}
  /\ jobRow # Nothing =>
       /\ jobRow.kind \in Kinds
       /\ \A f \in RowFields : jobRow.rest[f] \in (IF f = "priority" THEN {Good} ELSE {Good, Null})

(* A job that was posted under its type, with an input, is not failed by the *)
(* Agent's rules, although these are written in another language and keep    *)
(* types of their own: only a path outside the Agent's roots stops it.       *)
RulesAgree ==
  /\ jobRow # Nothing /\ Checked(sent) /\ verdict = "fails"
  => \E p \in Paths : jobRow.input[p] = Elsewhere

(* The server's check, what it writes and the Agent's check agree about every *)
(* field: nothing that is stored is of a form the Agent does not read.       *)
InputsAgree == InputTypeOK /\ RulesAgree
===============================================================================
