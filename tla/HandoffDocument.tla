--------------------------- MODULE HandoffDocument ---------------------------
(***************************************************************************)
(* From what a member confirms about a service draft to the document that  *)
(* is sent for it: the checks on the input, the fields that are missing,   *)
(* the document, and the checks the sender runs on its own document before *)
(* it stores it.  Source: handoffsender/document.go and validate.go.       *)
(*                                                                         *)
(* A text is its number of characters, 0 when it is absent.  JSON, clocks  *)
(* and the fields that are constants of the sender are left out: none of   *)
(* them depends on the input.                                              *)
(***************************************************************************)
EXTENDS Integers, Sequences, SequencesExt

CONSTANTS
    Absent    \* an optional fact that was not given

ASSUME DocumentAssumption == Absent \notin Int

\* ConfirmedInput: category (of the opportunity), summary, slug (the service
\* category: its length, and whether it is one), budget, deadline, assets.
Asset == [ref : Nat, name : STRING, digest : BOOLEAN, size : Int, media : Nat]

AssetProvided(a) ==
    /\ a.ref \in 1..256 /\ a.digest /\ a.size >= 1 /\ a.media \in 1..256

ValidateProvided(in) ==
    /\ in.summary <= 2000
    /\ in.slug # "malformed"
    /\ in.budget # Absent => in.budget > 0
    /\ in.deadline # "malformed"
    /\ Len(in.assets) <= 100
    /\ \A i, j \in DOMAIN in.assets : in.assets[i].name = in.assets[j].name => i = j
    /\ \A i \in DOMAIN in.assets : AssetProvided(in.assets[i])

Validate(in) ==
    /\ in.category = "creative_service"
    /\ in.summary # 0 /\ in.slug = "slug"
    /\ ValidateProvided(in)

MissingFields(in) ==
    {field \in {"summary", "budget", "deadline", "assets"} :
        \/ field = "summary" /\ in.summary = 0
        \/ field = "budget" /\ in.budget = Absent
        \/ field = "deadline" /\ in.deadline = "absent"
        \/ field = "assets" /\ in.assets = <<>>}

\* deliveryDescription: the summary, then one line each for the budget, the
\* deadline and the assets, whose references are joined by two characters.
Digits(n) == CHOOSE d \in 1..19 : n < 10^d /\ (d = 1 \/ n >= 10^(d - 1))
BudgetLine(in) == IF in.budget = Absent THEN 12 ELSE 14 + Digits(in.budget)
DeadlineLine(in) == IF in.deadline = "absent" THEN 12 ELSE 22
AssetsLine(in) ==
    IF in.assets = <<>> THEN 24
    ELSE 8 + FoldLeft(LAMBDA sum, a : sum + a.ref, 2 * (Len(in.assets) - 1), in.assets)
Description(in) == in.summary + BudgetLine(in) + DeadlineLine(in) + AssetsLine(in)

\* BuildDocument, up to the sender's own check: the document says what was
\* confirmed, lasts ten minutes, and names its source as standalone.
Document(in, id, version) ==
    [handoff |-> id, version |-> version, revision |-> in, issued |-> 0, expires |-> 600,
     assets |-> in.assets, description |-> Description(in),
     profile |-> [kind |-> "standalone", campaign |-> FALSE, capabilities |-> <<"leads.handoff">>,
                  constraints |-> SetToSeq({"purpose", "category"} \cup ({"budget", "deadline"} \ MissingFields(in)))]]

\* stringField: every text of a document has 1 to 256 characters.
StringField(length) == length \in 1..256

Distinct(list) == \A i, j \in DOMAIN list : list[i] = list[j] => i = j

\* The scopes and gates of the envelope are the sender's own lists.
ValidateEnvelope(doc) ==
    /\ Len(doc.assets) <= 100 /\ \A i \in DOMAIN doc.assets : AssetProvided(doc.assets[i])
    /\ Distinct([i \in DOMAIN doc.assets |-> doc.assets[i].name])
    /\ StringField(doc.description) /\ doc.description <= 4096
    /\ doc.issued < doc.expires /\ doc.expires - doc.issued <= 900

ValidateProfile(profile) ==
    /\ profile.kind \in {"standalone", "campaign"} /\ (profile.kind = "campaign" <=> profile.campaign)
    /\ Len(profile.capabilities) \in 1..16 /\ Distinct(profile.capabilities)
    /\ Len(profile.constraints) <= 16 /\ Distinct(profile.constraints)

ValidateSenderDocument(doc) == ValidateEnvelope(doc) /\ ValidateProfile(doc.profile) /\ doc.version \in Nat

Builds(in, id, version) == Validate(in) /\ ValidateSenderDocument(Document(in, id, version))
=============================================================================
