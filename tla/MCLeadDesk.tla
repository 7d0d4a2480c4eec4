------------------------------ MODULE MCLeadDesk ------------------------------
(* Instances of FollowUps, LeadDesk included, for TLC. *)
EXTENDS FollowUps, TLC

CONSTANTS a, b, north, p1, p2, x, y, web, poster, e1, f1

\* x is a consultation by phone in the north, with its campaign; y leaves a
\* bad mail address only.
MCFactsOf ==
    (x :> [phone |-> p1, bad |-> {}, region |-> north, source |-> web, allowed |-> TRUE])
    @@ (y :> [phone |-> NoPhone, bad |-> {"email"}, region |-> Anywhere, source |-> NoSource, allowed |-> FALSE])

MCPayloads == {[phone |-> p1, bad |-> {}, allowed |-> v] : v \in BOOLEAN}

FormRow(v, status) == [version |-> v, status |-> status, complete |-> TRUE, expired |-> FALSE]
EntryRow(m, w, current, r) == [member |-> m, born |-> 0, weight |-> w, current |-> current, region |-> r]

\* A pool of weights 1 and 2, its cursors at zero.  A tenant that has run for a
\* while: two versions of a form, and either no leads yet, or two contacts, with
\* one phone or two, and the lead that the pool's first turn went to.
MCForms == {<<FormRow(1, "published"), FormRow(2, "draft")>>}
MCPool == <<EntryRow(a, 1, 0, north), EntryRow(b, 2, 0, Anywhere)>>
MCTenants ==
    {[pool |-> MCPool, turned |-> FALSE, contacts |-> <<>>, leads |-> <<>>]} \cup
    {[pool |-> MCPool, turned |-> TRUE,
      contacts |-> <<[phone |-> first, live |-> TRUE, since |-> 1], [phone |-> p1, live |-> TRUE, since |-> 2]>>,
      leads |-> <<[contact |-> 1, status |-> "new", assignee |-> b, source |-> 0]>>] : first \in {p1, p2}}

\* A comment that asks to buy, with or without a wish to answer it, its edit,
\* its retraction.
MCPosts ==
    {[event |-> e1, need |-> "comment.read", text |-> t, sales |-> TRUE, retracted |-> FALSE, reply |-> t = "hi"] :
        t \in {"hi", "price?"}}
    \cup {[event |-> e1, need |-> "comment.read", text |-> "hi", sales |-> FALSE, retracted |-> TRUE, reply |-> FALSE]}

\* A company before and after it renamed itself; it may be imported already,
\* and be a draft.
MCProfiles == {[name |-> n, region |-> north] : n \in {"old", "new"}}
MCCompanies ==
    {<<>>, f1 :> [profile |-> [name |-> "old", region |-> north], status |-> "draft", conflict |-> FALSE, lead |-> 0]}

MCThroughs == {[text |-> "called", complete |-> TRUE, next |-> n, waiting |-> n] : n \in BOOLEAN}

Symmetric == Permutations(Callers)
=============================================================================
