----------------------------- MODULE MCContent ------------------------------
(* Small instances of Content for TLC.                                     *)
EXTENDS Content, TLC

CONSTANTS b1, b1x, b0, g1, g2

\* A text, the same with blanks around it, a text without a rating (b0), and a
\* rating without a text.
MCStars == [b \in Bodies |-> IF b = b0 THEN 0 ELSE 5]
MCTrim == [b \in Bodies |-> IF b = b1x THEN b1 ELSE b]

\* A review, and another one without a rating and a date.
MCOnGoogle == [g \in GoogleIds |-> IF g = g1 THEN [body |-> b1, time |-> Ms(1)]
                                  ELSE [body |-> b0, time |-> NoTime]]

\* A list may name the id that a review has in a Business Profile.
MCPostedIds == {<<"gbp", g1>>}

Item(b, u, t) == [body |-> b, time |-> [unit |-> u, at |-> t], ext |-> NoExt]

\* A hand-edited file: blanks around a text, and a text without a rating.
MCFiles == {{Item(b1x, "s", 1), Item(b0, "s", 1)}}

MCEditTimes == {[unit |-> "s", at |-> 1]}

\* An organization with reviews and one with jobs.
MCUses == {{"reviews"}, {"jobs"}}

MCReviews == {{"reviews"}}

MCJobs == {{}, {[slug |-> s, status |-> "closed"] : s \in Slugs}}

MCEmpty == {{}}
MCDated == {{Item(b1, "s", 1)}}

=============================================================================
