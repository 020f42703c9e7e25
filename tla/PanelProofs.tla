---------------------------- MODULE PanelProofs ----------------------------
(***************************************************************************)
(* Three parts of the panel, which share no state, for any values of the   *)
(* constants.                                                              *)
(*                                                                         *)
(* Settings of sites: the settings nginx applies, the stored ones and      *)
(* those asked for differ only for a recorded reason, and the text of a    *)
(* site says what was asked of it last, since the parser undoes what the   *)
(* template does to a payload.                                             *)
(*                                                                         *)
(* Certificates: an imported one has one row, and files that match it, so  *)
(* that the three readers that put rows, files and lineages together agree *)
(* about every domain.                                                     *)
(*                                                                         *)
(* Statistics: a row is what the lines of its key weigh, however they were *)
(* cut into collections, and events are lines that were drawn in order, so *)
(* that what a page adds up over rows is what its lines say.  The pages    *)
(* are folds over sets: that a fold over a finite set has a value, and     *)
(* that a sum does not depend on the order of its terms, is shown first,   *)
(* by taking a least counterexample in a well-founded order.               *)
(***************************************************************************)
EXTENDS SiteSettings, Certificates, Statistics,
    SequenceTheorems, FiniteSetTheorems, WellFoundedInduction, TLAPS


-----------------------------------------------------------------------------
(* Settings of sites *)

Values == [Settings -> BOOLEAN]
IsText(t) == t.uses \in Values /\ (t.blocks = {} => t = NoText)

Typed ==
    /\ text = [s \in Slugs |-> text[s]] /\ \A s \in Slugs : IsText(text[s])
    /\ olds = [s \in Slugs |-> olds[s]] /\ \A s \in Slugs : \A t \in olds[s] : IsText(t)
    /\ stored \in [Slugs -> Values]
    /\ wanted \in [Slugs -> Values]

\* Nothing is asked for a site that is not there ...
NothingAskedOfNone == \A s \in Slugs : ~Exists(s) => wanted[s] = Off

\* ... and what is stored for it is what an earlier site of its name left.
StoredIsExplained == \A s \in Slugs, k \in Settings :
    stored[s][k] # wanted[s][k] => <<s, k>> \in lost

AppliedIsExplained == \A s \in Slugs, k \in Settings :
    Exists(s) /\ text[s].uses[k] # stored[s][k] => <<s, k>> \in late

IInv == Typed /\ NothingAskedOfNone /\ StoredIsExplained /\ AppliedIsExplained

-----------------------------------------------------------------------------
(* What a payload says *)

\* Payloads of requests, of templates and of what a regeneration reads.
Says(p) == p.log \in BOOLEAN

LEMMA SavedValues ==
  ASSUME NEW p, Says(p), NEW v \in Values
  PROVE  /\ Saved(p, v) \in Values
         /\ \A k \in Settings \ Given(p) : Saved(p, v)[k] = v[k]
         /\ \A w \in Values, k \in Given(p) : Saved(p, v)[k] = Saved(p, w)[k]
  BY DEF Saved, Given, Says, Values, Settings

LEMMA RenderedTexts ==
  ASSUME NEW p, NEW v \in Values
  PROVE  Rendered(p, v).blocks # {} /\ Rendered(p, v).uses = v /\ IsText(Rendered(p, v))
<1>1. Block(p) \in Rendered(p, v).blocks
  BY DEF Rendered
<1> QED
  BY <1>1 DEF Rendered, IsText

LEMMA NoTextIsText == IsText(NoText)
  BY DEF IsText, NoText, Values

LEMMA PayloadsSay ==
  /\ \A p \in Payloads : Says(p)
  /\ \A t \in Templates, r \in TemplateRequests : Says(Built(t, r))
  /\ \A s \in Slugs : Says(Reading(s)) /\ Given(Reading(s)) = {"log"}
  BY SettingsConstants DEF Says, Payload, Built, Reading, Parsed, Given, Settings

LEMMA OffIsValues == Off \in Values
  BY DEF Off, Values

LEMMA InitIInv == Init => IInv
<1> SUFFICES ASSUME Init PROVE IInv
  OBVIOUS
<1> QED
  BY OffIsValues, NoTextIsText DEF Init, IInv, Typed, NothingAskedOfNone, StoredIsExplained, AppliedIsExplained, NoText, Off,
     Values, Exists

-----------------------------------------------------------------------------
(* Requests *)

LEMMA HistoryTyped ==
  ASSUME Typed, NEW s \in Slugs, History(s, text[s]) \/ UNCHANGED olds
  PROVE  olds' = [x \in Slugs |-> olds'[x]] /\ \A x \in Slugs : \A t \in olds'[x] : IsText(t)
<1>1. CASE UNCHANGED olds
  BY <1>1 DEF Typed
<1>2. CASE History(s, text[s])
  <2>1. olds' = [x \in Slugs |-> IF x = s THEN olds[s] \cup {text[s]} ELSE olds[x]]
    BY <1>2 DEF History, Typed
  <2> QED
    BY <2>1 DEF Typed
<1> QED
  BY <1>1, <1>2

\* A request that leaves row, metadata, text and the histories alone.
LEMMA AloneKeeps ==
  ASSUME IInv, UNCHANGED <<text, olds, stored, wanted, late, lost>>
  PROVE  IInv'
  BY DEF IInv, Typed, NothingAskedOfNone, StoredIsExplained, AppliedIsExplained, Exists

LEMMA SaveKeeps ==
  ASSUME IInv, NEW s \in Slugs, NEW p, Says(p), Save(s, p)
  PROVE  IInv'
<1> USE DEF IInv
<1> DEFINE v == stored[s]
           w == IF Exists(s) THEN wanted[s] ELSE Off
<1>1. v \in Values /\ w \in Values
  BY OffIsValues DEF Typed
<1>2. \A k \in Settings : v[k] # w[k] => <<s, k>> \in lost
  BY DEF StoredIsExplained, NothingAskedOfNone
<1>3. text' = [x \in Slugs |-> IF x = s THEN Rendered(p, v) ELSE text[x]]
  BY DEF Save, Typed
<1>4. wanted' = [x \in Slugs |-> IF x = s THEN Saved(p, w) ELSE wanted[x]]
  BY DEF Save, Typed
<1>5. \/ stored' = [x \in Slugs |-> IF x = s THEN Saved(p, v) ELSE stored[x]]
      \/ stored' = stored
  BY DEF Save, Typed
<1>6. Typed'
  <2>1. olds' = [x \in Slugs |-> olds'[x]] /\ \A x \in Slugs : \A t \in olds'[x] : IsText(t)
    BY HistoryTyped DEF Save
  <2>2. wanted' \in [Slugs -> Values] /\ stored' \in [Slugs -> Values]
    BY <1>1, <1>4, <1>5, SavedValues DEF Typed
  <2>3. text' = [x \in Slugs |-> text'[x]] /\ \A x \in Slugs : IsText(text'[x])
    BY <1>1, <1>3, RenderedTexts DEF Typed
  <2> QED
    BY <2>1, <2>2, <2>3 DEF Typed
<1>7. NothingAskedOfNone'
  BY <1>1, <1>3, <1>4, RenderedTexts DEF NothingAskedOfNone, Exists
<1>8. \A x \in Slugs \ {s}, k \in Settings :
        /\ text'[x] = text[x] /\ stored'[x] = stored[x] /\ wanted'[x] = wanted[x]
        /\ <<x, k>> \in lost => <<x, k>> \in lost'
        /\ <<x, k>> \in late => <<x, k>> \in late'
  BY <1>3, <1>4, <1>5 DEF Save, Of
<1>9. \A k \in Settings : stored'[s][k] # wanted'[s][k] => <<s, k>> \in lost'
  <2>1. CASE lost' = lost \ Of(s, Given(p)) /\ stored' = [stored EXCEPT ![s] = Saved(p, @)]
    <3>1. stored'[s] = Saved(p, v) /\ wanted'[s] = Saved(p, w)
      BY <1>4, <2>1 DEF Typed
    <3> QED
      BY <1>1, <1>2, <2>1, <3>1, SavedValues DEF Of
  <2>2. CASE lost' = lost \cup Of(s, Given(p)) /\ UNCHANGED stored
    <3>1. stored'[s] = v /\ wanted'[s] = Saved(p, w)
      BY <1>4, <2>2
    <3> QED
      BY <1>1, <1>2, <2>2, <3>1, SavedValues DEF Of
  <2> QED
    BY <2>1, <2>2 DEF Save
<1>10. \A k \in Settings : text'[s].uses[k] # stored'[s][k] => <<s, k>> \in late'
  <2>0. text'[s].uses = v
    BY <1>1, <1>3, RenderedTexts
  <2>1. CASE /\ stored' = [stored EXCEPT ![s] = Saved(p, @)]
             /\ late' = (late \ Of(s, Settings)) \cup Of(s, {k \in Given(p) : stored[s][k] # Saved(p, stored[s])[k]})
    <3>1. stored'[s] = Saved(p, v)
      BY <2>1 DEF Typed
    <3> QED
      BY <1>1, <2>0, <2>1, <3>1, SavedValues DEF Of
  <2>2. CASE UNCHANGED stored
    BY <2>0, <2>2
  <2> QED
    BY <2>1, <2>2 DEF Save
<1>11. StoredIsExplained'
  BY <1>8, <1>9 DEF StoredIsExplained
<1>12. AppliedIsExplained'
  BY <1>8, <1>10 DEF AppliedIsExplained, Exists
<1> QED
  BY <1>6, <1>7, <1>11, <1>12

LEMMA RenameKeeps ==
  ASSUME IInv, NEW s \in Slugs, NEW t \in Slugs, NEW p, Says(p), Rename(s, t, p)
  PROVE  IInv'
<1> USE DEF IInv, Rename
<1>1. stored[s] \in Values /\ stored[t] \in Values /\ wanted[s] \in Values /\ s # t
  BY DEF Typed
<1>2. text' = [x \in Slugs |-> IF x = t THEN Rendered(p, stored[t]) ELSE IF x = s THEN NoText ELSE text[x]]
  BY DEF Typed
<1>3. wanted' = [x \in Slugs |-> IF x = t THEN Saved(p, wanted[s]) ELSE IF x = s THEN Off ELSE wanted[x]]
  BY DEF Typed
<1>4. stored' = [x \in Slugs |-> IF x = t THEN Saved(p, stored[t])
                                ELSE IF x = s THEN [k \in Settings |-> k \notin Given(p) /\ stored[s][k]]
                                ELSE stored[x]]
  BY <1>1 DEF Typed
<1>5. Typed'
  <2>1. olds' = [x \in Slugs |-> olds'[x]] /\ \A x \in Slugs : \A u \in olds'[x] : IsText(u)
    <3>1. olds' = [x \in Slugs |-> IF x = t THEN olds[t] \cup {text[s]} ELSE olds[x]]
      BY DEF History, Typed
    <3> QED
      BY <3>1 DEF Typed
  <2>2. wanted' \in [Slugs -> Values]
    BY <1>1, <1>3, SavedValues, OffIsValues DEF Typed
  <2>3. [k \in Settings |-> k \notin Given(p) /\ stored[s][k]] \in Values
    BY <1>1 DEF Values
  <2>4. stored' \in [Slugs -> Values]
    BY <1>1, <1>4, <2>3, SavedValues DEF Typed
  <2>6. text' = [x \in Slugs |-> text'[x]] /\ \A x \in Slugs : IsText(text'[x])
    <3>1. IsText(text'[t])
      BY <1>1, <1>2, RenderedTexts
    <3>2. IsText(text'[s])
      BY <1>1, <1>2, NoTextIsText
    <3>3. \A x \in Slugs \ {s, t} : IsText(text'[x])
      BY <1>2 DEF Typed
    <3> QED
      BY <1>2, <3>1, <3>2, <3>3
  <2> QED
    BY <2>1, <2>2, <2>4, <2>6 DEF Typed
<1>6. text'[t].blocks # {} /\ text'[s].blocks = {}
  BY <1>1, <1>2, RenderedTexts DEF NoText
<1>7. NothingAskedOfNone'
  BY <1>1, <1>2, <1>3, <1>6 DEF NothingAskedOfNone, Exists
<1>8. \A x \in Slugs \ {s, t}, k \in Settings :
        /\ text'[x] = text[x] /\ stored'[x] = stored[x] /\ wanted'[x] = wanted[x]
        /\ <<x, k>> \in lost => <<x, k>> \in lost'
        /\ <<x, k>> \in late => <<x, k>> \in late'
  BY <1>2, <1>3, <1>4 DEF Of
<1>9. \A k \in Settings \ Given(p) : <<s, k>> \in lost' /\ <<t, k>> \in lost'
  OBVIOUS
<1>10. \A k \in Given(p) \cap Settings : stored'[s][k] = wanted'[s][k] /\ stored'[t][k] = wanted'[t][k]
  <2>1. \A k \in Given(p) \cap Settings : stored'[s][k] = FALSE /\ wanted'[s][k] = FALSE
    <3>1. stored'[s] = [k \in Settings |-> k \notin Given(p) /\ stored[s][k]] /\ wanted'[s] = Off
      BY <1>1, <1>3, <1>4
    <3>2. \A k \in Given(p) \cap Settings : (k \notin Given(p) /\ stored[s][k]) = FALSE
      OBVIOUS
    <3> QED
      BY <3>1, <3>2 DEF Off
  <2>2. stored'[t] = Saved(p, stored[t]) /\ wanted'[t] = Saved(p, wanted[s])
    BY <1>1, <1>3, <1>4
  <2>3. \A k \in Given(p) : Saved(p, stored[t])[k] = Saved(p, wanted[s])[k]
    BY <1>1, SavedValues
  <2> QED
    BY <2>1, <2>2, <2>3
<1>11. \A k \in Settings : text'[t].uses[k] # stored'[t][k] => <<t, k>> \in late'
  <2>1. text'[t].uses = stored[t] /\ stored'[t] = Saved(p, stored[t])
    BY <1>1, <1>2, <1>4, RenderedTexts
  <2> QED
    BY <1>1, <2>1, SavedValues DEF Of
<1>12. StoredIsExplained'
  <2>1. ASSUME NEW x \in {s, t}, NEW k \in Settings, stored'[x][k] # wanted'[x][k]
        PROVE  <<x, k>> \in lost'
    BY <1>9, <1>10, <2>1
  <2>2. ASSUME NEW x \in Slugs \ {s, t}, NEW k \in Settings, stored'[x][k] # wanted'[x][k]
        PROVE  <<x, k>> \in lost'
    BY <1>8, <2>2 DEF StoredIsExplained
  <2> QED
    BY <2>1, <2>2 DEF StoredIsExplained
<1>13. AppliedIsExplained'
  BY <1>6, <1>8, <1>11 DEF AppliedIsExplained, Exists
<1> QED
  BY <1>5, <1>7, <1>12, <1>13

\* Deleting, and going back to no text: what is left of row and metadata is noted.
LEMMA RemoveKeeps ==
  ASSUME IInv, NEW s \in Slugs, Remove(s), History(s, text[s]) \/ UNCHANGED olds,
         \/ stored' = [stored EXCEPT ![s] = Off] /\ lost' = lost \ Of(s, Settings)
         \/ UNCHANGED stored /\ lost' = lost \cup Of(s, Settings)
  PROVE  IInv'
<1> USE DEF IInv, Remove
<1>1. text' = [x \in Slugs |-> IF x = s THEN NoText ELSE text[x]]
  BY DEF Typed
<1>2. wanted' = [x \in Slugs |-> IF x = s THEN Off ELSE wanted[x]]
  BY DEF Typed
<1>3. stored' \in [Slugs -> Values] /\ \A x \in Slugs \ {s} : stored'[x] = stored[x]
  BY OffIsValues DEF Typed
<1>4. Typed'
  <2>1. text' = [x \in Slugs |-> text'[x]] /\ \A x \in Slugs : IsText(text'[x])
    BY <1>1, NoTextIsText DEF Typed
  <2>2. wanted' \in [Slugs -> Values]
    BY <1>2, OffIsValues DEF Typed
  <2> QED
    BY <1>3, <2>1, <2>2, HistoryTyped DEF Typed
<1>5. text'[s].blocks = {}
  BY <1>1 DEF NoText
<1>6. NothingAskedOfNone'
  BY <1>1, <1>2 DEF NothingAskedOfNone, Exists
<1>7. \A k \in Settings : stored'[s][k] # wanted'[s][k] => <<s, k>> \in lost'
  <2>1. CASE stored' = [stored EXCEPT ![s] = Off]
    BY <1>2, <2>1 DEF Typed
  <2>2. CASE lost' = lost \cup Of(s, Settings)
    BY <2>2 DEF Of
  <2> QED
    BY <2>1, <2>2
<1>8. StoredIsExplained'
  BY <1>2, <1>3, <1>7 DEF StoredIsExplained, Of
<1>9. AppliedIsExplained'
  BY <1>1, <1>3, <1>5 DEF AppliedIsExplained, Exists, Of
<1> QED
  BY <1>4, <1>6, <1>8, <1>9

\* A site is rendered from what is stored; only the text changes.
LEMMA RenderKeeps ==
  ASSUME IInv, NEW s \in Slugs, Exists(s), NEW p,
         text' = [text EXCEPT ![s] = Rendered(p, stored[s])],
         late' = late \ Of(s, Settings), UNCHANGED <<stored, wanted, lost>>,
         History(s, text[s]) \/ UNCHANGED olds
  PROVE  IInv'
<1> USE DEF IInv
<1>1. text' = [x \in Slugs |-> IF x = s THEN Rendered(p, stored[s]) ELSE text[x]] /\ stored[s] \in Values
  BY DEF Typed
<1>2. Typed'
  BY <1>1, RenderedTexts, HistoryTyped DEF Typed
<1>3. NothingAskedOfNone'
  BY <1>1, RenderedTexts DEF NothingAskedOfNone, Exists
<1>4. AppliedIsExplained'
  BY <1>1, RenderedTexts DEF AppliedIsExplained, Exists, Of
<1> QED
  BY <1>2, <1>3, <1>4 DEF StoredIsExplained

LEMMA UpdateRateLimitKeeps ==
  ASSUME IInv, NEW s \in Slugs, NEW on \in BOOLEAN, UpdateRateLimit(s, on)
  PROVE  IInv'
<1> USE DEF IInv
<1> DEFINE row == [stored[s] EXCEPT !["limit"] = on]
           p == Reading(s)
<1>0. Says(p) /\ Given(p) = {"log"} /\ p.log = FALSE /\ Exists(s) /\ Settings = {"limit", "log"}
  BY PayloadsSay DEF UpdateRateLimit, Found, Settings, Reading, Parsed
<1>1. row \in Values /\ row["limit"] = on /\ row["log"] = stored[s]["log"] /\ stored[s] \in Values
  BY <1>0 DEF Typed, Values
<1>2. /\ wanted' \in [Slugs -> Values] /\ \A x \in Slugs \ {s} : wanted'[x] = wanted[x]
      /\ wanted'[s]["limit"] = on /\ wanted'[s]["log"] = wanted[s]["log"]
  BY <1>0 DEF UpdateRateLimit, Typed, Values
<1> HIDE DEF row, p
<1>3. CASE /\ stored' = [stored EXCEPT ![s] = row] /\ lost' = lost \ Of(s, {"limit"})
           /\ \/ text' = text /\ late' = late \cup Of(s, {"limit"})
              \/ text' = [text EXCEPT ![s] = Rendered(p, row)] /\ late' = late \ Of(s, Settings)
           /\ UNCHANGED olds
  <2>1. stored' = [x \in Slugs |-> IF x = s THEN row ELSE stored[x]]
    BY <1>3 DEF Typed
  <2>2. StoredIsExplained'
    BY <1>0, <1>1, <1>2, <1>3, <2>1 DEF StoredIsExplained, Of
  <2>3. CASE text' = text /\ late' = late \cup Of(s, {"limit"})
    <3>1. Typed'
      BY <1>1, <1>2, <1>3, <2>1, <2>3 DEF Typed
    <3>2. NothingAskedOfNone'
      BY <1>0, <1>2, <2>3 DEF NothingAskedOfNone, Exists
    <3>3. AppliedIsExplained'
      BY <1>0, <1>1, <2>1, <2>3 DEF AppliedIsExplained, Exists, Of
    <3> QED
      BY <2>2, <3>1, <3>2, <3>3
  <2>4. CASE text' = [text EXCEPT ![s] = Rendered(p, row)] /\ late' = late \ Of(s, Settings)
    <3>0. text' = [x \in Slugs |-> IF x = s THEN Rendered(p, row) ELSE text[x]]
      BY <2>4 DEF Typed
    <3>1. Typed'
      BY <1>1, <1>2, <1>3, <2>1, <3>0, RenderedTexts DEF Typed
    <3>2. NothingAskedOfNone'
      BY <1>1, <1>2, <3>0, RenderedTexts DEF NothingAskedOfNone, Exists
    <3>3. AppliedIsExplained'
      <4>1. text'[s].uses = row /\ stored'[s] = row
        BY <1>1, <2>1, <3>0, RenderedTexts
      <4> QED
        BY <2>1, <2>4, <3>0, <4>1 DEF AppliedIsExplained, Exists, Of
    <3> QED
      BY <2>2, <3>1, <3>2, <3>3
  <2> QED
    BY <1>3, <2>3, <2>4
<1>4. CASE /\ text' = [text EXCEPT ![s] = Rendered(p, row)]
           /\ stored' = [stored EXCEPT ![s] = Saved(p, row)]
           /\ late' = (late \ Of(s, Settings)) \cup Of(s, {k \in {"log"} : row[k]})
           /\ lost' = (lost \ Of(s, {"limit"})) \cup Of(s, {"log"})
           /\ History(s, text[s])
  <2>1. stored' = [x \in Slugs |-> IF x = s THEN Saved(p, row) ELSE stored[x]]
    BY <1>4 DEF Typed
  <2>2. text' = [x \in Slugs |-> IF x = s THEN Rendered(p, row) ELSE text[x]]
    BY <1>4 DEF Typed
  <2>3. Saved(p, row) \in Values /\ Saved(p, row)["limit"] = on
    BY <1>0, <1>1, SavedValues
  <2>4. Saved(p, row)["log"] = FALSE
    BY <1>0 DEF Saved
  <2>5. Typed'
    BY <1>1, <1>2, <1>4, <2>1, <2>2, <2>3, RenderedTexts, HistoryTyped DEF Typed
  <2>6. NothingAskedOfNone'
    BY <1>1, <1>2, <2>2, RenderedTexts DEF NothingAskedOfNone, Exists
  <2>7. StoredIsExplained'
    BY <1>0, <1>2, <1>4, <2>1, <2>3 DEF StoredIsExplained, Of
  <2>8. AppliedIsExplained'
    <3>1. \A k \in Settings : row[k] # Saved(p, row)[k] => <<s, k>> \in late'
      BY <1>0, <1>1, <1>4, <2>3, <2>4 DEF Of, Values
    <3>2. text'[s].uses = row
      BY <1>1, <2>2, RenderedTexts
    <3> QED
      BY <1>4, <2>1, <2>2, <3>1, <3>2 DEF AppliedIsExplained, Exists, Of
  <2> QED
    BY <2>5, <2>6, <2>7, <2>8
<1> QED
  BY <1>3, <1>4 DEF UpdateRateLimit, row, p

LEMMA RevertKeeps ==
  ASSUME IInv, NEW s \in Slugs, RevertToNone(s) \/ \E old \in olds[s] : RevertToText(s, old)
  PROVE  IInv'
<1>1. CASE RevertToNone(s)
  BY <1>1, RemoveKeeps DEF RevertToNone, Recorded
<1>2. ASSUME NEW old \in olds[s], RevertToText(s, old) PROVE IInv'
  <2>1. CASE Restored(s, TRUE) /\ UNCHANGED late
    BY <1>2, <2>1, AloneKeeps DEF RevertToText, Restored
  <2>2. CASE /\ text' = [text EXCEPT ![s] = old] /\ late' = late \cup Of(s, Settings) /\ Recorded(s)
    <3> USE DEF IInv
    <3>1. text' = [x \in Slugs |-> IF x = s THEN old ELSE text[x]] /\ UNCHANGED <<stored, wanted, lost>>
      BY <1>2, <2>2 DEF RevertToText, Typed
    <3>2. IsText(old) /\ old # NoText
      BY <1>2 DEF Typed, RevertToText
    <3>3. Typed'
      BY <2>2, <3>1, <3>2, HistoryTyped DEF Typed, Recorded
    <3>4. Exists(s)'
      BY <3>1, <3>2 DEF Exists, IsText
    <3> QED
      BY <2>2, <3>1, <3>3, <3>4 DEF StoredIsExplained, AppliedIsExplained, NothingAskedOfNone, Exists, Of
  <2> QED
    BY <1>2, <2>1, <2>2 DEF RevertToText
<1> QED
  BY <1>1, <1>2

LEMMA CreatesKeep ==
  ASSUME IInv, NEW s \in Slugs, NEW p, Says(p), Create(s, p) \/ Update(s, p)
  PROVE  IInv'
<1>1. CASE Save(s, p)
  BY <1>1, SaveKeeps
<1>2. CASE Refused(s, p)
  BY <1>2, AloneKeeps DEF Refused, Restored
<1> QED
  BY <1>1, <1>2 DEF Create, Update

LEMMA DeleteKeeps ==
  ASSUME IInv, NEW s \in Slugs, Delete(s)
  PROVE  IInv'
<1>1. CASE Remove(s) /\ stored' = [stored EXCEPT ![s] = Off] /\ lost' = lost \ Of(s, Settings) /\ History(s, text[s])
  BY <1>1, RemoveKeeps
<1>2. CASE Remove(s) /\ lost' = lost \cup Of(s, Settings) /\ UNCHANGED <<stored, olds>>
  BY <1>2, RemoveKeeps
<1>3. CASE Restored(s, FALSE) /\ UNCHANGED <<stored, wanted, late, lost>>
  BY <1>3, AloneKeeps DEF Restored
<1> QED
  BY <1>1, <1>2, <1>3 DEF Delete

LEMMA NextIInv == IInv /\ [Next]_siteVars => IInv'
<1> SUFFICES ASSUME IInv, [Next]_siteVars PROVE IInv'
  OBVIOUS
<1>1. CASE Administrator
  <2>1. ASSUME NEW s \in Slugs, NEW p \in Payloads, Create(s, p) \/ Update(s, p) PROVE IInv'
    BY <2>1, CreatesKeep, PayloadsSay
  <2>2. ASSUME NEW s \in Slugs, NEW p \in Payloads, NEW t \in Slugs, Rename(s, t, p) PROVE IInv'
    BY <2>2, RenameKeeps, PayloadsSay
  <2>3. ASSUME NEW s \in Slugs, Delete(s) PROVE IInv'
    BY <2>3, DeleteKeeps
  <2>4. ASSUME NEW s \in Slugs, NEW b \in BOOLEAN, SetEnabled(s, b) PROVE IInv'
    BY <2>4, AloneKeeps DEF SetEnabled, Restored
  <2>5. ASSUME NEW s \in Slugs, NEW b \in BOOLEAN, UpdateRateLimit(s, b) PROVE IInv'
    BY <2>5, UpdateRateLimitKeeps
  <2> QED
    BY <1>1, <2>1, <2>2, <2>3, <2>4, <2>5 DEF Administrator
<1>2. CASE Token
  BY <1>2, DeleteKeeps, CreatesKeep, PayloadsSay DEF Token
<1>3. CASE FromTemplate
  <2>1. ASSUME NEW s \in Slugs, NEW t \in Templates, NEW r \in TemplateRequests, Create(s, Built(t, r)) PROVE IInv'
    BY <2>1, CreatesKeep, PayloadsSay
  <2> QED
    BY <1>3, <2>1 DEF FromTemplate
<1>4. CASE Versions
  BY <1>4, RevertKeeps DEF Versions
<1>5. ASSUME NEW s \in Slugs, Regenerate(s) \/ RemovePool(s) PROVE IInv'
  BY <1>5, RenderKeeps DEF Regenerate, RemovePool, Found, Recorded
<1>6. CASE UNCHANGED siteVars
  BY <1>6, AloneKeeps DEF siteVars
<1> QED
  BY <1>1, <1>2, <1>3, <1>4, <1>5, <1>6 DEF Next

-----------------------------------------------------------------------------

\* The limit and the log format nginx applies, those stored and those asked for
\* agree, or lost and late say why they do not (ProxyService with the rows of
\* rate_limit_service.py and the metadata), however many requests there are.
THEOREM SettingsAlwaysExplained == Spec => []SettingsAreExplained
<1>1. IInv => SettingsAreExplained
  BY DEF IInv, StoredIsExplained, AppliedIsExplained, SettingsAreExplained
<1> QED
  BY InitIInv, NextIInv, <1>1, PTL DEF Spec

-----------------------------------------------------------------------------
(* The paths *)

\* Payloads that can be told from the text rendered from them ...
Legible(p) ==
    /\ p.routes # {}
    /\ \A r \in p.routes : r.path \in Prefixes /\ r = [path |-> r.path, to |-> r.to, ws |-> r.ws]
    /\ p.https \in BOOLEAN

\* ... which all texts are, on disk and among the versions.
TextsAreLegible ==
    /\ \A s \in Slugs : Exists(s) => Legible(Reading(s))
    /\ \A s \in Slugs : \A t \in olds[s] : t.blocks # {} => Legible(Parsed(t, TRUE))

PathsAreAsked == \A s \in Slugs : Exists(s) => Kept(Reading(s)) = asked[s]

AskedIsRead == asked = [s \in Slugs |-> asked[s]] /\ PathsAreAsked

PInv == IInv /\ TextsAreLegible /\ AskedIsRead

\* _location_to_prefix undoes route_location_and_pass.
LEMMA PrefixIsRecovered ==
  ASSUME NEW q \in Prefixes, NEW to, NEW ws
  PROVE  ToPrefix(Location([path |-> q, to |-> to, ws |-> ws]).at) = q
<1>1. CASE q = Root
  BY <1>1 DEF Location, ToPrefix
<1>2. CASE q # Root
  <2> DEFINE at == Append(q, "/")
  <2>1. q \in Seq(Segments \cup {"/"}) /\ Len(q) \in Nat /\ Len(q) > 0
    BY DEF Prefixes
  <2>2. at \in Seq(Segments \cup {"/"}) /\ Len(at) = Len(q) + 1 /\ at[Len(at)] = "/"
    BY <2>1
  <2>3. at # Root
    BY <2>1, <2>2 DEF Root
  <2>4. SubSeq(at, 1, Len(at) - 1) = q
    BY <2>1, <2>2
  <2> QED
    BY <1>2, <2>2, <2>3, <2>4 DEF Location, ToPrefix
<1> QED
  BY <1>1, <1>2

\* What is rendered is read again, and rendering what was read changes nothing.
LEMMA ParsedRendered ==
  ASSUME NEW p, Legible(p), NEW v, NEW e \in BOOLEAN
  PROVE  /\ Legible(Parsed(Rendered(p, v), e))
         /\ Parsed(Rendered(p, v), e).routes = p.routes
         /\ Parsed(Rendered(p, v), e).https = p.https
         /\ Parsed(Rendered(p, v), e).body = p.body
         /\ Parsed(Rendered(p, v), e).auth = p.auth
<1> DEFINE t == Rendered(p, v)
           b == ProxyBlock(t)
<1>1. t.blocks = {Block(p)} \cup (IF p.https THEN {Redirect} ELSE {})
  BY DEF Rendered
<1>2. Block(p).locations = {Location(r) : r \in p.routes} /\ Block(p).locations # {}
  BY DEF Block, Legible
<1>3. Redirect.locations = {} /\ Redirect.redirect = TRUE /\ Block(p).redirect = FALSE
  BY DEF Redirect, Block
<1>4. b = Block(p)
  BY <1>1, <1>2, <1>3 DEF ProxyBlock
<1>5. (\E x \in t.blocks : x.redirect) = p.https
  BY <1>1, <1>3 DEF Legible
<1>6. \A r \in p.routes : RouteOf(Location(r)) = r
  <2> TAKE r \in p.routes
  <2>1. r.path \in Prefixes /\ r = [path |-> r.path, to |-> r.to, ws |-> r.ws]
    BY DEF Legible
  <2>2. ToPrefix(Location(r).at) = r.path
    BY <2>1, PrefixIsRecovered
  <2> QED
    BY <2>1, <2>2 DEF RouteOf, Location
<1>7. {RouteOf(l) : l \in Block(p).locations} = p.routes
  BY <1>2, <1>6
<1>8. Block(p).body = p.body /\ Block(p).auth = p.auth
  BY DEF Block
<1> HIDE DEF t
<1>9. /\ Parsed(t, e).routes = p.routes /\ Parsed(t, e).https = p.https
      /\ Parsed(t, e).body = p.body /\ Parsed(t, e).auth = p.auth
  BY <1>4, <1>5, <1>7, <1>8 DEF Parsed
<1> QED
  BY <1>9 DEF Legible, t

LEMMA RequestsAreLegible ==
  /\ \A p \in Payloads : Legible(p) /\ p.enabled \in BOOLEAN
  /\ \A t \in Templates, r \in TemplateRequests :
        Legible(Built(t, r)) /\ Built(t, r).enabled \in BOOLEAN
<1>1. ASSUME NEW p \in Payloads PROVE Legible(p) /\ p.enabled \in BOOLEAN
  <2>1. p \in Payload /\ p.routes \subseteq Routes /\ p.routes # {} /\ Paths \subseteq Prefixes
    BY SettingsConstants DEF Payload
  <2>2. \A r \in Routes : r.path \in Paths /\ r = [path |-> r.path, to |-> r.to, ws |-> r.ws]
    BY DEF Routes
  <2>3. p.https \in BOOLEAN /\ p.enabled \in BOOLEAN
    BY <2>1 DEF Payload
  <2> QED
    BY <2>1, <2>2, <2>3 DEF Legible
<1>2. ASSUME NEW t \in Templates, NEW r \in TemplateRequests
      PROVE  Legible(Built(t, r)) /\ Built(t, r).enabled \in BOOLEAN
  <2>1. t.https \in BOOLEAN /\ r.enabled \in BOOLEAN
    BY SettingsConstants DEF Template, TemplateRequest
  <2>2. Root \in Prefixes
    BY DEF Root, Prefixes
  <2>3. Built(t, r).https \in BOOLEAN /\ Built(t, r).enabled \in BOOLEAN
    BY <2>1 DEF Built, Chosen
  <2>4. Built(t, r).routes = {[path |-> Root, to |-> r.to, ws |-> Chosen(r.ws, t.ws)]}
    BY DEF Built
  <2> QED
    BY <2>2, <2>3, <2>4 DEF Legible
<1> QED
  BY <1>1, <1>2

\* Whether a site is enabled is not in the text.
LEMMA EnabledIsApart ==
  ASSUME NEW t, NEW d, NEW e
  PROVE  /\ Legible(Parsed(t, d)) => Legible(Parsed(t, e))
         /\ Kept(Parsed(t, e)) = [Kept(Parsed(t, d)) EXCEPT !.enabled = e]
<1>1. /\ Parsed(t, d).routes = Parsed(t, e).routes /\ Parsed(t, d).https = Parsed(t, e).https
      /\ Parsed(t, d).body = Parsed(t, e).body /\ Parsed(t, d).auth = Parsed(t, e).auth
      /\ Parsed(t, e).enabled = e
  BY DEF Parsed
<1> HIDE DEF Parsed
<1> QED
  BY <1>1 DEF Legible, Kept

\* The text of site s is p's, or another's; the others stay as they are.
LEMMA VersionsStayLegible ==
  ASSUME PInv, NEW s \in Slugs, NEW u \in Slugs, History(u, text[s]) \/ UNCHANGED olds
  PROVE  \A x \in Slugs : \A t \in olds'[x] : t.blocks # {} => Legible(Parsed(t, TRUE))
<1> USE DEF PInv, TextsAreLegible
<1>1. text[s].blocks # {} => Legible(Parsed(text[s], TRUE))
  BY EnabledIsApart DEF Reading, Exists
<1>2. CASE History(u, text[s])
  <2>1. olds' = [x \in Slugs |-> IF x = u THEN olds[u] \cup {text[s]} ELSE olds[x]]
    BY <1>2 DEF History, IInv, Typed
  <2> QED
    BY <1>1, <2>1
<1> QED
  BY <1>2

\* The steps change a text in one of these ways.
LEMMA SameTexts ==
  ASSUME PInv, UNCHANGED <<text, linked, asked>>, IInv',
         NEW s \in Slugs, History(s, text[s]) \/ UNCHANGED olds
  PROVE  PInv'
<1>1. \A x \in Slugs : Reading(x)' = Reading(x)
  BY DEF Reading
<1>2. TextsAreLegible'
  BY <1>1, VersionsStayLegible DEF PInv, TextsAreLegible, Exists
<1> QED
  BY <1>1, <1>2 DEF PInv, AskedIsRead, PathsAreAsked, Exists

LEMMA LinkedNow ==
  ASSUME NEW s \in Slugs, NEW e \in BOOLEAN, linked' = Linked(s, e)
  PROVE  (s \in linked') = e /\ \A x \in Slugs \ {s} : (x \in linked') = (x \in linked)
  BY DEF Linked

\* One site is written, and what is asked of it is what its text says.
LEMMA WrittenPaths ==
  ASSUME PInv, IInv', NEW s \in Slugs, NEW t \in Slugs, NEW new, NEW e \in BOOLEAN,
         text' = [x \in Slugs |-> IF x = t THEN new ELSE IF x = s THEN NoText ELSE text[x]],
         Legible(Parsed(new, TRUE)), (t \in linked') = e,
         \A x \in Slugs \ {s, t} : (x \in linked') = (x \in linked),
         asked' = [asked EXCEPT ![t] = Kept(Parsed(new, e))],
         NEW u \in Slugs, History(u, text[s]) \/ UNCHANGED olds
  PROVE  PInv'
<1> USE DEF PInv
<1>1. asked' = [x \in Slugs |-> IF x = t THEN Kept(Parsed(new, e)) ELSE asked[x]]
  BY DEF AskedIsRead
<1>2. \A x \in Slugs \ {s, t} : Reading(x)' = Reading(x) /\ Exists(x)' = Exists(x)
  BY DEF Reading, Exists
<1>3. Reading(t)' = Parsed(new, e)
  BY DEF Reading
<1>4. s # t => ~Exists(s)'
  BY DEF Exists, NoText
<1>5. Legible(Parsed(new, e))
  BY EnabledIsApart
<1>6. TextsAreLegible'
  BY <1>2, <1>3, <1>4, <1>5, VersionsStayLegible DEF TextsAreLegible
<1>7. PathsAreAsked'
  BY <1>1, <1>2, <1>3, <1>4 DEF AskedIsRead, PathsAreAsked
<1> QED
  BY <1>1, <1>6, <1>7 DEF AskedIsRead

LEMMA RestoredPaths ==
  ASSUME PInv, IInv', NEW s \in Slugs, NEW e \in BOOLEAN, Restored(s, e)
  PROVE  PInv'
<1> USE DEF PInv, Restored
<1>1. asked' = [x \in Slugs |-> IF x = s THEN [asked[s] EXCEPT !.enabled = e] ELSE asked[x]]
  BY DEF AskedIsRead
<1>2. (s \in linked') = e /\ \A x \in Slugs \ {s} : (x \in linked') = (x \in linked)
  BY LinkedNow
<1>3. \A x \in Slugs \ {s} : Reading(x)' = Reading(x)
  BY <1>2 DEF Reading
<1>4. Reading(s)' = Parsed(text[s], e)
  BY <1>2 DEF Reading
<1>5. Exists(s) => Legible(Reading(s)') /\ Kept(Reading(s)') = [Kept(Reading(s)) EXCEPT !.enabled = e]
  BY <1>4, EnabledIsApart DEF Reading, TextsAreLegible
<1>6. TextsAreLegible'
  BY <1>3, <1>5 DEF TextsAreLegible, Exists
<1>7. PathsAreAsked'
  BY <1>1, <1>3, <1>5 DEF AskedIsRead, PathsAreAsked, Exists
<1> QED
  BY <1>1, <1>6, <1>7 DEF AskedIsRead

LEMMA RemovedPaths ==
  ASSUME PInv, IInv', NEW s \in Slugs, Remove(s), History(s, text[s]) \/ UNCHANGED olds
  PROVE  PInv'
<1> USE DEF PInv, Remove
<1>1. ~Exists(s)'
  BY DEF Exists, NoText, IInv, Typed
<1>2. \A x \in Slugs \ {s} : Reading(x)' = Reading(x) /\ Exists(x)' = Exists(x)
  <2>1. \A x \in Slugs \ {s} : text'[x] = text[x]
    BY DEF IInv, Typed
  <2>2. \A x \in Slugs \ {s} : (x \in linked') = (x \in linked)
    OBVIOUS
  <2> QED
    BY <2>1, <2>2 DEF Reading, Exists
<1>3. TextsAreLegible'
  BY <1>1, <1>2, VersionsStayLegible DEF TextsAreLegible
<1> QED
  BY <1>1, <1>2, <1>3 DEF AskedIsRead, PathsAreAsked

\* A regeneration renders what it has read.
LEMMA RegeneratedPaths ==
  ASSUME PInv, IInv', NEW s \in Slugs, Exists(s), NEW v,
         text' = [text EXCEPT ![s] = Rendered(Reading(s), v)], UNCHANGED <<linked, asked>>,
         History(s, text[s]) \/ UNCHANGED olds
  PROVE  PInv'
<1> USE DEF PInv
<1> DEFINE e == s \in linked
           new == Rendered(Reading(s), v)
<1>0. e \in BOOLEAN
  OBVIOUS
<1>1. Legible(Reading(s)) /\ Reading(s).enabled = e
  BY DEF TextsAreLegible, Reading, Parsed
<1>2. Legible(Parsed(new, TRUE)) /\ Kept(Parsed(new, e)) = Kept(Reading(s))
  <2>1. Parsed(new, e).enabled = e
    BY DEF Parsed
  <2> QED
    BY <1>0, <1>1, <2>1, ParsedRendered DEF Kept
<1>3. text' = [x \in Slugs |-> IF x = s THEN new ELSE IF x = s THEN NoText ELSE text[x]]
  BY DEF IInv, Typed
<1>4. asked' = [asked EXCEPT ![s] = Kept(Parsed(new, e))]
  BY <1>2 DEF AskedIsRead, PathsAreAsked
<1> HIDE DEF new, e
<1> QED
  BY <1>0, <1>2, <1>3, <1>4, WrittenPaths DEF e

LEMMA SavedPaths ==
  ASSUME PInv, IInv', NEW s \in Slugs, NEW p, Legible(p), p.enabled \in BOOLEAN,
         Save(s, p) \/ Refused(s, p)
  PROVE  PInv'
<1>1. CASE Refused(s, p)
  BY <1>1, RestoredPaths DEF Refused
<1>2. CASE Save(s, p)
  <2> DEFINE new == Rendered(p, stored[s])
  <2>1. text' = [x \in Slugs |-> IF x = s THEN new ELSE IF x = s THEN NoText ELSE text[x]]
    BY <1>2 DEF Save, PInv, IInv, Typed
  <2>2. Legible(Parsed(new, TRUE)) /\ Kept(Parsed(new, p.enabled)) = Kept(p)
    <3>1. Parsed(new, p.enabled).enabled = p.enabled
      BY DEF Parsed
    <3> QED
      BY <3>1, ParsedRendered DEF Kept
  <2>3. asked' = [asked EXCEPT ![s] = Kept(Parsed(new, p.enabled))]
    BY <1>2, <2>2 DEF Save
  <2>4. (s \in linked') = p.enabled /\ \A x \in Slugs \ {s} : (x \in linked') = (x \in linked)
    BY <1>2, LinkedNow DEF Save
  <2>5. History(s, text[s]) \/ UNCHANGED olds
    BY <1>2 DEF Save
  <2> HIDE DEF new
  <2> QED
    BY <2>1, <2>2, <2>3, <2>4, <2>5, WrittenPaths
<1> QED
  BY <1>1, <1>2

LEMMA RenamedPaths ==
  ASSUME PInv, IInv', NEW s \in Slugs, NEW t \in Slugs, NEW p, Legible(p), p.enabled \in BOOLEAN,
         Rename(s, t, p)
  PROVE  PInv'
<1> DEFINE new == Rendered(p, stored[t])
<1>0. s # t
  BY DEF Rename
<1>1. text' = [x \in Slugs |-> IF x = t THEN new ELSE IF x = s THEN NoText ELSE text[x]]
  BY <1>0 DEF Rename, PInv, IInv, Typed
<1>2. Legible(Parsed(new, TRUE)) /\ Kept(Parsed(new, p.enabled)) = Kept(p)
  <2>1. Parsed(new, p.enabled).enabled = p.enabled
    BY DEF Parsed
  <2> QED
    BY <2>1, ParsedRendered DEF Kept
<1>3. asked' = [asked EXCEPT ![t] = Kept(Parsed(new, p.enabled))]
  BY <1>2 DEF Rename
<1>4. (t \in linked') = p.enabled /\ \A x \in Slugs \ {s, t} : (x \in linked') = (x \in linked)
  BY <1>0 DEF Rename, Linked
<1>5. History(t, text[s])
  BY DEF Rename
<1> HIDE DEF new
<1> QED
  BY <1>1, <1>2, <1>3, <1>4, <1>5, WrittenPaths

LEMMA RevertedPaths ==
  ASSUME PInv, IInv', NEW s \in Slugs, RevertToNone(s) \/ \E old \in olds[s] : RevertToText(s, old)
  PROVE  PInv'
<1>1. CASE RevertToNone(s)
  BY <1>1, RemovedPaths DEF RevertToNone, Recorded
<1>2. ASSUME NEW old \in olds[s], RevertToText(s, old) PROVE PInv'
  <2>1. CASE Restored(s, TRUE)
    BY <2>1, RestoredPaths
  <2>2. CASE /\ text' = [text EXCEPT ![s] = old] /\ linked' = linked \cup {s}
             /\ asked' = [asked EXCEPT ![s] = Kept(Parsed(old, TRUE))] /\ Recorded(s)
    <3>1. text' = [x \in Slugs |-> IF x = s THEN old ELSE IF x = s THEN NoText ELSE text[x]]
      BY <2>2 DEF PInv, IInv, Typed
    <3>2. Legible(Parsed(old, TRUE))
      <4>1. old.blocks # {}
        BY <1>2 DEF RevertToText, PInv, IInv, Typed, IsText
      <4> QED
        BY <4>1 DEF PInv, TextsAreLegible
    <3>3. (s \in linked') = TRUE /\ \A x \in Slugs \ {s} : (x \in linked') = (x \in linked)
      BY <2>2
    <3> QED
      BY <2>2, <3>1, <3>2, <3>3, WrittenPaths DEF Recorded
  <2> QED
    BY <1>2, <2>1, <2>2 DEF RevertToText
<1> QED
  BY <1>1, <1>2

LEMMA InitPInv == Init => PInv
<1> SUFFICES ASSUME Init PROVE PInv
  OBVIOUS
<1>1. \A s \in Slugs : ~Exists(s)
  BY DEF Init, Exists, NoText
<1>2. asked = [s \in Slugs |-> asked[s]]
  BY DEF Init
<1> QED
  BY <1>1, <1>2, InitIInv DEF Init, PInv, TextsAreLegible, AskedIsRead, PathsAreAsked

LEMMA NextPInv == PInv /\ [Next]_siteVars => PInv'
<1> SUFFICES ASSUME PInv, [Next]_siteVars PROVE PInv'
  OBVIOUS
<1>0. IInv'
  BY NextIInv DEF PInv
<1>1. ASSUME NEW s \in Slugs, NEW p \in Payloads, Create(s, p) \/ Update(s, p) PROVE PInv'
  BY <1>0, <1>1, RequestsAreLegible, SavedPaths DEF Create, Update
<1>2. ASSUME NEW s \in Slugs, Delete(s) PROVE PInv'
  BY <1>0, <1>2, RemovedPaths, RestoredPaths DEF Delete
<1>3. CASE Administrator
  <2>1. ASSUME NEW s \in Slugs, NEW p \in Payloads, NEW t \in Slugs, Rename(s, t, p) PROVE PInv'
    BY <1>0, <2>1, RequestsAreLegible, RenamedPaths
  <2>2. ASSUME NEW s \in Slugs, NEW b \in BOOLEAN, SetEnabled(s, b) PROVE PInv'
    BY <1>0, <2>2, RestoredPaths DEF SetEnabled
  <2>3. ASSUME NEW s \in Slugs, NEW b \in BOOLEAN, UpdateRateLimit(s, b) PROVE PInv'
    BY <1>0, <2>3, SameTexts, RegeneratedPaths DEF UpdateRateLimit, Found
  <2> QED
    BY <1>1, <1>2, <1>3, <2>1, <2>2, <2>3 DEF Administrator
<1>4. CASE Token
  BY <1>1, <1>2, <1>4 DEF Token
<1>5. CASE FromTemplate
  <2>1. ASSUME NEW s \in Slugs, NEW t \in Templates, NEW r \in TemplateRequests, Create(s, Built(t, r)) PROVE PInv'
    BY <1>0, <2>1, RequestsAreLegible, SavedPaths DEF Create
  <2> QED
    BY <1>5, <2>1 DEF FromTemplate
<1>6. CASE Versions
  BY <1>0, <1>6, RevertedPaths DEF Versions
<1>7. ASSUME NEW s \in Slugs, Regenerate(s) \/ RemovePool(s) PROVE PInv'
  BY <1>0, <1>7, RegeneratedPaths DEF Regenerate, RemovePool, Found, Recorded
<1>8. CASE UNCHANGED siteVars
  <2> USE <1>8 DEF siteVars
  <2>1. \A s \in Slugs : Reading(s)' = Reading(s) /\ Exists(s)' = Exists(s)
    BY DEF Reading, Exists
  <2> QED
    BY <1>0, <2>1 DEF PInv, TextsAreLegible, AskedIsRead, PathsAreAsked
<1> QED
  BY <1>3, <1>4, <1>5, <1>6, <1>7, <1>8 DEF Next

\* What was asked of a site last is what its file says: parse_config_file gets
\* the paths, the redirect, the body size and the authentication back from what
\* render_config wrote, for any paths and payloads and through any number of
\* regenerations, failures and rollbacks.
THEOREM PathsAlwaysSurvive == Spec => []PathsSurvive
<1>1. ASSUME PInv, NEW s \in Slugs, Exists(s)
      PROVE  Readable(text[s]) <=> \A r \in asked[s].routes : r.to \notin Unbracketed
  <2>1. asked[s].routes = {RouteOf(l) : l \in ProxyBlock(text[s]).locations}
    <3>1. Kept(Reading(s)) = asked[s]
      BY <1>1 DEF PInv, AskedIsRead, PathsAreAsked
    <3> QED
      BY <3>1 DEF Kept, Reading, Parsed
  <2>2. \A l \in ProxyBlock(text[s]).locations : RouteOf(l).to = l.to
    BY DEF RouteOf
  <2> QED
    BY <2>1, <2>2 DEF Readable
<1>2. PInv => PathsSurvive
  BY <1>1 DEF PathsSurvive, PInv, AskedIsRead, PathsAreAsked
<1> QED
  BY InitPInv, NextPInv, <1>2, PTL DEF Spec

-----------------------------------------------------------------------------
(* Certificates *)

IsLineage(n, l) == l \in Lineage /\ n \in l.domains

CertTyped ==
    /\ sudo \in BOOLEAN
    /\ rows \subseteq [name : Names, domains : SUBSET Domains]
    /\ cert \in [Names -> Leaves \cup {None}] /\ key \in [Names -> Keys \cup {None}]
    /\ age \in [Leaves -> 1..3]
    /\ DOMAIN live \subseteq Domains /\ \A n \in DOMAIN live : IsLineage(n, live[n])
    /\ torn \subseteq Names

\* A name has one row, ...
OneRow == \A q, r \in rows : q.name = r.name => q = r

\* ... and both files are there, for the domains of the row, unless a deletion
\* was cut off and not repeated.
FilesMatchRow == \A r \in rows : r.name \notin torn =>
    /\ cert[r.name] \in Leaves
    /\ key[r.name] = KeyOf[cert[r.name]]
    /\ r.domains = DomainsOf[cert[r.name]]

CertInv == CertTyped /\ OneRow /\ FilesMatchRow

LEMMA InitCertInv == CertInit => CertInv
  BY CertificatesConstants DEF CertInit, CertInv, CertTyped, OneRow, FilesMatchRow

LEMMA ImportKeeps ==
  ASSUME CertInv, NEW n \in Names, NEW d \in Domains, NEW l \in Leaves, NEW k \in Keys,
         NEW done \in 0..3, ImportCertificate(n, d, l, k, done)
  PROVE  CertInv'
<1> DEFINE row == [name |-> n, domains |-> DomainsOf[l]]
<1> USE DEF ImportCertificate
<1>1. \A r \in rows : r.name # n
  BY DEF IsImported, RowOf
<1>2. KeyOf[l] = k /\ row \in [name : Names, domains : SUBSET Domains]
  BY CertificatesConstants DEF Acceptable
<1>3. rows' = rows \/ (rows' = rows \cup {row} /\ cert' = Put(cert, n, l) /\ key' = Put(key, n, k))
  OBVIOUS
<1>4. CertTyped'
  <2>1. /\ cert' \in [Names -> Leaves \cup {None}]
        /\ key' \in [Names -> Keys \cup {None}]
    BY DEF CertInv, CertTyped, Put
  <2>2. rows' \subseteq [name : Names, domains : SUBSET Domains]
    BY <1>2, <1>3 DEF CertInv, CertTyped
  <2> QED
    BY <2>1, <2>2 DEF CertInv, CertTyped
<1>5. OneRow'
  BY <1>1, <1>3 DEF CertInv, OneRow
<1>6. \A m \in Names \ {n} : cert'[m] = cert[m] /\ key'[m] = key[m]
  BY DEF CertInv, CertTyped, Put
<1>7. ASSUME NEW r \in rows', r.name \notin torn
      PROVE  /\ cert'[r.name] \in Leaves
             /\ key'[r.name] = KeyOf[cert'[r.name]]
             /\ r.domains = DomainsOf[cert'[r.name]]
  <2>1. CASE r \in rows
    BY <1>1, <1>6, <1>7, <2>1 DEF CertInv, CertTyped, FilesMatchRow
  <2>2. CASE r \notin rows
    <3>1. r = row /\ cert' = Put(cert, n, l) /\ key' = Put(key, n, k)
      BY <1>3, <1>7, <2>2
    <3>2. cert'[n] = l /\ key'[n] = k
      BY <3>1 DEF CertInv, CertTyped, Put
    <3> QED
      BY <1>2, <3>1, <3>2
  <2> QED
    BY <2>1, <2>2
<1> QED
  BY <1>4, <1>5, <1>7 DEF CertInv, FilesMatchRow

LEMMA DeleteCertificateKeeps ==
  ASSUME CertInv, NEW n \in Names, NEW done \in 0..3, DeleteCertificate(n, done)
  PROVE  CertInv'
<1> USE DEF DeleteCertificate
<1>1. CertTyped'
  BY DEF CertInv, CertTyped, Put
<1>2. rows' \subseteq rows
  OBVIOUS
<1>3. OneRow'
  BY <1>2 DEF CertInv, OneRow
<1>4. \A m \in Names \ {n} : cert'[m] = cert[m] /\ key'[m] = key[m]
  BY DEF CertInv, CertTyped, Put
<1>5. ASSUME NEW r \in rows', r.name \notin torn'
      PROVE  /\ cert'[r.name] \in Leaves
             /\ key'[r.name] = KeyOf[cert'[r.name]]
             /\ r.domains = DomainsOf[cert'[r.name]]
  <2>0. r \in rows /\ r.name \in Names
    BY <1>2, <1>5 DEF CertInv, CertTyped
  <2>1. CASE r.name # n
    BY <1>4, <1>5, <2>0, <2>1 DEF CertInv, FilesMatchRow
  <2>2. CASE r.name = n
    <3>1. done = 0
      BY <1>5, <2>0, <2>2 DEF RowOf
    <3> QED
      BY <1>5, <2>0, <3>1 DEF CertInv, FilesMatchRow
  <2> QED
    BY <2>1, <2>2
<1> QED
  BY <1>1, <1>3, <1>5 DEF CertInv, FilesMatchRow

\* certbot has no part in what the rows and the imported files say.
LEMMA LineagesKeep ==
  ASSUME CertInv, UNCHANGED <<sudo, rows, cert, key, torn>>, age' \in [Leaves -> 1..3],
         DOMAIN live' \subseteq Domains, \A n \in DOMAIN live' : IsLineage(n, live'[n])
  PROVE  CertInv'
  BY DEF CertInv, CertTyped, OneRow, FilesMatchRow, IsLineage, Lineage

LEMMA CertifiedLineages ==
  ASSUME CertInv, NEW n \in Domains, NEW ds \in SUBSET Domains, n \in ds
  PROVE  /\ DOMAIN Certified(n, ds) \subseteq Domains
         /\ \A m \in DOMAIN Certified(n, ds) : IsLineage(m, Certified(n, ds)[m])
<1>1. ASSUME NEW m \in DOMAIN Certified(n, ds)
      PROVE  IsLineage(m, Certified(n, ds)[m])
  <2>1. CASE m # n
    BY <1>1, <2>1 DEF Certified, CertInv, CertTyped
  <2>2. CASE m = n
    <3>1. Certified(n, ds)[n] = [domains |-> IF n \in DOMAIN live THEN live[n].domains ELSE ds, age |-> 1]
      BY DEF Certified
    <3>2. n \in DOMAIN live => live[n].domains \in SUBSET Domains /\ n \in live[n].domains
      BY DEF CertInv, CertTyped, IsLineage, Lineage
    <3>3. ASSUME NEW some \in SUBSET Domains, n \in some
          PROVE  IsLineage(n, [domains |-> some, age |-> 1])
      BY <3>3 DEF IsLineage, Lineage
    <3> QED
      BY <2>2, <3>1, <3>2, <3>3
  <2> QED
    BY <2>1, <2>2
<1> QED
  BY <1>1 DEF Certified, CertInv, CertTyped

LEMMA CertbotKeeps ==
  ASSUME CertInv,
         \/ \E d \in Domains : IssueCertificate(d) \/ ByHand(d)
         \/ \E n \in Names : RenewCertificate(n)
         \/ DryRunRenew
  PROVE  CertInv'
<1>0. \/ live' = live
      \/ \E n \in Domains, ds \in SUBSET Domains : n \in ds /\ live' = Certified(n, ds)
  <2>1. ASSUME NEW d \in Domains, IssueCertificate(d) PROVE <1>0
    BY <2>1 DEF IssueCertificate, Certbot
  <2>2. ASSUME NEW d \in Domains, ByHand(d) PROVE <1>0
    BY <2>2 DEF ByHand
  <2>3. ASSUME NEW n \in Names, RenewCertificate(n) PROVE <1>0
    BY <2>3 DEF RenewCertificate, Certbot, CertInv, CertTyped
  <2>4. CASE DryRunRenew
    BY <2>4 DEF DryRunRenew, Certbot
  <2> QED
    BY <2>1, <2>2, <2>3, <2>4
<1>1. DOMAIN live' \subseteq Domains /\ \A n \in DOMAIN live' : IsLineage(n, live'[n])
  BY <1>0, CertifiedLineages DEF CertInv, CertTyped
<1>2. UNCHANGED <<sudo, rows, cert, key, age, torn>>
  BY DEF IssueCertificate, ByHand, RenewCertificate, DryRunRenew, Certbot
<1> QED
  BY <1>1, <1>2, LineagesKeep DEF CertInv, CertTyped

LEMMA OlderKeeps == CertInv /\ Older => CertInv'
<1> SUFFICES ASSUME CertInv, Older PROVE CertInv'
  OBVIOUS
<1>1. age' \in [Leaves -> 1..3]
  BY DEF Older, CertInv, CertTyped
<1>2. DOMAIN live' \subseteq Domains /\ \A n \in DOMAIN live' : IsLineage(n, live'[n])
  <2>1. CASE UNCHANGED live
    BY <2>1 DEF CertInv, CertTyped
  <2>2. ASSUME NEW n \in DOMAIN live, live[n].age < 3, live' = [live EXCEPT ![n].age = @ + 1]
        PROVE  <1>2
    <3>1. DOMAIN live' = DOMAIN live
      BY <2>2
    <3>2. \A m \in DOMAIN live : live'[m] = IF m = n THEN [live[n] EXCEPT !.age = @ + 1] ELSE live[m]
      BY <2>2
    <3>3. IsLineage(n, live[n]) /\ live[n].age \in 1..3
      BY DEF CertInv, CertTyped, IsLineage, Lineage
    <3>4. IsLineage(n, [live[n] EXCEPT !.age = @ + 1])
      BY <2>2, <3>3 DEF IsLineage, Lineage
    <3> QED
      BY <3>1, <3>2, <3>4 DEF CertInv, CertTyped
  <2> QED
    BY <2>1, <2>2 DEF Older
<1> QED
  BY <1>1, <1>2, LineagesKeep DEF Older

LEMMA NextCertInv == CertInv /\ [CertNext]_certVars => CertInv'
<1> SUFFICES ASSUME CertInv, [CertNext]_certVars PROVE CertInv'
  OBVIOUS
<1>1. CASE CertificatePages
  BY <1>1, ImportKeeps, DeleteCertificateKeeps, CertbotKeeps DEF CertificatePages
<1>2. CASE CertificateTokens
  BY <1>2, ImportKeeps, DeleteCertificateKeeps, CertbotKeeps DEF CertificateTokens
<1>3. ASSUME NEW d \in Domains, ByHand(d) PROVE CertInv'
  BY <1>3, CertbotKeeps
<1>4. CASE UNCHANGED certVars
  BY <1>4, LineagesKeep DEF certVars, CertInv, CertTyped
<1> QED
  BY <1>1, <1>2, <1>3, <1>4, OlderKeeps DEF CertNext

-----------------------------------------------------------------------------
(* The three readers *)

\* A row whose files are there is on the list, and takes the place of a
\* lineage of its name.
LEMMA RowsAreListed ==
  ASSUME NEW told, NEW q \in rows, cert[q.name] # None
  PROVE  /\ [source |-> "imported", name |-> q.name, domains |-> q.domains,
             age |-> age[cert[q.name]]] \in ListCertificates(told)
         /\ \A c \in ListCertificates(told) : c.source = "letsencrypt" => c.name # q.name
<1> DEFINE mine == [source |-> "imported", name |-> q.name, domains |-> q.domains,
                    age |-> age[cert[q.name]]]
<1>1. mine \in Imported
  BY DEF Imported
<1>2. \A c \in Imported : c.source = "imported"
  BY DEF Imported
<1> QED
  BY <1>1, <1>2 DEF ListCertificates, Merged

\* So is a lineage the list is told of, unless such a row has its name.
LEMMA LineagesAreListed ==
  ASSUME NEW told, NEW n \in told, IsLineage(n, live[n]), \A q \in RowOf(n) : cert[n] = None
  PROVE  Listed(n, [source |-> "letsencrypt", name |-> n], told)
<1> DEFINE mine == [source |-> "letsencrypt", name |-> n,
                    domains |-> IF sudo THEN live[n].domains ELSE {n}, age |-> live[n].age]
<1>1. mine \in LetsEncrypt(told)
  BY DEF LetsEncrypt
<1>2. \A c \in Imported : c.name # n
  BY DEF Imported, RowOf
<1>3. mine \in ListCertificates(told)
  BY <1>1, <1>2 DEF ListCertificates, Merged
<1>4. n \in mine.domains
  BY DEF IsLineage
<1> QED
  BY <1>3, <1>4 DEF Listed

LEMMA ReadersOfImported ==
  ASSUME CertInv, NEW told, NEW d \in Domains, NEW q \in ForDomain(d), q.name \notin torn
  PROVE  LET r == [source |-> "imported", name |-> q.name] IN Usable(d, r) /\ Listed(d, r, told)
<1>1. q \in rows /\ d \in q.domains
  BY DEF ForDomain
<1>2. /\ cert[q.name] \in Leaves
      /\ key[q.name] = KeyOf[cert[q.name]]
      /\ q.domains = DomainsOf[cert[q.name]]
  BY <1>1 DEF CertInv, FilesMatchRow
<1>3. cert[q.name] # None /\ key[q.name] # None
  BY <1>2, CertificatesConstants
<1> DEFINE r == [source |-> "imported", name |-> q.name]
           mine == [source |-> "imported", name |-> q.name, domains |-> q.domains,
                    age |-> age[cert[q.name]]]
<1>4. mine \in ListCertificates(told)
  BY <1>1, <1>3, RowsAreListed
<1>5. Listed(d, r, told)
  <2>1. /\ mine.source = r.source /\ mine.name = r.name /\ d \in mine.domains
        /\ mine.age = age[cert[r.name]] /\ r.source = "imported"
    BY <1>1
  <2> HIDE DEF mine, r
  <2> QED
    BY <1>4, <2>1 DEF Listed
<1>6. Usable(d, r)
  BY <1>1, <1>2, <1>3 DEF Usable, HasFiles
<1> QED
  BY <1>5, <1>6

LEMMA ReadersOfLineages ==
  ASSUME CertInv, NEW told, NEW d \in Domains, ForDomain(d) = {}, d \in DOMAIN live, d \in told
  PROVE  Listed(d, [source |-> "letsencrypt", name |-> d], told) \/ Hidden(d)
<1>1. CASE \A q \in RowOf(d) : cert[d] = None
  BY <1>1, LineagesAreListed DEF CertInv, CertTyped
<1>2. ASSUME NEW q \in RowOf(d), cert[d] # None
      PROVE  Hidden(d)
  <2>1. q \in rows /\ d \notin q.domains
    BY <1>2 DEF RowOf, ForDomain
  <2> QED
    BY <1>2, <2>1 DEF Hidden
<1> QED
  BY <1>1, <1>2

LEMMA InvImpliesAgreement == CertInv => CertificatesAgree
<1> SUFFICES ASSUME CertInv, NEW told \in Told
             PROVE  /\ \A d \in Domains : \A r \in Resolved(d), heard \in Told, tested \in Tests :
                       CertificateExists(d, r, heard, tested) =>
                         \/ Usable(d, r) /\ Listed(d, r, told)
                         \/ r.source = "imported" /\ r.name \in torn
                         \/ Usable(d, r) /\ r.source = "letsencrypt" /\ (Hidden(d) \/ d \notin told)
                         \/ sudo /\ r.source = "letsencrypt" /\ d \notin DOMAIN live
                    /\ \A c \in ListCertificates(told) :
                         c.source = "letsencrypt" /\ IsImported(c.name) => c.name \in torn
  BY DEF CertificatesAgree
<1>1. ASSUME NEW d \in Domains, NEW r \in Resolved(d), NEW heard \in Told, NEW tested \in Tests,
             CertificateExists(d, r, heard, tested)
      PROVE  \/ Usable(d, r) /\ Listed(d, r, told)
             \/ r.source = "imported" /\ r.name \in torn
             \/ Usable(d, r) /\ r.source = "letsencrypt" /\ (Hidden(d) \/ d \notin told)
             \/ sudo /\ r.source = "letsencrypt" /\ d \notin DOMAIN live
  <2>1. CASE ForDomain(d) = {}
    <3>1. r = [source |-> "letsencrypt", name |-> d]
      BY <1>1, <2>1 DEF Resolved
    <3>2. CASE d \in DOMAIN live
      <4>1. Usable(d, r) /\ r.source = "letsencrypt"
        BY <3>1, <3>2 DEF Usable
      <4>2. CASE d \in told
        BY <2>1, <3>1, <3>2, <4>1, <4>2, ReadersOfLineages
      <4> QED
        BY <4>1, <4>2
    <3>3. CASE d \notin DOMAIN live
      BY <1>1, <3>1, <3>3 DEF CertificateExists, SslReady
    <3> QED
      BY <3>2, <3>3
  <2>2. ASSUME NEW q \in ForDomain(d), r = [source |-> "imported", name |-> q.name]
        PROVE  \/ Usable(d, r) /\ Listed(d, r, told)
               \/ r.source = "imported" /\ r.name \in torn
    BY <2>2, ReadersOfImported
  <2> QED
    BY <1>1, <2>1, <2>2 DEF Resolved
<1>2. ASSUME NEW c \in ListCertificates(told), c.source = "letsencrypt", IsImported(c.name)
      PROVE  c.name \in torn
  <2>1. PICK q \in rows : q.name = c.name
    BY <1>2 DEF IsImported, RowOf
  <2>2. q.name \notin torn => cert[q.name] # None
    BY CertificatesConstants DEF CertInv, FilesMatchRow
  <2> QED
    BY <1>2, <2>1, <2>2, RowsAreListed
<1> QED
  BY <1>1, <1>2

\* Where no deletion was cut off, an imported certificate has one row, a
\* certificate and its key, and the row names the certificate's domains, whatever
\* is imported, deleted, left half done or issued by certbot in between.
THEOREM ImportsStayWhole == CertSpec => []CertInv
  BY InitCertInv, NextCertInv, PTL DEF CertSpec

\* Whether a domain has a certificate, which files its site names and what the
\* list shows agree, for any certificates, names and domains and any order of
\* imports, deletions and certbot's runs, the exceptions of CertificatesAgree
\* apart.
THEOREM CertificatesAlwaysAgree == CertSpec => []CertificatesAgree
  BY ImportsStayWhole, InvImpliesAgreement, PTL

-----------------------------------------------------------------------------
(* Finite sets, by least counterexamples *)

Before == {p \in Nat \X Nat : p[1] < p[2]}

\* What holds of 0, and of n + 1 if it holds of n, holds of every number.
LEMMA Induction ==
  ASSUME NEW S, 0 \in S, \A n \in Nat : n \in S => n + 1 \in S
  PROVE  Nat \subseteq S
<1> DEFINE Missed == Nat \ S
<1>1. IsWellFoundedOn(Before, Nat)
  <2>1. IsWellFoundedOn(OpToRel(<, Nat), Nat)
    BY NatLessThanWellFounded
  <2>2. OpToRel(<, Nat) = Before
    BY DEF OpToRel, Before
  <2> QED
    BY <2>1, <2>2
<1>2. SUFFICES ASSUME Missed # {} PROVE FALSE
  OBVIOUS
<1>3. Missed \subseteq Nat
  OBVIOUS
<1>4. PICK n \in Missed : \A m \in Missed : ~(<<m, n>> \in Before)
  <2> HIDE DEF Missed
  <2> QED
    BY <1>1, <1>2, <1>3, WFMin
<1>5. n # 0 /\ n - 1 \in Nat /\ n - 1 < n
  OBVIOUS
<1>6. n - 1 \in S
  BY <1>4, <1>5 DEF Before
<1> QED
  BY <1>5, <1>6

\* What holds of a subset of a finite set if it holds of all that are smaller
\* holds of every subset.
LEMMA SubsetInduction ==
  ASSUME NEW S, IsFiniteSet(S), NEW F,
         \A T \in SUBSET S : (\A U \in SUBSET T : U # T => U \in F) => T \in F
  PROVE  \A T \in SUBSET S : T \in F
<1> DEFINE Missed == (SUBSET S) \ F
<1>1. IsWellFoundedOn(StrictSubsetOrdering(S), SUBSET S)
  BY FS_StrictSubsetOrderingWellFounded, FS_FiniteSubsetsOfFinite
<1>2. SUFFICES ASSUME Missed # {} PROVE FALSE
  OBVIOUS
<1>3. Missed \subseteq SUBSET S
  OBVIOUS
<1>4. PICK T \in Missed : \A U \in Missed : ~(<<U, T>> \in StrictSubsetOrdering(S))
  <2> HIDE DEF Missed
  <2> QED
    BY <1>1, <1>2, <1>3, WFMin
<1>5. ASSUME NEW U \in SUBSET T, U # T PROVE U \in F
  BY <1>4, <1>5 DEF StrictSubsetOrdering
<1> QED
  BY <1>5

\* What holds of {}, and of a set with one more element if it holds of the set,
\* holds of a finite set.
LEMMA GrowingInduction ==
  ASSUME NEW S, IsFiniteSet(S), NEW F, {} \in F,
         \A T \in SUBSET S : \A x \in S \ T : T \in F => T \cup {x} \in F
  PROVE  S \in F
<1>1. ASSUME NEW T \in SUBSET S, \A U \in SUBSET T : U # T => U \in F PROVE T \in F
  <2>1. CASE T = {}
    BY <2>1
  <2>2. ASSUME NEW x \in T PROVE T \in F
    <3>1. T \ {x} \in F /\ x \in S \ (T \ {x}) /\ T \ {x} \in SUBSET S
      BY <1>1
    <3>2. (T \ {x}) \cup {x} = T
      OBVIOUS
    <3> QED
      BY <3>1, <3>2
  <2> QED
    BY <2>1, <2>2
<1> QED
  BY <1>1, SubsetInduction

\* A finite set of numbers has a largest element.
LEMMA LargestExists ==
  ASSUME NEW S, IsFiniteSet(S), S # {}, S \subseteq Int
  PROVE  \E m \in S : \A x \in S : x <= m
<1> DEFINE Good == {T \in SUBSET S : T # {} => \E m \in T : \A x \in T : x <= m}
<1>1. {} \in Good
  OBVIOUS
<1>2. ASSUME NEW T \in SUBSET S, NEW x \in S \ T, T \in Good PROVE T \cup {x} \in Good
  <2>1. CASE T = {}
    BY <2>1
  <2>2. CASE T # {}
    <3>1. PICK m \in T : \A y \in T : y <= m
      BY <1>2, <2>2
    <3>2. CASE x <= m
      BY <3>1, <3>2
    <3>3. CASE ~(x <= m)
      <4>1. \A y \in T \cup {x} : y <= x
        BY <3>1, <3>3
      <4> QED
        BY <4>1
    <3> QED
      BY <3>2, <3>3
  <2> QED
    BY <2>1, <2>2
<1>3. S \in Good
  <2> HIDE DEF Good
  <2> QED
    BY <1>1, <1>2, GrowingInduction
<1> QED
  BY <1>3

\* A function takes finitely many values on a finite set.
LEMMA ImageIsFinite ==
  ASSUME NEW S, IsFiniteSet(S), NEW f
  PROVE  IsFiniteSet({f[x] : x \in S})
<1> DEFINE T == {f[x] : x \in S}
           h == [x \in S |-> f[x]]
<1>1. h \in Surjection(S, T)
  BY DEF Surjection
<1> HIDE DEF T, h
<1>2. IsFiniteSet(T)
  BY <1>1, FS_Surjection
<1> QED
  BY <1>2 DEF T

-----------------------------------------------------------------------------
(* Folds and sums over finite sets *)

Some(s) == CHOOSE x \in s : TRUE

\* g folds F over each subset of S, one chosen element after the other.
FoldsTo(F, base, S, V, g) ==
  /\ g \in [SUBSET S -> V]
  /\ \A s \in SUBSET S : g[s] = IF s = {} THEN base ELSE F[<<Some(s), g[s \ {Some(s)}]>>]

\* A fold over a finite set has a value for each subset.
LEMMA FoldExists ==
  ASSUME NEW S, IsFiniteSet(S), NEW V, NEW base \in V, NEW F \in [S \X V -> V]
  PROVE  \E g : FoldsTo(F, base, S, V, g)
<1> DEFINE Small(n) == {s \in SUBSET S : Cardinality(s) <= n}
           Step(g, s) == IF s = {} THEN base ELSE F[<<Some(s), g[s \ {Some(s)}]>>]
           Upto(n, g) == g \in [Small(n) -> V] /\ \A s \in Small(n) : g[s] = Step(g, s)
           Ns == {n \in Nat : \E g : Upto(n, g)}
<1>0. \A s \in SUBSET S : IsFiniteSet(s) /\ Cardinality(s) \in Nat
  BY FS_Subset, FS_CardinalityType
<1>1. 0 \in Ns
  <2>1. \A s \in Small(0) : s = {}
    BY <1>0, FS_EmptySet
  <2>2. Upto(0, [s \in Small(0) |-> base])
    BY <2>1
  <2> QED
    BY <2>2
<1>2. ASSUME NEW n \in Nat, n \in Ns PROVE n + 1 \in Ns
  <2>1. PICK g : Upto(n, g)
    BY <1>2
  <2> DEFINE h == [s \in Small(n + 1) |-> IF s \in Small(n) THEN g[s] ELSE Step(g, s)]
  <2>2. ASSUME NEW s \in Small(n + 1), s # {}
        PROVE  Some(s) \in S /\ s \ {Some(s)} \in Small(n)
    <3>1. Some(s) \in s
      BY <2>2 DEF Some
    <3>2. Cardinality(s \ {Some(s)}) = Cardinality(s) - 1
      BY <1>0, <3>1, FS_RemoveElement
    <3> QED
      BY <1>0, <3>1, <3>2
  <2>3. Small(n) \subseteq Small(n + 1)
    BY <1>0
  <2> HIDE DEF Small
  <2>4. \A s \in Small(n + 1) : Step(g, s) \in V
    BY <2>1, <2>2
  <2>5. h \in [Small(n + 1) -> V]
    BY <2>1, <2>4
  <2>6. ASSUME NEW s \in Small(n + 1) PROVE h[s] = Step(h, s)
    <3>1. h[s] = Step(g, s)
      BY <2>1
    <3>2. s # {} => h[s \ {Some(s)}] = g[s \ {Some(s)}]
      BY <2>2, <2>3
    <3> QED
      BY <3>1, <3>2
  <2>7. \E k : Upto(n + 1, k)
    <3>1. Upto(n + 1, h)
      BY <2>5, <2>6
    <3> HIDE DEF h, Upto
    <3> QED
      BY <3>1
  <2>8. n + 1 \in Nat
    OBVIOUS
  <2> QED
    <3> HIDE DEF Upto
    <3> QED
      BY <2>7, <2>8
<1>3. Nat \subseteq Ns
  <2> HIDE DEF Ns
  <2> QED
    BY <1>1, <1>2, Induction
<1>4. Cardinality(S) \in Nat /\ Small(Cardinality(S)) = SUBSET S
  BY <1>0, FS_Subset, FS_CardinalityType
<1>5. PICK g : Upto(Cardinality(S), g)
  BY <1>3, <1>4
<1>6. g \in [SUBSET S -> V] /\ \A s \in SUBSET S : g[s] = Step(g, s)
  BY <1>4, <1>5
<1> QED
  BY <1>6 DEF FoldsTo

\* g is the sum of f over each subset of S.
Adds(f, S, g) == g = [s \in SUBSET S |-> IF s = {} THEN 0 ELSE f[Some(s)] + g[s \ {Some(s)}]]

\* A sum over a finite set has a value for each subset.
LEMMA AddsExists ==
  ASSUME NEW S, IsFiniteSet(S), NEW f \in [S -> Int]
  PROVE  \E g : Adds(f, S, g)
<1> DEFINE F == [p \in S \X Int |-> f[p[1]] + p[2]]
<1>1. F \in [S \X Int -> Int]
  OBVIOUS
<1>2. PICK g : FoldsTo(F, 0, S, Int, g)
  <2>1. 0 \in Int
    OBVIOUS
  <2> HIDE DEF F
  <2> QED
    BY <1>1, <2>1, FoldExists
<1>3. \A s \in SUBSET S : s # {} => Some(s) \in S /\ g[s \ {Some(s)}] \in Int
  BY <1>2 DEF Some, FoldsTo
<1>4. \A s \in SUBSET S : s # {} => F[<<Some(s), g[s \ {Some(s)}]>>] = f[Some(s)] + g[s \ {Some(s)}]
  BY <1>3
<1>5. Adds(f, S, g)
  <2>1. \A s \in SUBSET S : g[s] = IF s = {} THEN 0 ELSE f[Some(s)] + g[s \ {Some(s)}]
    <3> HIDE DEF F
    <3> QED
      BY <1>2, <1>4 DEF FoldsTo
  <2> QED
    BY <1>2, <2>1 DEF Adds, FoldsTo
<1> QED
  BY <1>5

\* SumFunction's recursion is such a sum.
LEMMA SumAdds ==
  ASSUME NEW S, IsFiniteSet(S), NEW f \in [S -> Int]
  PROVE  \E g : Adds(f, S, g) /\ SumFunctionOnSet(f, S) = g[S]
<1> DEFINE g == CHOOSE g : Adds(f, S, g)
<1>1. Adds(f, S, g)
  BY AddsExists
<1>2. SumFunctionOnSet(f, S) = g[S]
  BY DEF SumFunctionOnSet, FoldFunctionOnSet, MapThenFoldSet, Adds, Some
<1> QED
  BY <1>1, <1>2

\* A sum of integers is an integer, that of nothing is 0, and any element can
\* be taken out of it first.
LEMMA AddsTakes ==
  ASSUME NEW S, IsFiniteSet(S), NEW f \in [S -> Int], NEW g, Adds(f, S, g)
  PROVE  \A T \in SUBSET S :
           /\ g[T] \in Int
           /\ T = {} => g[T] = 0
           /\ \A x \in T : g[T] = f[x] + g[T \ {x}]
<1> DEFINE Good == {T \in SUBSET S : g[T] \in Int /\ \A x \in T : g[T] = f[x] + g[T \ {x}]}
<1>0. \A T \in SUBSET S : g[T] = IF T = {} THEN 0 ELSE f[Some(T)] + g[T \ {Some(T)}]
  BY DEF Adds
<1>1. ASSUME NEW T \in SUBSET S, \A U \in SUBSET T : U # T => U \in Good
      PROVE  T \in Good
  <2>1. CASE T = {}
    <3>1. g[T] = 0
      BY <1>0, <2>1
    <3> QED
      BY <2>1, <3>1
  <2>2. CASE T # {}
    <3> DEFINE c == Some(T)
    <3>1. c \in T /\ c \in S
      BY <2>2 DEF Some
    <3> HIDE DEF c
    <3>2. g[T] = f[c] + g[T \ {c}]
      BY <1>0, <2>2 DEF c
    <3>3. T \ {c} \in Good
      BY <1>1, <3>1
    <3>4. g[T] \in Int
      BY <3>1, <3>2, <3>3
    <3>5. ASSUME NEW x \in T, x # c PROVE g[T] = f[x] + g[T \ {x}]
      <4>1. T \ {x} \in Good
        BY <1>1
      <4>2. (T \ {c}) \ {x} \in Good
        BY <1>1
      <4>3. (T \ {c}) \ {x} = (T \ {x}) \ {c}
        OBVIOUS
      <4>4. g[T \ {c}] = f[x] + g[(T \ {c}) \ {x}]
        BY <3>3, <3>5
      <4>5. g[T \ {x}] = f[c] + g[(T \ {x}) \ {c}]
        BY <3>1, <3>5, <4>1
      <4>6. f[x] \in Int /\ f[c] \in Int /\ g[(T \ {c}) \ {x}] \in Int
        BY <3>1, <4>2
      <4> DEFINE rest == g[(T \ {c}) \ {x}]
      <4>7. g[T] = f[c] + (f[x] + rest) /\ g[T \ {x}] = f[c] + rest
        BY <3>2, <4>3, <4>4, <4>5
      <4> HIDE DEF rest
      <4> QED
        BY <4>6, <4>7 DEF rest
    <3> QED
      BY <3>2, <3>4, <3>5
  <2> QED
    BY <2>1, <2>2
<1>2. \A T \in SUBSET S : T \in Good
  <2> HIDE DEF Good
  <2> QED BY <1>1, SubsetInduction
<1> QED
  BY <1>0, <1>2

\* Functions that agree on a set have the same sum over it.
LEMMA AddsAgree ==
  ASSUME NEW S, IsFiniteSet(S), NEW R \in SUBSET S,
         NEW f, NEW e, \A x \in R : f[x] = e[x],
         NEW g, Adds(f, S, g), NEW h, Adds(e, R, h)
  PROVE  g[R] = h[R]
<1> DEFINE Good == {T \in SUBSET R : g[T] = h[T]}
<1>0. IsFiniteSet(R)
  BY FS_Subset
<1>1. ASSUME NEW T \in SUBSET R, \A U \in SUBSET T : U # T => U \in Good
      PROVE  T \in Good
  <2>1. /\ g[T] = IF T = {} THEN 0 ELSE f[Some(T)] + g[T \ {Some(T)}]
        /\ h[T] = IF T = {} THEN 0 ELSE e[Some(T)] + h[T \ {Some(T)}]
    BY DEF Adds
  <2>2. T # {} => Some(T) \in T
    BY DEF Some
  <2>3. T # {} => T \ {Some(T)} \in Good
    BY <1>1, <2>2
  <2> QED
    BY <2>1, <2>2, <2>3
<1>2. \A T \in SUBSET R : T \in Good
  <2> HIDE DEF Good
  <2> QED BY <1>0, <1>1, SubsetInduction
<1> QED
  BY <1>2

\* Sum over a set of values of f.
SumOver(f, S) == SumFunction([x \in S |-> f[x]])

\* A sum of integers is an integer.
LEMMA SumType ==
  ASSUME NEW S, IsFiniteSet(S), NEW f, \A x \in S : f[x] \in Int
  PROVE  SumOver(f, S) \in Int
<1> DEFINE F == [x \in S |-> f[x]]
<1>1. PICK g : Adds(F, S, g) /\ SumFunctionOnSet(F, S) = g[S]
  BY SumAdds
<1>2. F \in [S -> Int]
  OBVIOUS
<1>3. g[S] \in Int
  <2>1. S \in SUBSET S
    OBVIOUS
  <2> HIDE DEF F
  <2> QED BY <1>1, <1>2, <2>1, AddsTakes
<1> QED
  BY <1>1, <1>3 DEF SumOver, SumFunction

\* The sum of nothing is 0.
LEMMA SumOfNone ==
  ASSUME NEW f
  PROVE  SumOver(f, {}) = 0
<1> DEFINE F == [x \in {} |-> f[x]]
<1>0. IsFiniteSet({})
  BY FS_EmptySet
<1>1. PICK g : Adds(F, {}, g) /\ SumFunctionOnSet(F, {}) = g[{}]
  BY <1>0, SumAdds
<1> QED
  BY <1>1 DEF SumOver, SumFunction, Adds

\* Any element can be taken out of a sum.
LEMMA SumTakes ==
  ASSUME NEW S, IsFiniteSet(S), NEW e \in S, NEW f, \A y \in S : f[y] \in Int
  PROVE  SumOver(f, S) = f[e] + SumOver(f, S \ {e})
<1> DEFINE R == S \ {e}
           F == [y \in S |-> f[y]]
           E == [y \in R |-> f[y]]
<1>0. IsFiniteSet(R)
  BY FS_Subset
<1>1. PICK g : Adds(F, S, g) /\ SumFunctionOnSet(F, S) = g[S]
  BY SumAdds
<1>2. PICK h : Adds(E, R, h) /\ SumFunctionOnSet(E, R) = h[R]
  BY <1>0, SumAdds
<1>3. F \in [S -> Int] /\ \A y \in R : F[y] = E[y]
  OBVIOUS
<1>4. F[e] = f[e] /\ R \in SUBSET S /\ S \in SUBSET S
  OBVIOUS
<1> HIDE DEF F, R, E
<1>5. ASSUME NEW T \in SUBSET S, NEW y \in T PROVE g[T] = F[y] + g[T \ {y}]
  BY <1>1, <1>3, AddsTakes
<1>6. g[S] = F[e] + g[R]
  BY <1>4, <1>5 DEF R
<1>7. g[R] = h[R]
  BY <1>1, <1>2, <1>3, <1>4, AddsAgree
<1>8. SumOver(f, S) = g[S] /\ SumOver(f, S \ {e}) = h[R]
  BY <1>1, <1>2 DEF SumOver, SumFunction, F, R, E
<1> QED
  BY <1>4, <1>6, <1>7, <1>8

\* A sum over one more element.
LEMMA SumGrows ==
  ASSUME NEW S, IsFiniteSet(S), NEW x, x \notin S, NEW f, \A y \in S \cup {x} : f[y] \in Int
  PROVE  SumOver(f, S \cup {x}) = SumOver(f, S) + f[x]
<1>1. IsFiniteSet(S \cup {x}) /\ (S \cup {x}) \ {x} = S
  BY FS_AddElement
<1>2. SumOver(f, S) \in Int
  BY SumType
<1> QED
  BY <1>1, <1>2, SumTakes

\* The sum of f + h is the sum of f plus that of h.
LEMMA SumPlus ==
  ASSUME NEW S, IsFiniteSet(S), NEW f, NEW h, NEW e,
         \A x \in S : f[x] \in Int /\ h[x] \in Int /\ e[x] = f[x] + h[x]
  PROVE  SumOver(e, S) = SumOver(f, S) + SumOver(h, S)
<1> DEFINE Good == {T \in SUBSET S : SumOver(e, T) = SumOver(f, T) + SumOver(h, T)}
<1>1. {} \in Good
  BY SumOfNone
<1>2. ASSUME NEW T \in SUBSET S, NEW x \in S \ T, T \in Good PROVE T \cup {x} \in Good
  <2>1. IsFiniteSet(T)
    BY FS_Subset
  <2>2. SumOver(f, T) \in Int /\ SumOver(h, T) \in Int
    BY <2>1, SumType
  <2>3. SumOver(f, T \cup {x}) = SumOver(f, T) + f[x]
    BY <2>1, SumGrows
  <2>4. SumOver(h, T \cup {x}) = SumOver(h, T) + h[x]
    BY <2>1, SumGrows
  <2>5. \A y \in T \cup {x} : e[y] \in Int
    OBVIOUS
  <2>6. SumOver(e, T \cup {x}) = SumOver(e, T) + e[x]
    BY <2>1, <2>5, SumGrows
  <2>7. SumOver(e, T) = SumOver(f, T) + SumOver(h, T) /\ f[x] \in Int /\ h[x] \in Int /\ e[x] = f[x] + h[x]
    BY <1>2
  <2> QED
    BY <2>2, <2>3, <2>4, <2>6, <2>7
<1>3. S \in Good
  <2> HIDE DEF Good
  <2> QED
    BY <1>1, <1>2, GrowingInduction
<1> QED
  BY <1>3

\* Terms that are 0 can be left out of a sum.
LEMMA SumRestrict ==
  ASSUME NEW S, IsFiniteSet(S), NEW A \in SUBSET S, NEW f, NEW e,
         \A x \in A : f[x] \in Int,
         \A x \in S : e[x] = IF x \in A THEN f[x] ELSE 0
  PROVE  SumOver(e, S) = SumOver(f, A)
<1> DEFINE Good == {T \in SUBSET S : SumOver(e, T) = SumOver(f, A \cap T)}
<1>1. {} \in Good
  <2>1. A \cap {} = {}
    OBVIOUS
  <2> QED
    BY <2>1, SumOfNone
<1>2. ASSUME NEW T \in SUBSET S, NEW x \in S \ T, T \in Good PROVE T \cup {x} \in Good
  <2>1. IsFiniteSet(T) /\ IsFiniteSet(A \cap T)
    BY FS_Subset
  <2>2. SumOver(f, A \cap T) \in Int
    BY <2>1, SumType
  <2>3. \A y \in T \cup {x} : e[y] \in Int
    OBVIOUS
  <2>4. SumOver(e, T \cup {x}) = SumOver(e, T) + e[x]
    BY <2>1, <2>3, SumGrows
  <2>5. CASE x \in A
    <3>1. A \cap (T \cup {x}) = (A \cap T) \cup {x}
      BY <2>5
    <3>2. SumOver(f, (A \cap T) \cup {x}) = SumOver(f, A \cap T) + f[x]
      <4>1. x \notin A \cap T /\ \A y \in (A \cap T) \cup {x} : f[y] \in Int
        BY <2>5
      <4> QED
        BY <2>1, <4>1, SumGrows
    <3> QED
      BY <1>2, <2>4, <2>5, <3>1, <3>2
  <2>6. CASE x \notin A
    <3>1. A \cap (T \cup {x}) = A \cap T /\ e[x] = 0
      BY <2>6
    <3> QED
      <4>1. SumOver(e, T) = SumOver(f, A \cap T)
        BY <1>2
      <4>2. SumOver(e, T \cup {x}) = SumOver(f, A \cap T) + 0
        BY <2>4, <3>1, <4>1
      <4> QED
        <5>1. SumOver(e, T \cup {x}) = SumOver(f, A \cap T)
          BY <2>2, <4>2
        <5>2. SumOver(e, T \cup {x}) = SumOver(f, A \cap (T \cup {x}))
          BY <3>1, <5>1
        <5> QED
          BY <5>2
  <2> QED
    BY <2>5, <2>6
<1>3. S \in Good
  <2> HIDE DEF Good
  <2> QED
    BY <1>1, <1>2, GrowingInduction
<1>4. A \cap S = A
  OBVIOUS
<1> QED
  BY <1>3, <1>4

\* A sum of ones is the number of its terms.
LEMMA SumOnes ==
  ASSUME NEW S, IsFiniteSet(S), NEW f, \A x \in S : f[x] = 1
  PROVE  SumOver(f, S) = Cardinality(S)
<1> DEFINE Good == {T \in SUBSET S : SumOver(f, T) = Cardinality(T)}
<1>1. {} \in Good
  BY SumOfNone, FS_EmptySet
<1>2. ASSUME NEW T \in SUBSET S, NEW x \in S \ T, T \in Good PROVE T \cup {x} \in Good
  <2>1. IsFiniteSet(T)
    BY FS_Subset
  <2>2. \A y \in T \cup {x} : f[y] \in Int
    OBVIOUS
  <2>3. SumOver(f, T \cup {x}) = SumOver(f, T) + f[x]
    BY <2>1, <2>2, SumGrows
  <2>4. Cardinality(T \cup {x}) = Cardinality(T) + 1
    BY <2>1, FS_AddElement
  <2> QED
    BY <1>2, <2>3, <2>4
<1>3. S \in Good
  <2> HIDE DEF Good
  <2> QED
    BY <1>1, <1>2, GrowingInduction
<1> QED
  BY <1>3

\* How many of S are in A.
LEMMA SumCounts ==
  ASSUME NEW S, IsFiniteSet(S), NEW A \in SUBSET S, NEW e,
         \A x \in S : e[x] = IF x \in A THEN 1 ELSE 0
  PROVE  SumOver(e, S) = Cardinality(A)
<1> DEFINE f == [x \in A |-> 1]
<1>1. IsFiniteSet(A) /\ (\A x \in A : f[x] = 1) /\ (\A x \in A : f[x] \in Int)
  BY FS_Subset
<1>2. SumOver(f, A) = Cardinality(A)
  <2> HIDE DEF f
  <2> QED
    BY <1>1, SumOnes
<1>3. \A x \in S : e[x] = IF x \in A THEN f[x] ELSE 0
  OBVIOUS
<1>4. SumOver(e, S) = SumOver(f, A)
  <2> HIDE DEF f
  <2> QED
    BY <1>1, <1>3, SumRestrict
<1> QED
  BY <1>2, <1>4

\* Only the values on S matter to a sum over S.
LEMMA SumSame ==
  ASSUME NEW S, NEW f, NEW e, \A x \in S : f[x] = e[x]
  PROVE  SumOver(f, S) = SumOver(e, S)
<1>1. [x \in S |-> f[x]] = [x \in S |-> e[x]]
  OBVIOUS
<1> QED
  BY <1>1 DEF SumOver

\* The sum up to n + 1 is that up to n, and the last term.
LEMMA SumUpto ==
  ASSUME NEW n \in Nat, NEW f, \A i \in 1..(n + 1) : f[i] \in Int
  PROVE  SumOver(f, 1..(n + 1)) = SumOver(f, 1..n) + f[n + 1]
<1>1. 1..(n + 1) = (1..n) \cup {n + 1} /\ n + 1 \notin 1..n
  OBVIOUS
<1>2. IsFiniteSet(1..n)
  BY FS_Interval
<1> DEFINE S == 1..n  x == n + 1
<1>3. IsFiniteSet(S) /\ x \notin S /\ 1..(n + 1) = S \cup {x} /\ \A y \in S \cup {x} : f[y] \in Int
  BY <1>1, <1>2
<1> HIDE DEF S, x
<1>4. SumOver(f, S \cup {x}) = SumOver(f, S) + f[x]
  BY <1>3, SumGrows
<1>5. SumOver(f, 1..(n + 1)) = SumOver(f, S) + f[x]
  BY <1>3, <1>4
<1> QED
  BY <1>5 DEF S, x

\* The sum over two runs of numbers, one after the other.
LEMMA SumConcat ==
  ASSUME NEW m \in Nat, NEW n \in Nat, NEW f, NEW h, NEW e,
         \A i \in 1..m : f[i] \in Int /\ e[i] = f[i],
         \A j \in 1..n : h[j] \in Int /\ e[m + j] = h[j]
  PROVE  SumOver(e, 1..(m + n)) = SumOver(f, 1..m) + SumOver(h, 1..n)
<1> DEFINE Ns == {k \in Nat : k <= n => SumOver(e, 1..(m + k)) = SumOver(f, 1..m) + SumOver(h, 1..k)}
<1>0. SumOver(f, 1..m) \in Int
  <2>1. IsFiniteSet(1..m)
    BY FS_Interval
  <2> QED
    BY <2>1, SumType
<1>1. 0 \in Ns
  <2>1. 1..(m + 0) = 1..m /\ 1..0 = {}
    OBVIOUS
  <2>2. SumOver(e, 1..m) = SumOver(f, 1..m)
    BY SumSame
  <2>3. SumOver(h, {}) = 0
    BY SumOfNone
  <2> QED
    BY <1>0, <2>1, <2>2, <2>3
<1>2. ASSUME NEW k \in Nat, k \in Ns PROVE k + 1 \in Ns
  <2>0. SUFFICES ASSUME k + 1 <= n
                 PROVE  SumOver(e, 1..(m + (k + 1))) = SumOver(f, 1..m) + SumOver(h, 1..(k + 1))
    OBVIOUS
  <2>1. SumOver(e, 1..(m + k)) = SumOver(f, 1..m) + SumOver(h, 1..k)
    BY <1>2, <2>0
  <2>2. \A i \in 1..((m + k) + 1) : e[i] \in Int
    <3>1. ASSUME NEW i \in 1..((m + k) + 1), i > m PROVE e[i] \in Int
      <4>1. i - m \in 1..n /\ m + (i - m) = i
        BY <2>0, <3>1
      <4> QED
        BY <4>1
    <3>2. ASSUME NEW i \in 1..((m + k) + 1), ~(i > m) PROVE e[i] \in Int
      BY <3>2
    <3> QED
      BY <3>1, <3>2
  <2>3. SumOver(e, 1..((m + k) + 1)) = SumOver(e, 1..(m + k)) + e[(m + k) + 1]
    BY <2>2, SumUpto
  <2>4. \A j \in 1..(k + 1) : h[j] \in Int
    BY <2>0
  <2>5. SumOver(h, 1..(k + 1)) = SumOver(h, 1..k) + h[k + 1]
    BY <2>4, SumUpto
  <2>6. SumOver(h, 1..k) \in Int
    <3>1. IsFiniteSet(1..k) /\ \A j \in 1..k : h[j] \in Int
      BY <2>4, FS_Interval
    <3> QED
      BY <3>1, SumType
  <2>7. e[(m + k) + 1] = h[k + 1] /\ h[k + 1] \in Int /\ (m + k) + 1 = m + (k + 1)
    <3>1. k + 1 \in 1..n /\ (m + k) + 1 = m + (k + 1)
      BY <2>0
    <3> QED
      BY <3>1
  <2> QED
    BY <1>0, <2>1, <2>3, <2>5, <2>6, <2>7
<1>3. n \in Ns
  <2>1. Nat \subseteq Ns
    <3> HIDE DEF Ns
    <3> QED
      BY <1>1, <1>2, Induction
  <2> QED
    BY <2>1
<1> QED
  BY <1>3

\* g runs F over 1, 2, .. n.
RunsTo(F, base, n, V, g) ==
  /\ g \in [0..n -> V]
  /\ g[0] = base
  /\ \A i \in 1..n : g[i] = F[<<i, g[i - 1]>>]

\* A recursion over 1..n has a value.
LEMMA RunExists ==
  ASSUME NEW n \in Nat, NEW V, NEW base \in V, NEW F \in [(1..n) \X V -> V]
  PROVE  \E g : RunsTo(F, base, n, V, g)
<1> DEFINE Ns == {k \in Nat : k <= n => \E g : RunsTo(F, base, k, V, g)}
<1>1. 0 \in Ns
  <2>1. RunsTo(F, base, 0, V, [i \in 0..0 |-> base])
    BY DEF RunsTo
  <2> QED
    BY <2>1
<1>2. ASSUME NEW k \in Nat, k \in Ns PROVE k + 1 \in Ns
  <2>0. SUFFICES ASSUME k + 1 <= n PROVE \E g : RunsTo(F, base, k + 1, V, g)
    OBVIOUS
  <2>1. PICK g : RunsTo(F, base, k, V, g)
    BY <1>2, <2>0
  <2> DEFINE h == [i \in 0..(k + 1) |-> IF i = k + 1 THEN F[<<k + 1, g[k]>>] ELSE g[i]]
  <2>2. g[k] \in V /\ k + 1 \in 1..n
    BY <2>0, <2>1 DEF RunsTo
  <2>3. F[<<k + 1, g[k]>>] \in V
    BY <2>2
  <2>4. h \in [0..(k + 1) -> V]
    BY <2>1, <2>3 DEF RunsTo
  <2>5. h[0] = base
    BY <2>1 DEF RunsTo
  <2>6. ASSUME NEW i \in 1..(k + 1) PROVE h[i] = F[<<i, h[i - 1]>>]
    <3>1. CASE i = k + 1
      <4>1. (k + 1) - 1 = k /\ h[k] = g[k]
        OBVIOUS
      <4> QED
        BY <3>1, <4>1
    <3>2. CASE i # k + 1
      <4>1. i \in 1..k /\ h[i] = g[i] /\ h[i - 1] = g[i - 1]
        BY <3>2
      <4> QED
        BY <2>1, <4>1 DEF RunsTo
    <3> QED
      BY <3>1, <3>2
  <2>7. RunsTo(F, base, k + 1, V, h)
    <3> HIDE DEF h
    <3> QED
      BY <2>4, <2>5, <2>6 DEF RunsTo
  <2> QED
    BY <2>7
<1>3. Nat \subseteq Ns
  <2> HIDE DEF Ns
  <2> QED
    BY <1>1, <1>2, Induction
<1> QED
  BY <1>3

\* Whatever grows by f from 0 ends at the sum of f.
LEMMA SumSteps ==
  ASSUME NEW n \in Nat, NEW f, NEW c, c[0] = 0,
         \A i \in 1..n : f[i] \in Int /\ c[i] = c[i - 1] + f[i]
  PROVE  c[n] = SumOver(f, 1..n)
<1> DEFINE Ns == {k \in Nat : k <= n => c[k] = SumOver(f, 1..k)}
<1>1. 0 \in Ns
  <2>1. 1..0 = {}
    OBVIOUS
  <2> QED
    BY <2>1, SumOfNone
<1>2. ASSUME NEW k \in Nat, k \in Ns PROVE k + 1 \in Ns
  <2>0. SUFFICES ASSUME k + 1 <= n PROVE c[k + 1] = SumOver(f, 1..(k + 1))
    OBVIOUS
  <2>1. c[k] = SumOver(f, 1..k)
    BY <1>2, <2>0
  <2>2. c[k + 1] = c[k] + f[k + 1]
    <3>1. k + 1 \in 1..n /\ (k + 1) - 1 = k
      BY <2>0
    <3> QED
      BY <3>1
  <2>3. \A i \in 1..(k + 1) : f[i] \in Int
    BY <2>0
  <2>4. SumOver(f, 1..(k + 1)) = SumOver(f, 1..k) + f[k + 1]
    BY <2>3, SumUpto
  <2> QED
    BY <2>1, <2>2, <2>4
<1>3. Nat \subseteq Ns
  <2> HIDE DEF Ns
  <2> QED
    BY <1>1, <1>2, Induction
<1> QED
  BY <1>3

\* A sum of zeros is 0.
LEMMA SumOfZeros ==
  ASSUME NEW S, IsFiniteSet(S), NEW f, \A x \in S : f[x] = 0
  PROVE  SumOver(f, S) = 0
<1>1. {} \in SUBSET S /\ \A x \in S : f[x] = IF x \in {} THEN 1 ELSE 0
  OBVIOUS
<1>2. Cardinality({}) = 0
  BY FS_EmptySet
<1> QED
  BY <1>1, <1>2, SumCounts

\* A sum of natural numbers is one.
LEMMA SumNat ==
  ASSUME NEW S, IsFiniteSet(S), NEW f, \A x \in S : f[x] \in Nat
  PROVE  SumOver(f, S) \in Nat
<1> DEFINE Good == {T \in SUBSET S : SumOver(f, T) \in Nat}
<1>1. {} \in Good
  BY SumOfNone
<1>2. ASSUME NEW T \in SUBSET S, NEW x \in S \ T, T \in Good PROVE T \cup {x} \in Good
  <2>1. IsFiniteSet(T) /\ \A y \in T \cup {x} : f[y] \in Int
    BY FS_Subset
  <2>2. SumOver(f, T \cup {x}) = SumOver(f, T) + f[x]
    BY <2>1, SumGrows
  <2> QED
    BY <1>2, <2>2
<1>3. S \in Good
  <2> HIDE DEF Good
  <2> QED
    BY <1>1, <1>2, GrowingInduction
<1> QED
  BY <1>3

\* The number of elements of X with an owner in T.
Share(X, owner, T) == Cardinality({i \in X : owner[i] \in T})

\* The elements of X with an owner in S, counted by their owners.
LEMMA SumOfParts ==
  ASSUME NEW S, IsFiniteSet(S), NEW X, IsFiniteSet(X), NEW owner, NEW f,
         \A x \in S : f[x] = Share(X, owner, {x})
  PROVE  SumOver(f, S) = Share(X, owner, S)
<1> DEFINE Part(T) == {i \in X : owner[i] \in T}
           Good == {T \in SUBSET S : SumOver(f, T) = Cardinality(Part(T))}
<1>0. \A T : IsFiniteSet(Part(T)) /\ Cardinality(Part(T)) \in Nat
  BY FS_Subset, FS_CardinalityType
<1>1. {} \in Good
  <2>1. Part({}) = {}
    OBVIOUS
  <2> QED
    BY <2>1, SumOfNone, FS_EmptySet
<1>2. ASSUME NEW T \in SUBSET S, NEW x \in S \ T, T \in Good PROVE T \cup {x} \in Good
  <2>1. IsFiniteSet(T)
    BY FS_Subset
  <2>2. \A y \in S : f[y] = Cardinality(Part({y}))
    BY DEF Share
  <2>3. \A y \in T \cup {x} : f[y] \in Int
    <3>1. ASSUME NEW y \in T \cup {x} PROVE f[y] \in Int
      <4>1. f[y] = Cardinality(Part({y}))
        BY <2>2
      <4>2. Cardinality(Part({y})) \in Nat
        BY <1>0
      <4> QED
        BY <4>1, <4>2
    <3> QED
      BY <3>1
  <2>4. SumOver(f, T \cup {x}) = SumOver(f, T) + f[x]
    BY <2>1, <2>3, SumGrows
  <2>5. Part(T \cup {x}) = Part(T) \cup Part({x}) /\ Part(T) \cap Part({x}) = {}
    OBVIOUS
  <2> HIDE DEF Part
  <2>6. Cardinality(Part(T) \cup Part({x}))
          = Cardinality(Part(T)) + Cardinality(Part({x})) - Cardinality(Part(T) \cap Part({x}))
    BY <1>0, FS_Union
  <2>7. Cardinality(Part(T) \cap Part({x})) = 0
    BY <2>5, FS_EmptySet
  <2>8. Cardinality(Part(T \cup {x})) = Cardinality(Part(T)) + Cardinality(Part({x}))
    <3>1. Cardinality(Part(T)) \in Nat /\ Cardinality(Part({x})) \in Nat
      BY <1>0
    <3> QED
      <4>1. Cardinality(Part(T \cup {x})) = Cardinality(Part(T) \cup Part({x}))
        BY <2>5
      <4>2. Cardinality(Part(T) \cup Part({x})) = Cardinality(Part(T)) + Cardinality(Part({x}))
        BY <2>6, <2>7, <3>1
      <4> QED
        BY <4>1, <4>2
  <2>9. SumOver(f, T) = Cardinality(Part(T)) /\ f[x] = Cardinality(Part({x}))
    BY <1>2, <2>2
  <2> QED
    BY <2>4, <2>8, <2>9
<1>3. S \in Good
  <2> HIDE DEF Good
  <2> QED
    BY <1>1, <1>2, GrowingInduction
<1> QED
  BY <1>3 DEF Share

-----------------------------------------------------------------------------
(* Averages as fractions *)

\* A product grows with its factors.
LEMMA TimesGrows ==
  ASSUME NEW a \in Int, NEW b \in Int, NEW c \in Nat, a <= b
  PROVE  a * c <= b * c
OBVIOUS

\* A product of positive numbers is positive.
LEMMA TimesPositive ==
  ASSUME NEW a \in Nat \ {0}, NEW b \in Nat \ {0}
  PROVE  a * b \in Nat \ {0}
OBVIOUS

Fraction == Nat \X (Nat \ {0})

\* An average below M stays below M if more requests below M are added to it.
LEMMA FractionBound ==
  ASSUME NEW x1 \in Nat, NEW x2 \in Nat, NEW b1 \in Nat, NEW b2 \in Nat, NEW q \in Nat, NEW r \in Nat,
         NEW M \in Nat, x1 <= M * (x2 * r), b1 <= M * b2
  PROVE  x1 * b2 + b1 * q * x2 <= M * ((x2 * b2) * (q + r))
<1>1. x1 * b2 <= (M * (x2 * r)) * b2
  <2> DEFINE y == M * (x2 * r)
  <2>1. y \in Int
    OBVIOUS
  <2> HIDE DEF y
  <2>2. x1 <= y
    BY DEF y
  <2>3. x1 * b2 <= y * b2
    BY <2>1, <2>2, TimesGrows
  <2> QED
    BY <2>3 DEF y
<1>2. b1 * (q * x2) <= (M * b2) * (q * x2)
  <2> DEFINE y == M * b2  z == q * x2
  <2>1. y \in Int /\ z \in Nat
    OBVIOUS
  <2>2. b1 <= y
    OBVIOUS
  <2> HIDE DEF y, z
  <2>3. b1 * z <= y * z
    BY <2>1, <2>2, TimesGrows
  <2> QED
    BY <2>3 DEF y, z
<1>3. b1 * q * x2 = b1 * (q * x2)
  OBVIOUS
<1>4. M * ((x2 * b2) * (q + r)) = (M * (x2 * r)) * b2 + (M * b2) * (q * x2)
  OBVIOUS
<1> QED
  <2> DEFINE u == x1 * b2  v == b1 * (q * x2)  w == (M * (x2 * r)) * b2  z == (M * b2) * (q * x2)
  <2>1. u \in Int /\ v \in Int /\ w \in Int /\ z \in Int
    OBVIOUS
  <2>2. u <= w /\ v <= z
    BY <1>1, <1>2
  <2>3. b1 * q * x2 = v /\ M * ((x2 * b2) * (q + r)) = w + z
    BY <1>3, <1>4
  <2> HIDE DEF u, v, w, z
  <2>4. u + v <= w + z
    BY <2>1, <2>2
  <2> QED
    BY <2>3, <2>4 DEF u

\* An exact average stays exact if an exact one is added to it.
LEMMA FractionExact ==
  ASSUME NEW x1 \in Nat, NEW x2 \in Nat, NEW b1 \in Nat, NEW b2 \in Nat, NEW q \in Nat,
         NEW r \in Int, NEW t \in Int, x1 = x2 * r, b1 * q = b2 * t
  PROVE  x1 * b2 + b1 * q * x2 = (x2 * b2) * (t + r)
<1>1. x1 * b2 = (x2 * b2) * r
  OBVIOUS
<1>2. b1 * q * x2 = (b2 * t) * x2
  OBVIOUS
<1>3. (b2 * t) * x2 = (x2 * b2) * t
  OBVIOUS
<1>4. (x2 * b2) * (t + r) = (x2 * b2) * t + (x2 * b2) * r
  OBVIOUS
<1> QED
  BY <1>1, <1>2, <1>3, <1>4

\* The sum of two fractions is a fraction.
LEMMA FractionsAdd ==
  ASSUME NEW x \in Fraction, NEW b \in Fraction, NEW q \in Nat
  PROVE  <<x[1] * b[2] + b[1] * q * x[2], x[2] * b[2]>> \in Fraction
<1> DEFINE x1 == x[1]  x2 == x[2]  b1 == b[1]  b2 == b[2]
<1>1. x1 \in Nat /\ x2 \in Nat \ {0} /\ b1 \in Nat /\ b2 \in Nat \ {0}
  BY DEF Fraction
<1> HIDE DEF x1, x2, b1, b2
<1>2. x1 * b2 + b1 * q * x2 \in Nat
  <2>1. x1 * b2 \in Nat /\ b1 * q \in Nat
    BY <1>1
  <2>2. (b1 * q) * x2 \in Nat
    BY <1>1, <2>1
  <2> QED
    BY <2>1, <2>2
<1>3. x2 * b2 \in Nat \ {0}
  BY <1>1, TimesPositive
<1>4. <<x1 * b2 + b1 * q * x2, x2 * b2>> \in Fraction
  BY <1>2, <1>3 DEF Fraction
<1> QED
  BY <1>4 DEF x1, x2, b1, b2

\* _weighted_avg_ms gives a fraction, not above what bounds both the average
\* and the bucket, and an exact one if the average was exact for its requests.
LEMMA WeightedAvgBounds ==
  ASSUME NEW avg \in Fraction, NEW r \in Nat, NEW b, b.sum \in Nat, b.timed \in Nat, b.timed = 0 => b.sum = 0
  PROVE  LET w == WeightedAvg(avg, r, b)
         IN  /\ w \in Fraction
             /\ \A M \in Nat : avg[1] <= M * avg[2] /\ b.sum <= M * b.timed => w[1] <= M * w[2]
             /\ \A h \in Int : avg[1] * r = avg[2] * h => w[1] * (r + b.timed) = w[2] * (h + b.sum)
<1> DEFINE a1 == avg[1]  a2 == avg[2]  s == b.sum  t == b.timed  w == WeightedAvg(avg, r, b)
<1>1. a1 \in Nat /\ a2 \in Nat /\ a2 # 0 /\ s \in Nat /\ t \in Nat
  BY DEF Fraction
<1>2. CASE r + t = 0
  <2>1. w[1] = 0 /\ w[2] = 1 /\ w \in Fraction
    <3>1. w = <<0, 1>>
      BY <1>2 DEF WeightedAvg
    <3> HIDE DEF w
    <3> QED
      BY <3>1 DEF Fraction
  <2>2. r = 0 /\ t = 0 /\ s = 0
    BY <1>1, <1>2
  <2> HIDE DEF w, a1, a2, s, t
  <2>3. \A M \in Nat : w[1] <= M * w[2]
    BY <2>1
  <2>4. ASSUME NEW h \in Int, a1 * r = a2 * h PROVE w[1] * (r + t) = w[2] * (h + s)
    <3>1. a2 * h = 0
      BY <1>1, <2>2, <2>4
    <3>2. h = 0
      BY <1>1, <3>1
    <3> QED
      BY <2>1, <2>2, <3>2
  <2> QED
    BY <2>1, <2>3, <2>4 DEF w, a1, a2, s, t
<1>3. CASE r + t # 0
  <2>1. w[1] = a1 * r + s * a2 /\ w[2] = a2 * (r + t) /\ w = <<a1 * r + s * a2, a2 * (r + t)>>
    BY <1>3 DEF WeightedAvg
  <2> HIDE DEF w, a1, a2, s, t
  <2>2. w \in Fraction
    <3>1. a1 * r \in Nat /\ s * a2 \in Nat
      BY <1>1
    <3>2. a2 * (r + t) \in Nat \ {0}
      BY <1>1, <1>3, TimesPositive
    <3> QED
      BY <2>1, <3>1, <3>2 DEF Fraction
  <2>3. ASSUME NEW M \in Nat, a1 <= M * a2, s <= M * t PROVE w[1] <= M * w[2]
    <3>1. a1 * r <= (M * a2) * r
      <4>1. M * a2 \in Int
        BY <1>1
      <4> DEFINE y == M * a2
      <4>2. a1 <= y /\ y \in Int
        BY <2>3, <4>1
      <4> HIDE DEF y
      <4>3. a1 * r <= y * r
        BY <1>1, <4>2, TimesGrows
      <4> QED
        BY <4>3 DEF y
    <3>2. s * a2 <= (M * t) * a2
      <4>1. M * t \in Int
        BY <1>1
      <4> DEFINE y == M * t
      <4>2. s <= y /\ y \in Int
        BY <2>3, <4>1
      <4> HIDE DEF y
      <4>3. s * a2 <= y * a2
        BY <1>1, <4>2, TimesGrows
      <4> QED
        BY <4>3 DEF y
    <3>3. M * (a2 * (r + t)) = (M * a2) * r + (M * t) * a2
      BY <1>1
    <3>4. a1 * r \in Int /\ s * a2 \in Int /\ (M * a2) * r \in Int /\ (M * t) * a2 \in Int
      BY <1>1
    <3> DEFINE u1 == a1 * r  u2 == s * a2  z1 == (M * a2) * r  z2 == (M * t) * a2
    <3>5. u1 \in Int /\ u2 \in Int /\ z1 \in Int /\ z2 \in Int /\ u1 <= z1 /\ u2 <= z2
      BY <3>1, <3>2, <3>4
    <3>6. w[1] = u1 + u2 /\ M * w[2] = z1 + z2
      BY <2>1, <3>3
    <3> HIDE DEF u1, u2, z1, z2
    <3> QED
      BY <3>5, <3>6
  <2>4. ASSUME NEW h \in Int, a1 * r = a2 * h PROVE w[1] * (r + t) = w[2] * (h + s)
    <3>1. a1 * r + s * a2 = a2 * (h + s)
      BY <1>1, <2>4
    <3>2. (a2 * (h + s)) * (r + t) = (a2 * (r + t)) * (h + s)
      BY <1>1
    <3> QED
      BY <2>1, <3>1, <3>2
  <2> QED
    BY <2>2, <2>3, <2>4 DEF w, a1, a2, s, t
<1> QED
  BY <1>2, <1>3

\* g adds up the averages a[k], each for req[k] requests.
Averaging(a, req, S, g) ==
  \A s \in SUBSET S : g[s] = IF s = {} THEN <<0, 1>> ELSE
    LET c == Some(s)
    IN  <<g[s \ {c}][1] * a[c][2] + a[c][1] * req[c] * g[s \ {c}][2], g[s \ {c}][2] * a[c][2]>>

\* The sum of the averages a[k], each of req[k] requests: not above any bound of
\* theirs, and exact if each of them is.
LEMMA AveragesAddUp ==
  ASSUME NEW S, IsFiniteSet(S), NEW a \in [S -> Fraction], NEW req \in [S -> Nat], NEW g,
         Averaging(a, req, S, g)
  PROVE  /\ g[S] \in Fraction
         /\ \A M \in Nat : (\A k \in S : a[k][1] <= M * a[k][2])
                            => g[S][1] <= M * (g[S][2] * SumOver(req, S))
         /\ \A h \in [S -> Int] : (\A k \in S : a[k][1] * req[k] = a[k][2] * h[k])
                                 => g[S][1] = g[S][2] * SumOver(h, S)
<1> DEFINE Bounded(T) == \A M \in Nat : (\A k \in S : a[k][1] <= M * a[k][2])
                                       => g[T][1] <= M * (g[T][2] * SumOver(req, T))
           Exact(T) == \A h \in [S -> Int] : (\A k \in S : a[k][1] * req[k] = a[k][2] * h[k])
                                           => g[T][1] = g[T][2] * SumOver(h, T)
           Good == {T \in SUBSET S : g[T] \in Fraction /\ Bounded(T) /\ Exact(T)}
<1>1. ASSUME NEW T \in SUBSET S, \A U \in SUBSET T : U # T => U \in Good
      PROVE  T \in Good
  <2>1. CASE T = {}
    <3>1. g[T] = <<0, 1>>
      BY <2>1 DEF Averaging
    <3>2. g[T][1] = 0 /\ g[T][2] = 1 /\ g[T] \in Fraction
      BY <3>1 DEF Fraction
    <3>3. ASSUME NEW h PROVE SumOver(h, T) = 0
      BY <2>1, SumOfNone
    <3>4. Bounded(T)
      <4>1. SumOver(req, T) = 0
        BY <3>3
      <4> QED
        BY <3>2, <4>1
    <3>5. Exact(T)
      BY <3>2, <3>3
    <3> QED
      BY <3>2, <3>4, <3>5
  <2>2. CASE T # {}
    <3> DEFINE c == Some(T)
               R == T \ {c}
    <3>1. c \in T /\ c \in S
      BY <2>2 DEF Some
    <3>2. g[T] = <<g[R][1] * a[c][2] + a[c][1] * req[c] * g[R][2], g[R][2] * a[c][2]>>
      BY <2>2 DEF Averaging
    <3> HIDE DEF c
    <3>3. R \in Good /\ R \in SUBSET S /\ IsFiniteSet(R) /\ IsFiniteSet(T)
      BY <1>1, <3>1, FS_Subset
    <3> HIDE DEF R
    <3>4. g[R][1] \in Nat /\ g[R][2] \in Nat /\ g[R][2] # 0 /\ Bounded(R) /\ Exact(R)
      BY <3>3 DEF Fraction
    <3>5. a[c][1] \in Nat /\ a[c][2] \in Nat /\ a[c][2] # 0 /\ req[c] \in Nat
      BY <3>1 DEF Fraction
    <3>6. g[T][1] = g[R][1] * a[c][2] + a[c][1] * req[c] * g[R][2] /\ g[T][2] = g[R][2] * a[c][2]
      BY <3>2
    <3>7. g[T] \in Fraction
      <4> DEFINE x1 == g[R][1]  x2 == g[R][2]  b1 == a[c][1]  b2 == a[c][2]  q == req[c]
      <4>0. x1 \in Nat /\ x2 \in Nat /\ b1 \in Nat /\ b2 \in Nat /\ q \in Nat
        BY <3>4, <3>5
      <4>1. x1 * b2 + b1 * q * x2 \in Nat
        <5> HIDE DEF x1, x2, b1, b2, q
        <5>1. x1 * b2 \in Nat /\ b1 * q \in Nat
          BY <4>0
        <5>2. (b1 * q) * x2 \in Nat
          BY <4>0, <5>1
        <5> QED
          BY <5>1, <5>2
      <4>2. g[R][2] * a[c][2] \in Nat \ {0}
        BY <3>4, <3>5, TimesPositive
      <4> QED
        BY <3>2, <4>1, <4>2 DEF Fraction
    <3>8. ASSUME NEW h \in [S -> Int] PROVE SumOver(h, T) = h[c] + SumOver(h, R)
      <4>1. \A y \in T : h[y] \in Int
        OBVIOUS
      <4> QED
        BY <3>1, <3>3, <4>1, SumTakes DEF R
    <3>9. SumOver(req, R) \in Nat
      BY <3>3, SumNat
    <3>10. Bounded(T)
      <4> SUFFICES ASSUME NEW M \in Nat, \A k \in S : a[k][1] <= M * a[k][2]
                   PROVE  g[T][1] <= M * (g[T][2] * SumOver(req, T))
        OBVIOUS
      <4>1. g[R][1] <= M * (g[R][2] * SumOver(req, R)) /\ a[c][1] <= M * a[c][2]
        BY <3>1, <3>4
      <4>2. SumOver(req, T) = req[c] + SumOver(req, R)
        BY <3>8
      <4> DEFINE x1 == g[R][1]  x2 == g[R][2]  b1 == a[c][1]  b2 == a[c][2]  q == req[c]  r == SumOver(req, R)
      <4>3. x1 \in Nat /\ x2 \in Nat /\ b1 \in Nat /\ b2 \in Nat /\ q \in Nat /\ r \in Nat
        BY <3>4, <3>5, <3>9
      <4>4. x1 <= M * (x2 * r) /\ b1 <= M * b2
        BY <4>1
      <4>5. g[T][1] = x1 * b2 + b1 * q * x2 /\ g[T][2] = x2 * b2 /\ SumOver(req, T) = q + r
        BY <3>6, <4>2
      <4> HIDE DEF x1, x2, b1, b2, q, r
      <4>6. x1 * b2 + b1 * q * x2 <= M * ((x2 * b2) * (q + r))
        BY <4>3, <4>4, FractionBound
      <4> QED
        BY <4>5, <4>6
    <3>11. Exact(T)
      <4> SUFFICES ASSUME NEW h \in [S -> Int], \A k \in S : a[k][1] * req[k] = a[k][2] * h[k]
                   PROVE  g[T][1] = g[T][2] * SumOver(h, T)
        OBVIOUS
      <4>1. g[R][1] = g[R][2] * SumOver(h, R) /\ a[c][1] * req[c] = a[c][2] * h[c]
        BY <3>1, <3>4
      <4>2. SumOver(h, T) = h[c] + SumOver(h, R)
        BY <3>8
      <4>3. SumOver(h, R) \in Int /\ h[c] \in Int
        BY <3>1, <3>3, SumType
      <4> DEFINE x1 == g[R][1]  x2 == g[R][2]  b1 == a[c][1]  b2 == a[c][2]  q == req[c]  r == SumOver(h, R)  t == h[c]
      <4>4. x1 \in Nat /\ x2 \in Nat /\ b1 \in Nat /\ b2 \in Nat /\ q \in Nat /\ r \in Int /\ t \in Int
        BY <3>4, <3>5, <4>3
      <4>5. x1 = x2 * r /\ b1 * q = b2 * t
        BY <4>1
      <4>6. g[T][1] = x1 * b2 + b1 * q * x2 /\ g[T][2] = x2 * b2 /\ SumOver(h, T) = t + r
        BY <3>6, <4>2
      <4> HIDE DEF x1, x2, b1, b2, q, r, t
      <4>7. x1 * b2 + b1 * q * x2 = (x2 * b2) * (t + r)
        BY <4>4, <4>5, FractionExact
      <4> QED
        BY <4>6, <4>7
    <3> QED
      BY <3>7, <3>10, <3>11
  <2> QED
    BY <2>1, <2>2
<1>2. S \in Good
  <2>1. \A T \in SUBSET S : T \in Good
    <3> HIDE DEF Good
    <3> QED
      BY <1>1, SubsetInduction
  <2> QED
    BY <2>1
<1> QED
  BY <1>2

\* The second half of it, for one h.
LEMMA ExactAveragesAddUp ==
  ASSUME NEW S, IsFiniteSet(S), NEW a \in [S -> Fraction], NEW req \in [S -> Nat], NEW g, Averaging(a, req, S, g),
         NEW h \in [S -> Int], \A k \in S : a[k][1] * req[k] = a[k][2] * h[k]
  PROVE  g[S][1] = g[S][2] * SumOver(h, S)
<1>1. \A f \in [S -> Int] : (\A k \in S : a[k][1] * req[k] = a[k][2] * f[k]) => g[S][1] = g[S][2] * SumOver(f, S)
  BY AveragesAddUp
<1> QED
  BY <1>1

-----------------------------------------------------------------------------
(* Buckets *)

LineType == [status : Statuses, client : Clients, ms : Nat \cup {Untimed}, at : Nat]

BucketType ==
    [requests : Int, groups : [Groups -> Int], codes : [Statuses -> Int], clients : [Clients -> Int],
     sum : Int, timed : Int, max : Int]

\* What lines can be counted by.
Weights == [LineType -> Int]

One == [l \in LineType |-> 1]

OfGroup(g) == [l \in LineType |-> IF StatusBucket(l.status) = g THEN 1 ELSE 0]

OfCode(c) == [l \in LineType |-> IF l.status = c THEN 1 ELSE 0]

OfClient(c) == [l \in LineType |-> IF l.client = c THEN 1 ELSE 0]

Ms == [l \in LineType |-> l.ms]

\* One, Ms and the three kinds of counters weigh lines.
LEMMA WeightsAreWeights ==
  /\ One \in Weights /\ Ms \in Weights
  /\ \A x : OfGroup(x) \in Weights /\ OfCode(x) \in Weights /\ OfClient(x) \in Weights
<1>1. Ms \in Weights
  BY DEF Ms, Weights, LineType, Untimed
<1> QED
  BY <1>1 DEF One, OfGroup, OfCode, OfClient, Weights

\* The line falls into the period of the key.
Fits(k, l) == Start(k[2], l.at) = k[3]

\* A new bucket is a bucket, and so is one that a line was applied to.
LEMMA BucketTypes ==
  /\ NewBucket \in BucketType
  /\ \A b \in BucketType, l \in LineType : ApplyParsedLine(b, l) \in BucketType
  /\ \A x : StatusBucket(x) \in Groups
<1>1. NewBucket \in BucketType
  BY DEF NewBucket, BucketType
<1>2. \A x : StatusBucket(x) \in Groups
  BY DEF StatusBucket, Groups
<1>3. ASSUME NEW b \in BucketType, NEW l \in LineType PROVE ApplyParsedLine(b, l) \in BucketType
  <2>1. l.ms \in Int
    BY DEF LineType, Untimed
  <2>2. b.requests + 1 \in Int /\ b.sum + (IF Timed(l) THEN l.ms ELSE 0) \in Int
        /\ b.timed + (IF Timed(l) THEN 1 ELSE 0) \in Int /\ Larger(b.max, l.ms) \in Int
    BY <2>1 DEF BucketType, Larger
  <2>3. [b.groups EXCEPT ![StatusBucket(l.status)] = @ + 1] \in [Groups -> Int]
    BY <1>2 DEF BucketType
  <2>4. [b.codes EXCEPT ![l.status] = @ + 1] \in [Statuses -> Int]
    <3>1. b.codes \in [Statuses -> Int] /\ l.status \in Statuses
      BY DEF BucketType, LineType
    <3> QED
      BY <3>1
  <2>5. [b.clients EXCEPT ![l.client] = @ + 1] \in [Clients -> Int]
    <3>1. b.clients \in [Clients -> Int] /\ l.client \in Clients
      BY DEF BucketType, LineType
    <3> QED
      BY <3>1
  <2> QED
    BY <2>2, <2>3, <2>4, <2>5 DEF ApplyParsedLine, BucketType
<1> QED
  BY <1>1, <1>2, <1>3

\* g is what the bucket of key k holds after each of the lines.
Filled(lines, k, g) ==
  /\ g \in [0..Len(lines) -> BucketType]
  /\ g[0] = NewBucket
  /\ \A n \in 1..Len(lines) :
       g[n] = IF Fits(k, lines[n]) THEN ApplyParsedLine(g[n - 1], lines[n]) ELSE g[n - 1]
  /\ Bucket(lines, k) = g[Len(lines)]

\* The recursion that fills a bucket has a value after each of the lines.
LEMMA BucketFills ==
  ASSUME NEW lines \in Seq(LineType), NEW k
  PROVE  \E g : Filled(lines, k, g)
<1> DEFINE L == Len(lines)
           F == [p \in (1..L) \X BucketType |->
                   IF Fits(k, lines[p[1]]) THEN ApplyParsedLine(p[2], lines[p[1]]) ELSE p[2]]
           Then(g, n) == IF Fits(k, lines[n]) THEN ApplyParsedLine(g[n - 1], lines[n]) ELSE g[n - 1]
           Rec(g) == g = [n \in 0..L |-> IF n = 0 THEN NewBucket ELSE Then(g, n)]
<1>0. L \in Nat /\ \A n \in 1..L : lines[n] \in LineType
  OBVIOUS
<1>1. F \in [(1..L) \X BucketType -> BucketType]
  <2>1. ASSUME NEW p \in (1..L) \X BucketType
        PROVE  (IF Fits(k, lines[p[1]]) THEN ApplyParsedLine(p[2], lines[p[1]]) ELSE p[2]) \in BucketType
    <3>1. p[1] \in 1..L /\ p[2] \in BucketType
      OBVIOUS
    <3> HIDE DEF L
    <3> QED
      BY <1>0, <3>1, BucketTypes
  <2> HIDE DEF L
  <2> QED
    BY <2>1
<1>2. PICK g : RunsTo(F, NewBucket, L, BucketType, g)
  <2>1. NewBucket \in BucketType
    BY BucketTypes
  <2> HIDE DEF L, F
  <2> QED
    BY <1>0, <1>1, <2>1, RunExists
<1>3. g \in [0..L -> BucketType] /\ g[0] = NewBucket /\ \A n \in 1..L : g[n] = F[<<n, g[n - 1]>>]
  BY <1>2 DEF RunsTo
<1>4. ASSUME NEW n \in 1..L PROVE g[n] = Then(g, n)
  <2>1. n - 1 \in 0..L /\ g[n - 1] \in BucketType
    BY <1>0, <1>3
  <2>2. <<n, g[n - 1]>> \in (1..L) \X BucketType
    BY <2>1
  <2>3. F[<<n, g[n - 1]>>] = Then(g, n)
    <3> HIDE DEF L
    <3> QED
      BY <2>2
  <2> QED
    BY <1>3, <2>3
<1>5. Rec(g)
  <2>1. \A n \in 0..L : g[n] = IF n = 0 THEN NewBucket ELSE Then(g, n)
    <3>1. \A n \in 0..L : n = 0 \/ n \in 1..L
      BY <1>0
    <3> HIDE DEF L, Then
    <3> QED
      BY <1>3, <1>4, <3>1
  <2> HIDE DEF Then, L
  <2> QED
    BY <1>3, <2>1
<1>6. PICK f : f = (CHOOSE h : Rec(h))
  OBVIOUS
<1>7. Rec(f)
  <2> HIDE DEF Rec
  <2> QED
    BY <1>5, <1>6
<1>8. Bucket(lines, k) = f[L]
  BY <1>6 DEF Bucket, Fits
<1>9. DOMAIN f = 0..L /\ f[0] = NewBucket /\ \A n \in 1..L : f[n] = Then(f, n)
  <2>1. \A n \in 1..L : n \in 0..L /\ n # 0
    BY <1>0
  <2>2. 0 \in 0..L
    BY <1>0
  <2> HIDE DEF Then, L
  <2> QED
    BY <1>7, <2>1, <2>2
<1>10. \A n \in 0..L : f[n] \in BucketType
  <2> DEFINE Ns == {n \in Nat : n <= L => f[n] \in BucketType}
  <2>1. 0 \in Ns
    BY <1>9, BucketTypes
  <2>2. ASSUME NEW n \in Nat, n \in Ns PROVE n + 1 \in Ns
    <3> SUFFICES ASSUME n + 1 <= L PROVE f[n + 1] \in BucketType
      OBVIOUS
    <3>1. f[n] \in BucketType /\ n + 1 \in 1..L /\ (n + 1) - 1 = n
      BY <1>0, <2>2
    <3>2. f[n + 1] = Then(f, n + 1)
      BY <1>9, <3>1
    <3> HIDE DEF L
    <3> QED
      BY <1>0, <3>1, <3>2, BucketTypes
  <2>3. Nat \subseteq Ns
    <3> HIDE DEF Ns
    <3> QED
      BY <2>1, <2>2, Induction
  <2> QED
    BY <1>0, <2>3
<1>11. f \in [0..L -> BucketType]
  <2>1. f = [n \in 0..L |-> f[n]]
    <3> HIDE DEF Then
    <3> QED
      BY <1>7
  <2> HIDE DEF L
  <2> QED
    BY <1>10, <2>1
<1> QED
  BY <1>8, <1>9, <1>11 DEF Filled

\* What each line weighs for the key, and all of them together.
Fitting(lines, k, v) == [j \in 1..Len(lines) |-> IF Fits(k, lines[j]) THEN v[lines[j]] ELSE 0]

LineMass(lines, k, v) == SumOver(Fitting(lines, k, v), 1..Len(lines))

\* Lines weigh integers.
LEMMA FittingType ==
  ASSUME NEW lines \in Seq(LineType), NEW k, NEW v \in Weights
  PROVE  \A j \in 1..Len(lines) : Fitting(lines, k, v)[j] \in Int
<1>1. \A j \in 1..Len(lines) : lines[j] \in LineType
  OBVIOUS
<1> QED
  BY <1>1 DEF Fitting, Weights

\* A counter that grows with each line by its weight ends at the mass of the lines.
LEMMA CountsAreMass ==
  ASSUME NEW lines \in Seq(LineType), NEW k, NEW v \in Weights, NEW c, c[0] = 0,
         \A n \in 1..Len(lines) : c[n] = c[n - 1] + (IF Fits(k, lines[n]) THEN v[lines[n]] ELSE 0)
  PROVE  c[Len(lines)] = LineMass(lines, k, v)
<1>1. Len(lines) \in Nat
  OBVIOUS
<1>2. \A n \in 1..Len(lines) : c[n] = c[n - 1] + Fitting(lines, k, v)[n]
  BY DEF Fitting
<1>3. \A j \in 1..Len(lines) : Fitting(lines, k, v)[j] \in Int
  BY FittingType
<1> QED
  BY <1>1, <1>2, <1>3, SumSteps DEF LineMass

\* A bucket's counters are the mass of the lines of its period: of each group,
\* each code and each client.
LEMMA BucketCounters ==
  ASSUME NEW lines \in Seq(LineType), NEW k
  PROVE  LET b == Bucket(lines, k)
         IN  /\ b \in BucketType
             /\ b.requests = LineMass(lines, k, One)
             /\ \A g \in Groups : b.groups[g] = LineMass(lines, k, OfGroup(g))
             /\ \A c \in Statuses : b.codes[c] = LineMass(lines, k, OfCode(c))
             /\ \A c \in Clients : b.clients[c] = LineMass(lines, k, OfClient(c))
<1>1. PICK f : Filled(lines, k, f)
  BY BucketFills
<1> DEFINE L == Len(lines)
<1>2. /\ L \in Nat
      /\ \A n \in 1..L : lines[n] \in LineType /\ f[n] \in BucketType /\ f[n - 1] \in BucketType /\ n - 1 \in 0..L
      /\ f[0] = NewBucket /\ f[L] \in BucketType /\ Bucket(lines, k) = f[L]
      /\ 0 \in 0..L /\ L \in 0..L /\ \A n \in 1..L : n \in 0..L
  <2>1. \A n \in 1..L : n \in 0..L /\ n - 1 \in 0..L
    OBVIOUS
  <2>2. 0 \in 0..L /\ L \in 0..L /\ L \in Nat
    OBVIOUS
  <2>3. \A n \in 1..L : lines[n] \in LineType
    OBVIOUS
  <2> HIDE DEF L
  <2> QED
    BY <1>1, <2>1, <2>2, <2>3 DEF Filled, L
<1>3. \A n \in 1..L : f[n] = IF Fits(k, lines[n]) THEN ApplyParsedLine(f[n - 1], lines[n]) ELSE f[n - 1]
  BY <1>1 DEF Filled
<1> HIDE DEF L
<1>4. f[L].requests = LineMass(lines, k, One)
  <2> DEFINE c == [n \in 0..L |-> f[n].requests]
  <2>1. c[0] = 0
    BY <1>2 DEF NewBucket
  <2>2. ASSUME NEW n \in 1..L
        PROVE  c[n] = c[n - 1] + (IF Fits(k, lines[n]) THEN One[lines[n]] ELSE 0)
    <3>1. f[n - 1].requests \in Int /\ One[lines[n]] = 1
      BY <1>2 DEF BucketType, One
    <3>2. c[n] = f[n].requests /\ c[n - 1] = f[n - 1].requests
      BY <1>2
    <3>3. ApplyParsedLine(f[n - 1], lines[n]).requests = f[n - 1].requests + 1
      BY DEF ApplyParsedLine
    <3> HIDE DEF c
    <3> QED
      BY <1>3, <3>1, <3>2, <3>3
  <2>3. c[L] = f[L].requests
    BY <1>2
  <2>4. c[L] = LineMass(lines, k, One)
    <3> HIDE DEF c
    <3> QED
      BY <2>1, <2>2, WeightsAreWeights, CountsAreMass DEF L
  <2> QED
    BY <2>3, <2>4
<1>5. ASSUME NEW g \in Groups PROVE f[L].groups[g] = LineMass(lines, k, OfGroup(g))
  <2> DEFINE c == [n \in 0..L |-> f[n].groups[g]]
  <2>1. c[0] = 0
    BY <1>2 DEF NewBucket
  <2>2. ASSUME NEW n \in 1..L
        PROVE  c[n] = c[n - 1] + (IF Fits(k, lines[n]) THEN OfGroup(g)[lines[n]] ELSE 0)
    <3>1. f[n - 1].groups \in [Groups -> Int] /\ StatusBucket(lines[n].status) \in Groups
      BY <1>2, BucketTypes DEF BucketType
    <3>2. OfGroup(g)[lines[n]] = IF StatusBucket(lines[n].status) = g THEN 1 ELSE 0
      BY <1>2 DEF OfGroup
    <3>3. c[n] = f[n].groups[g] /\ c[n - 1] = f[n - 1].groups[g]
      BY <1>2
    <3>4. ApplyParsedLine(f[n - 1], lines[n]).groups[g] = f[n - 1].groups[g] + OfGroup(g)[lines[n]]
      BY <3>1, <3>2 DEF ApplyParsedLine
    <3> HIDE DEF c
    <3> QED
      BY <1>3, <3>1, <3>3, <3>4
  <2>3. c[L] = f[L].groups[g]
    BY <1>2
  <2>4. c[L] = LineMass(lines, k, OfGroup(g))
    <3> HIDE DEF c
    <3> QED
      BY <2>1, <2>2, WeightsAreWeights, CountsAreMass DEF L
  <2> QED
    BY <2>3, <2>4
<1>6. ASSUME NEW g \in Statuses PROVE f[L].codes[g] = LineMass(lines, k, OfCode(g))
  <2> DEFINE c == [n \in 0..L |-> f[n].codes[g]]
  <2>1. c[0] = 0
    BY <1>2 DEF NewBucket
  <2>2. ASSUME NEW n \in 1..L
        PROVE  c[n] = c[n - 1] + (IF Fits(k, lines[n]) THEN OfCode(g)[lines[n]] ELSE 0)
    <3>1. f[n - 1].codes \in [Statuses -> Int] /\ lines[n].status \in Statuses
      BY <1>2 DEF BucketType, LineType
    <3>2. OfCode(g)[lines[n]] = IF lines[n].status = g THEN 1 ELSE 0
      BY <1>2 DEF OfCode
    <3>3. c[n] = f[n].codes[g] /\ c[n - 1] = f[n - 1].codes[g]
      BY <1>2
    <3>4. ApplyParsedLine(f[n - 1], lines[n]).codes[g] = f[n - 1].codes[g] + OfCode(g)[lines[n]]
      BY <3>1, <3>2 DEF ApplyParsedLine
    <3> HIDE DEF c
    <3> QED
      BY <1>3, <3>1, <3>3, <3>4
  <2>3. c[L] = f[L].codes[g]
    BY <1>2
  <2>4. c[L] = LineMass(lines, k, OfCode(g))
    <3> HIDE DEF c
    <3> QED
      BY <2>1, <2>2, WeightsAreWeights, CountsAreMass DEF L
  <2> QED
    BY <2>3, <2>4
<1>7. ASSUME NEW g \in Clients PROVE f[L].clients[g] = LineMass(lines, k, OfClient(g))
  <2> DEFINE c == [n \in 0..L |-> f[n].clients[g]]
  <2>1. c[0] = 0
    BY <1>2 DEF NewBucket
  <2>2. ASSUME NEW n \in 1..L
        PROVE  c[n] = c[n - 1] + (IF Fits(k, lines[n]) THEN OfClient(g)[lines[n]] ELSE 0)
    <3>1. f[n - 1].clients \in [Clients -> Int] /\ lines[n].client \in Clients
      BY <1>2 DEF BucketType, LineType
    <3>2. OfClient(g)[lines[n]] = IF lines[n].client = g THEN 1 ELSE 0
      BY <1>2 DEF OfClient
    <3>3. c[n] = f[n].clients[g] /\ c[n - 1] = f[n - 1].clients[g]
      BY <1>2
    <3>4. ApplyParsedLine(f[n - 1], lines[n]).clients[g] = f[n - 1].clients[g] + OfClient(g)[lines[n]]
      BY <3>1, <3>2 DEF ApplyParsedLine
    <3> HIDE DEF c
    <3> QED
      BY <1>3, <3>1, <3>3, <3>4
  <2>3. c[L] = f[L].clients[g]
    BY <1>2
  <2>4. c[L] = LineMass(lines, k, OfClient(g))
    <3> HIDE DEF c
    <3> QED
      BY <2>1, <2>2, WeightsAreWeights, CountsAreMass DEF L
  <2> QED
    BY <2>3, <2>4
<1> QED
  BY <1>2, <1>4, <1>5, <1>6, <1>7

\* The times in a bucket: their sum is not above M times their number if none is
\* above M, and it is that of the lines if all have a time.
LEMMA BucketTimes ==
  ASSUME NEW lines \in Seq(LineType), NEW k
  PROVE  LET b == Bucket(lines, k)
         IN  /\ b.sum \in Nat /\ b.timed \in Nat /\ (b.timed = 0 => b.sum = 0)
             /\ \A M \in Nat : (\A j \in 1..Len(lines) : Fits(k, lines[j]) => lines[j].ms <= M)
                                => b.sum <= M * b.timed
             /\ (\A j \in 1..Len(lines) : Fits(k, lines[j]) => Timed(lines[j]))
                    => b.timed = b.requests /\ b.sum = LineMass(lines, k, Ms)
<1>1. PICK f : Filled(lines, k, f)
  BY BucketFills
<1> DEFINE L == Len(lines)
<1>2. /\ L \in Nat
      /\ \A n \in 1..L : lines[n] \in LineType /\ f[n] \in BucketType /\ f[n - 1] \in BucketType /\ n - 1 \in 0..L
      /\ f[0] = NewBucket /\ f[L] \in BucketType /\ Bucket(lines, k) = f[L]
      /\ 0 \in 0..L /\ L \in 0..L /\ \A n \in 1..L : n \in 0..L
  <2>1. \A n \in 1..L : n \in 0..L /\ n - 1 \in 0..L
    OBVIOUS
  <2>2. 0 \in 0..L /\ L \in 0..L /\ L \in Nat
    OBVIOUS
  <2>3. \A n \in 1..L : lines[n] \in LineType
    OBVIOUS
  <2> HIDE DEF L
  <2> QED
    BY <1>1, <2>1, <2>2, <2>3 DEF Filled, L
<1>3. \A n \in 1..L : f[n] = IF Fits(k, lines[n]) THEN ApplyParsedLine(f[n - 1], lines[n]) ELSE f[n - 1]
  BY <1>1 DEF Filled
<1>4. ASSUME NEW b, NEW l \in LineType
      PROVE  /\ ApplyParsedLine(b, l).sum = b.sum + (IF Timed(l) THEN l.ms ELSE 0)
             /\ ApplyParsedLine(b, l).timed = b.timed + (IF Timed(l) THEN 1 ELSE 0)
             /\ Timed(l) => l.ms \in Nat
  BY DEF ApplyParsedLine, Timed, LineType
<1> HIDE DEF L
<1>5. ASSUME NEW M \in Nat, \A j \in 1..L : Fits(k, lines[j]) => lines[j].ms <= M
      PROVE  f[L].sum <= M * f[L].timed
  <2> DEFINE Fine(b) == b.sum \in Nat /\ b.timed \in Nat /\ b.sum <= M * b.timed
             Ns == {n \in Nat : n <= L => Fine(f[n])}
  <2>1. 0 \in Ns
    <3>1. f[0].sum = 0 /\ f[0].timed = 0
      BY <1>2 DEF NewBucket
    <3> QED
      BY <3>1
  <2>2. ASSUME NEW n \in Nat, n \in Ns PROVE n + 1 \in Ns
    <3> SUFFICES ASSUME n + 1 <= L PROVE Fine(f[n + 1])
      OBVIOUS
    <3>1. Fine(f[n]) /\ n + 1 \in 1..L /\ (n + 1) - 1 = n
      BY <1>2, <2>2
    <3>2. f[n + 1] = IF Fits(k, lines[n + 1]) THEN ApplyParsedLine(f[n], lines[n + 1]) ELSE f[n]
      BY <1>3, <3>1
    <3>3. CASE Fits(k, lines[n + 1]) /\ Timed(lines[n + 1])
      <4> DEFINE l == lines[n + 1]  s == f[n].sum  t == f[n].timed
      <4>1. f[n + 1].sum = s + l.ms /\ f[n + 1].timed = t + 1 /\ l.ms \in Nat /\ l.ms <= M
        BY <1>2, <1>4, <1>5, <3>1, <3>2, <3>3
      <4>2. s \in Nat /\ t \in Nat /\ s <= M * t
        BY <3>1
      <4> HIDE DEF s, t, l
      <4>3. M * (t + 1) = M * t + M /\ M * t \in Nat
        BY <4>2
      <4>4. s + l.ms <= M * (t + 1)
        BY <4>1, <4>2, <4>3
      <4> QED
        BY <4>1, <4>2, <4>4
    <3>4. CASE Fits(k, lines[n + 1]) /\ ~Timed(lines[n + 1])
      <4>1. f[n + 1].sum = f[n].sum + 0 /\ f[n + 1].timed = f[n].timed + 0
        BY <1>2, <1>4, <3>1, <3>2, <3>4
      <4>2. f[n + 1].sum = f[n].sum /\ f[n + 1].timed = f[n].timed
        BY <3>1, <4>1
      <4> QED
        BY <3>1, <4>2
    <3>5. CASE ~Fits(k, lines[n + 1])
      BY <3>1, <3>2, <3>5
    <3> QED
      BY <3>3, <3>4, <3>5
  <2>3. L \in Ns
    <3> HIDE DEF Ns
    <3> QED
      BY <1>2, <2>1, <2>2, Induction
  <2> QED
    BY <2>3
<1>6. f[L].sum \in Nat /\ f[L].timed \in Nat /\ (f[L].timed = 0 => f[L].sum = 0)
  <2> DEFINE Fine(b) == b.sum \in Nat /\ b.timed \in Nat /\ (b.timed = 0 => b.sum = 0)
             Ns == {n \in Nat : n <= L => Fine(f[n])}
  <2>1. 0 \in Ns
    <3>1. f[0].sum = 0 /\ f[0].timed = 0
      BY <1>2 DEF NewBucket
    <3> QED
      BY <3>1
  <2>2. ASSUME NEW n \in Nat, n \in Ns PROVE n + 1 \in Ns
    <3> SUFFICES ASSUME n + 1 <= L PROVE Fine(f[n + 1])
      OBVIOUS
    <3>1. Fine(f[n]) /\ n + 1 \in 1..L /\ (n + 1) - 1 = n
      BY <1>2, <2>2
    <3>2. f[n + 1] = IF Fits(k, lines[n + 1]) THEN ApplyParsedLine(f[n], lines[n + 1]) ELSE f[n]
      BY <1>3, <3>1
    <3>3. CASE Fits(k, lines[n + 1])
      <4>1. /\ f[n + 1].sum = f[n].sum + (IF Timed(lines[n + 1]) THEN lines[n + 1].ms ELSE 0)
            /\ f[n + 1].timed = f[n].timed + (IF Timed(lines[n + 1]) THEN 1 ELSE 0)
            /\ Timed(lines[n + 1]) => lines[n + 1].ms \in Nat
        BY <1>2, <1>4, <3>1, <3>2, <3>3
      <4> QED
        BY <3>1, <4>1
    <3>4. CASE ~Fits(k, lines[n + 1])
      BY <3>1, <3>2, <3>4
    <3> QED
      BY <3>3, <3>4
  <2>3. L \in Ns
    <3> HIDE DEF Ns
    <3> QED
      BY <1>2, <2>1, <2>2, Induction
  <2> QED
    BY <1>2, <2>3
<1>7. ASSUME \A j \in 1..L : Fits(k, lines[j]) => Timed(lines[j])
      PROVE  f[L].timed = f[L].requests /\ f[L].sum = LineMass(lines, k, Ms)
  <2> DEFINE c == [n \in 0..L |-> f[n].timed]
             d == [n \in 0..L |-> f[n].sum]
  <2>1. c[0] = 0 /\ d[0] = 0
    BY <1>2 DEF NewBucket
  <2>2. ASSUME NEW n \in 1..L
        PROVE  /\ c[n] = c[n - 1] + (IF Fits(k, lines[n]) THEN One[lines[n]] ELSE 0)
               /\ d[n] = d[n - 1] + (IF Fits(k, lines[n]) THEN Ms[lines[n]] ELSE 0)
    <3>1. f[n - 1].timed \in Int /\ f[n - 1].sum \in Int /\ One[lines[n]] = 1 /\ Ms[lines[n]] = lines[n].ms
      BY <1>2 DEF BucketType, One, Ms
    <3>2. c[n] = f[n].timed /\ c[n - 1] = f[n - 1].timed /\ d[n] = f[n].sum /\ d[n - 1] = f[n - 1].sum
      BY <1>2
    <3>3. CASE Fits(k, lines[n])
      <4>1. f[n].timed = f[n - 1].timed + 1 /\ f[n].sum = f[n - 1].sum + lines[n].ms
        BY <1>2, <1>3, <1>4, <1>7, <3>3
      <4> HIDE DEF c, d
      <4> QED
        BY <3>1, <3>2, <3>3, <4>1
    <3>4. CASE ~Fits(k, lines[n])
      <4>1. f[n] = f[n - 1]
        BY <1>3, <3>4
      <4> HIDE DEF c, d
      <4> QED
        BY <3>1, <3>2, <3>4, <4>1
    <3> QED
      BY <3>3, <3>4
  <2>3. c[L] = f[L].timed /\ d[L] = f[L].sum
    BY <1>2
  <2>4. c[L] = LineMass(lines, k, One)
    <3> HIDE DEF c, d
    <3> QED
      BY <2>1, <2>2, WeightsAreWeights, CountsAreMass DEF L
  <2>5. d[L] = LineMass(lines, k, Ms)
    <3> HIDE DEF c, d
    <3> QED
      BY <2>1, <2>2, WeightsAreWeights, CountsAreMass DEF L
  <2>6. f[L].requests = LineMass(lines, k, One)
    BY <1>2, BucketCounters
  <2> QED
    BY <2>3, <2>4, <2>5, <2>6
<1> QED
  BY <1>2, <1>5, <1>6, <1>7 DEF L

-----------------------------------------------------------------------------
(* Rows *)

\* Collected lines, those of a key, and what they weigh.
Seen == [site : Sites, line : LineType]

OfKey(k, x) == x.site = k[1] /\ Fits(k, x.line)

Weight(q, k, v) == [i \in 1..Len(q) |-> IF OfKey(k, q[i]) THEN v[q[i].line] ELSE 0]

Mass(q, k, v) == SumOver(Weight(q, k, v), 1..Len(q))

At(s, lines) == [i \in DOMAIN lines |-> [site |-> s, line |-> lines[i]]]

\* What a row says of the lines of its key.
Tallied(k, row, q) ==
  /\ row.requests \in Nat /\ row.requests = Mass(q, k, One)
  /\ row.groups = [g \in Groups |-> Mass(q, k, OfGroup(g))]
  /\ row.codes = [c \in Statuses |-> Mass(q, k, OfCode(c))]
  /\ row.clients = [c \in Clients |-> Mass(q, k, OfClient(c))]
  /\ row.avg \in Fraction
  /\ \A M \in Nat : (\A i \in 1..Len(q) : OfKey(k, q[i]) => q[i].line.ms <= M) => row.avg[1] <= M * row.avg[2]
  /\ (\A i \in 1..Len(q) : OfKey(k, q[i]) => Timed(q[i].line))
        => row.avg[1] * row.requests = row.avg[2] * Mass(q, k, Ms)

\* Collected lines weigh integers.
LEMMA WeightType ==
  ASSUME NEW q \in Seq(Seen), NEW k, NEW v \in Weights
  PROVE  /\ Len(q) \in Nat
         /\ \A i \in 1..Len(q) : q[i] \in Seen /\ Weight(q, k, v)[i] \in Int
         /\ IsFiniteSet(1..Len(q))
         /\ Mass(q, k, v) \in Int
<1>1. Len(q) \in Nat /\ \A i \in 1..Len(q) : q[i] \in Seen
  OBVIOUS
<1>2. \A i \in 1..Len(q) : Weight(q, k, v)[i] \in Int
  BY <1>1 DEF Weight, Weights, Seen
<1>3. IsFiniteSet(1..Len(q))
  BY <1>1, FS_Interval
<1>4. Mass(q, k, v) \in Int
  BY <1>2, <1>3, SumType DEF Mass
<1> QED
  BY <1>1, <1>2, <1>3, <1>4

\* Collected lines, and the lines of one more collection of s.
LEMMA LinesJoin ==
  ASSUME NEW q \in Seq(Seen), NEW lines \in Seq(LineType), NEW s \in Sites
  PROVE  LET r == q \o At(s, lines)
         IN  /\ r \in Seq(Seen) /\ Len(r) = Len(q) + Len(lines)
             /\ Len(q) \in Nat /\ Len(lines) \in Nat
             /\ \A i \in 1..Len(q) : r[i] = q[i] /\ i \in 1..Len(r)
             /\ \A j \in 1..Len(lines) : r[Len(q) + j] = [site |-> s, line |-> lines[j]] /\ Len(q) + j \in 1..Len(r)
             /\ \A i \in 1..Len(r) : i \in 1..Len(q) \/ \E j \in 1..Len(lines) : i = Len(q) + j
<1> DEFINE t == At(s, lines)
<1>1. t \in Seq(Seen) /\ Len(t) = Len(lines) /\ \A j \in 1..Len(lines) : t[j] = [site |-> s, line |-> lines[j]]
  <2>1. \A j \in 1..Len(lines) : lines[j] \in LineType
    OBVIOUS
  <2>2. DOMAIN lines = 1..Len(lines) /\ Len(lines) \in Nat
    OBVIOUS
  <2>3. t \in [1..Len(lines) -> Seen]
    BY <2>1, <2>2 DEF At, Seen
  <2> QED
    BY <2>2, <2>3 DEF At
<1> HIDE DEF t
<1>2. q \o t \in Seq(Seen) /\ Len(q \o t) = Len(q) + Len(lines) /\ Len(q) \in Nat /\ Len(lines) \in Nat
  BY <1>1
<1>3. \A i \in 1..Len(q) : (q \o t)[i] = q[i]
  BY <1>1
<1>4. \A j \in 1..Len(lines) : (q \o t)[Len(q) + j] = t[j]
  BY <1>1
<1>5. \A i \in 1..(Len(q) + Len(lines)) : i \in 1..Len(q) \/ \E j \in 1..Len(lines) : i = Len(q) + j
  <2>1. ASSUME NEW i \in 1..(Len(q) + Len(lines)), i \notin 1..Len(q)
        PROVE  \E j \in 1..Len(lines) : i = Len(q) + j
    <3>1. i - Len(q) \in 1..Len(lines) /\ i = Len(q) + (i - Len(q))
      BY <1>2, <2>1
    <3> QED
      BY <3>1
  <2> QED
    BY <2>1
<1>6. \A i \in 1..Len(q) : i \in 1..Len(q \o t)
  BY <1>2
<1>7. \A j \in 1..Len(lines) : Len(q) + j \in 1..Len(q \o t)
  BY <1>2
<1> QED
  BY <1>1, <1>2, <1>3, <1>4, <1>5, <1>6, <1>7 DEF t

\* What the lines of a site weigh after one more collection of it.
LEMMA MassJoined ==
  ASSUME NEW q \in Seq(Seen), NEW lines \in Seq(LineType), NEW s \in Sites, NEW k, NEW v \in Weights
  PROVE  /\ k[1] = s => Mass(q \o At(s, lines), k, v) = Mass(q, k, v) + LineMass(lines, k, v)
         /\ LineMass(lines, k, v) \in Int
<1> DEFINE r == q \o At(s, lines)
<1>1. /\ Len(r) = Len(q) + Len(lines) /\ Len(q) \in Nat /\ Len(lines) \in Nat
      /\ \A i \in 1..Len(q) : r[i] = q[i] /\ i \in 1..Len(r)
      /\ \A j \in 1..Len(lines) : r[Len(q) + j] = [site |-> s, line |-> lines[j]] /\ Len(q) + j \in 1..Len(r)
  BY LinesJoin
<1>2. \A i \in 1..Len(q) : Weight(q, k, v)[i] \in Int
  BY WeightType
<1>3. \A j \in 1..Len(lines) : Fitting(lines, k, v)[j] \in Int
  BY FittingType
<1> HIDE DEF r
<1>4. \A i \in 1..Len(q) : Weight(r, k, v)[i] = Weight(q, k, v)[i]
  BY <1>1 DEF Weight
<1>5. ASSUME k[1] = s, NEW j \in 1..Len(lines) PROVE Weight(r, k, v)[Len(q) + j] = Fitting(lines, k, v)[j]
  <2>1. r[Len(q) + j].site = s /\ r[Len(q) + j].line = lines[j] /\ Len(q) + j \in 1..Len(r)
    <3>1. r[Len(q) + j] = [site |-> s, line |-> lines[j]] /\ Len(q) + j \in 1..Len(r)
      BY <1>1
    <3> QED
      BY <3>1
  <2>2. Weight(r, k, v)[Len(q) + j] = IF Fits(k, lines[j]) THEN v[lines[j]] ELSE 0
    BY <1>5, <2>1 DEF Weight, OfKey
  <2> QED
    BY <2>2 DEF Fitting
<1>6. ASSUME k[1] = s
      PROVE  SumOver(Weight(r, k, v), 1..(Len(q) + Len(lines)))
               = SumOver(Weight(q, k, v), 1..Len(q)) + SumOver(Fitting(lines, k, v), 1..Len(lines))
  <2> DEFINE m == Len(q)  n == Len(lines)  f == Weight(q, k, v)  h == Fitting(lines, k, v)  e == Weight(r, k, v)
  <2>1. m \in Nat /\ n \in Nat
    BY <1>1
  <2>2. \A i \in 1..m : f[i] \in Int /\ e[i] = f[i]
    BY <1>2, <1>4
  <2>3. \A j \in 1..n : h[j] \in Int /\ e[m + j] = h[j]
    BY <1>3, <1>5, <1>6
  <2> HIDE DEF m, n, f, h, e
  <2>4. SumOver(e, 1..(m + n)) = SumOver(f, 1..m) + SumOver(h, 1..n)
    BY <2>1, <2>2, <2>3, SumConcat
  <2> QED
    BY <2>4 DEF m, n, f, h, e
<1>7. LineMass(lines, k, v) \in Int
  <2>1. IsFiniteSet(1..Len(lines))
    BY <1>1, FS_Interval
  <2> QED
    BY <1>3, <2>1, SumType DEF LineMass
<1> QED
  BY <1>1, <1>6, <1>7 DEF Mass, LineMass, r

\* A row that says what its lines say goes on to do so when the bucket of one
\* more collection is added to it ...
LEMMA TallyAdds ==
  ASSUME NEW q \in Seq(Seen), NEW lines \in Seq(LineType), NEW s \in Sites, NEW k, k[1] = s,
         NEW row, Tallied(k, row, q)
  PROVE  Tallied(k, Added(row, Bucket(lines, k)), q \o At(s, lines))
<1> DEFINE r == q \o At(s, lines)
           b == Bucket(lines, k)
           new == Added(row, b)
<1>0. \A v \in Weights : /\ Mass(r, k, v) = Mass(q, k, v) + LineMass(lines, k, v)
                         /\ LineMass(lines, k, v) \in Int /\ Mass(q, k, v) \in Int
  BY MassJoined, WeightType
<1>1. /\ b \in BucketType
      /\ b.requests = LineMass(lines, k, One)
      /\ \A g \in Groups : b.groups[g] = LineMass(lines, k, OfGroup(g))
      /\ \A c \in Statuses : b.codes[c] = LineMass(lines, k, OfCode(c))
      /\ \A c \in Clients : b.clients[c] = LineMass(lines, k, OfClient(c))
  BY BucketCounters
<1>2. /\ b.sum \in Nat /\ b.timed \in Nat /\ (b.timed = 0 => b.sum = 0)
      /\ \A M \in Nat : (\A j \in 1..Len(lines) : Fits(k, lines[j]) => lines[j].ms <= M) => b.sum <= M * b.timed
      /\ (\A j \in 1..Len(lines) : Fits(k, lines[j]) => Timed(lines[j]))
            => b.timed = b.requests /\ b.sum = LineMass(lines, k, Ms)
  BY BucketTimes
<1>3. b.requests \in Nat
  <2>1. \A j \in 1..Len(lines) : Fitting(lines, k, One)[j] \in Nat
    <3>1. \A j \in 1..Len(lines) : lines[j] \in LineType
      OBVIOUS
    <3> QED
      BY <3>1 DEF Fitting, One
  <2>2. IsFiniteSet(1..Len(lines))
    BY FS_Interval
  <2> QED
    BY <1>1, <2>1, <2>2, SumNat DEF LineMass
<1>4. /\ new.requests = row.requests + b.requests /\ new.groups = Merge(row.groups, b.groups)
      /\ new.codes = Merge(row.codes, b.codes) /\ new.clients = Merge(row.clients, b.clients)
      /\ new.avg = WeightedAvg(row.avg, row.requests, b)
  BY DEF Added
<1>5. /\ \A j \in 1..Len(lines) : Fits(k, lines[j]) => OfKey(k, r[Len(q) + j])
      /\ \A j \in 1..Len(lines) : r[Len(q) + j].line = lines[j] /\ Len(q) + j \in 1..Len(r)
      /\ \A i \in 1..Len(q) : r[i] = q[i] /\ i \in 1..Len(r)
  <2>1. \A j \in 1..Len(lines) : r[Len(q) + j] = [site |-> s, line |-> lines[j]] /\ Len(q) + j \in 1..Len(r)
    BY LinesJoin
  <2>2. \A i \in 1..Len(q) : r[i] = q[i] /\ i \in 1..Len(r)
    BY LinesJoin
  <2> HIDE DEF r
  <2>3. ASSUME NEW j \in 1..Len(lines)
        PROVE  r[Len(q) + j].line = lines[j] /\ r[Len(q) + j].site = s
    <3>1. r[Len(q) + j] = [site |-> s, line |-> lines[j]]
      BY <2>1
    <3> QED
      BY <3>1
  <2>4. \A j \in 1..Len(lines) : Fits(k, lines[j]) => OfKey(k, r[Len(q) + j])
    BY <2>3 DEF OfKey
  <2> QED
    BY <2>1, <2>2, <2>3, <2>4
<1> HIDE DEF r, b, new
<1>6. new.requests \in Nat /\ new.requests = Mass(r, k, One)
  <2>1. row.requests \in Nat /\ row.requests = Mass(q, k, One)
    BY DEF Tallied
  <2> QED
    BY <1>0, <1>1, <1>3, <1>4, <2>1, WeightsAreWeights
<1>7. new.groups = [g \in Groups |-> Mass(r, k, OfGroup(g))]
  <2>1. row.groups = [g \in Groups |-> Mass(q, k, OfGroup(g))]
    BY DEF Tallied
  <2>2. DOMAIN row.groups = Groups /\ \A g \in Groups : row.groups[g] + b.groups[g] = Mass(r, k, OfGroup(g))
    BY <1>0, <1>1, <2>1, WeightsAreWeights
  <2> QED
    BY <1>4, <2>2 DEF Merge
<1>8. new.codes = [c \in Statuses |-> Mass(r, k, OfCode(c))]
  <2>1. row.codes = [c \in Statuses |-> Mass(q, k, OfCode(c))]
    BY DEF Tallied
  <2>2. DOMAIN row.codes = Statuses /\ \A c \in Statuses : row.codes[c] + b.codes[c] = Mass(r, k, OfCode(c))
    BY <1>0, <1>1, <2>1, WeightsAreWeights
  <2> QED
    BY <1>4, <2>2 DEF Merge
<1>9. new.clients = [c \in Clients |-> Mass(r, k, OfClient(c))]
  <2>1. row.clients = [c \in Clients |-> Mass(q, k, OfClient(c))]
    BY DEF Tallied
  <2>2. DOMAIN row.clients = Clients /\ \A c \in Clients : row.clients[c] + b.clients[c] = Mass(r, k, OfClient(c))
    BY <1>0, <1>1, <2>1, WeightsAreWeights
  <2> QED
    BY <1>4, <2>2 DEF Merge
<1>10. row.avg \in Fraction /\ row.requests \in Nat
  BY DEF Tallied
<1>11. /\ new.avg \in Fraction
       /\ \A M \in Nat : row.avg[1] <= M * row.avg[2] /\ b.sum <= M * b.timed => new.avg[1] <= M * new.avg[2]
       /\ \A h \in Int : row.avg[1] * row.requests = row.avg[2] * h
                           => new.avg[1] * (row.requests + b.timed) = new.avg[2] * (h + b.sum)
  <2> DEFINE w == WeightedAvg(row.avg, row.requests, b)
  <2>1. w \in Fraction
    BY <1>2, <1>10, WeightedAvgBounds
  <2>2. ASSUME NEW M \in Nat, row.avg[1] <= M * row.avg[2], b.sum <= M * b.timed PROVE w[1] <= M * w[2]
    BY <1>2, <1>10, <2>2, WeightedAvgBounds
  <2>3. ASSUME NEW h \in Int, row.avg[1] * row.requests = row.avg[2] * h
        PROVE  w[1] * (row.requests + b.timed) = w[2] * (h + b.sum)
    BY <1>2, <1>10, <2>3, WeightedAvgBounds
  <2> QED
    BY <1>4, <2>1, <2>2, <2>3
<1>12. ASSUME NEW M \in Nat, \A i \in 1..Len(r) : OfKey(k, r[i]) => r[i].line.ms <= M
       PROVE  new.avg[1] <= M * new.avg[2]
  <2>1. \A i \in 1..Len(q) : OfKey(k, q[i]) => q[i].line.ms <= M
    BY <1>5, <1>12
  <2>2. \A j \in 1..Len(lines) : Fits(k, lines[j]) => lines[j].ms <= M
    BY <1>5, <1>12
  <2>3. row.avg[1] <= M * row.avg[2]
    BY <2>1 DEF Tallied
  <2>4. b.sum <= M * b.timed
    BY <1>2, <2>2
  <2> QED
    BY <1>11, <2>3, <2>4
<1>13. ASSUME \A i \in 1..Len(r) : OfKey(k, r[i]) => Timed(r[i].line)
       PROVE  new.avg[1] * new.requests = new.avg[2] * Mass(r, k, Ms)
  <2>1. \A i \in 1..Len(q) : OfKey(k, q[i]) => Timed(q[i].line)
    BY <1>5, <1>13
  <2>2. \A j \in 1..Len(lines) : Fits(k, lines[j]) => Timed(lines[j])
    BY <1>5, <1>13
  <2>3. row.avg[1] * row.requests = row.avg[2] * Mass(q, k, Ms)
    BY <2>1 DEF Tallied
  <2>4. b.timed = b.requests /\ b.sum = LineMass(lines, k, Ms)
    BY <1>2, <2>2
  <2>5. Mass(q, k, Ms) \in Int /\ Mass(r, k, Ms) = Mass(q, k, Ms) + LineMass(lines, k, Ms)
    BY <1>0, WeightsAreWeights
  <2>6. new.avg[1] * (row.requests + b.timed) = new.avg[2] * (Mass(q, k, Ms) + b.sum)
    BY <1>11, <2>3, <2>5
  <2> QED
    BY <1>4, <2>4, <2>5, <2>6
<1>14. Tallied(k, new, r)
  BY <1>6, <1>7, <1>8, <1>9, <1>11, <1>12, <1>13 DEF Tallied
<1> QED
  BY <1>14 DEF new, b, r

NoneOf(k, q) == \A i \in 1..Len(q) : ~OfKey(k, q[i])

\* Where there is no line of a key there is no mass.
LEMMA NothingWeighs ==
  ASSUME NEW q \in Seq(Seen), NEW k, NoneOf(k, q), NEW v
  PROVE  Mass(q, k, v) = 0
<1>1. \A i \in 1..Len(q) : Weight(q, k, v)[i] = 0
  BY DEF Weight, NoneOf
<1>2. IsFiniteSet(1..Len(q))
  <2>1. Len(q) \in Nat
    OBVIOUS
  <2> QED
    BY <2>1, FS_Interval
<1> QED
  BY <1>1, <1>2, SumOfZeros DEF Mass

\* ... a new row does, from its first bucket on ...
LEMMA TallyNew ==
  ASSUME NEW q \in Seq(Seen), NEW lines \in Seq(LineType), NEW s \in Sites, NEW k, k[1] = s, NoneOf(k, q)
  PROVE  Tallied(k, NewRow(Bucket(lines, k)), q \o At(s, lines))
<1> DEFINE zero == [requests |-> 0, groups |-> [g \in Groups |-> 0], codes |-> [c \in Statuses |-> 0],
                    clients |-> [c \in Clients |-> 0], avg |-> <<0, 1>>, max |-> 0]
           b == Bucket(lines, k)
           r == q \o At(s, lines)
           new == NewRow(b)
           old == Added(zero, b)
<1>1. Tallied(k, zero, q)
  <2>1. \A v : Mass(q, k, v) = 0
    BY NothingWeighs
  <2>2. /\ zero.requests = 0 /\ zero.groups = [g \in Groups |-> 0] /\ zero.codes = [c \in Statuses |-> 0]
        /\ zero.clients = [c \in Clients |-> 0] /\ zero.avg = <<0, 1>>
    OBVIOUS
  <2>3. zero.avg[1] = 0 /\ zero.avg[2] = 1 /\ zero.avg \in Fraction
    <3> HIDE DEF zero
    <3> QED
      BY <2>2 DEF Fraction
  <2> HIDE DEF zero
  <2> QED
    BY <2>1, <2>2, <2>3 DEF Tallied
<1>2. Tallied(k, old, r)
  <2> HIDE DEF zero
  <2> QED
    BY <1>1, TallyAdds
<1>3. b \in BucketType /\ b.sum \in Nat /\ b.timed \in Nat /\ b.requests \in Int
  <2>1. b \in BucketType
    BY BucketCounters
  <2>2. b.sum \in Nat /\ b.timed \in Nat
    BY BucketTimes
  <2> QED
    BY <2>1, <2>2 DEF BucketType
<1> HIDE DEF b, r
<1>4. new.requests = old.requests
  BY <1>3 DEF NewRow, Added
<1>5. new.groups = old.groups
  <2>1. b.groups \in [Groups -> Int]
    BY <1>3 DEF BucketType
  <2>2. [x \in Groups |-> 0 + b.groups[x]] = b.groups
    BY <2>1
  <2>3. old.groups = [x \in Groups |-> 0 + b.groups[x]]
    BY DEF Added, Merge
  <2> QED
    BY <2>2, <2>3 DEF NewRow
<1>6. new.codes = old.codes
  <2>1. b.codes \in [Statuses -> Int]
    BY <1>3 DEF BucketType
  <2>2. [x \in Statuses |-> 0 + b.codes[x]] = b.codes
    BY <2>1
  <2>3. old.codes = [x \in Statuses |-> 0 + b.codes[x]]
    BY DEF Added, Merge
  <2> QED
    BY <2>2, <2>3 DEF NewRow
<1>7. new.clients = old.clients
  <2>1. b.clients \in [Clients -> Int]
    BY <1>3 DEF BucketType
  <2>2. [x \in Clients |-> 0 + b.clients[x]] = b.clients
    BY <2>1
  <2>3. old.clients = [x \in Clients |-> 0 + b.clients[x]]
    BY DEF Added, Merge
  <2> QED
    BY <2>2, <2>3 DEF NewRow
<1>8. new.avg = old.avg
  <2>1. new.avg = IF b.timed = 0 THEN <<0, 1>> ELSE <<b.sum, b.timed>>
    BY DEF NewRow
  <2>2. old.avg = IF 0 + b.timed = 0 THEN <<0, 1>> ELSE <<0 * 0 + b.sum * 1, 1 * (0 + b.timed)>>
    BY DEF Added, WeightedAvg
  <2>3. 0 * 0 + b.sum * 1 = b.sum /\ 1 * (0 + b.timed) = b.timed /\ 0 + b.timed = b.timed
    BY <1>3
  <2> QED
    BY <2>1, <2>2, <2>3
<1> HIDE DEF new, old
<1>9. Tallied(k, new, r)
  BY <1>2, <1>4, <1>5, <1>6, <1>7, <1>8 DEF Tallied
<1> QED
  BY <1>9 DEF new, b, r

\* ... and a row of another key is not touched by it.
LEMMA TallyKeeps ==
  ASSUME NEW q \in Seq(Seen), NEW lines \in Seq(LineType), NEW s \in Sites, NEW k,
         NoneOf(k, At(s, lines)), NEW row, Tallied(k, row, q)
  PROVE  Tallied(k, row, q \o At(s, lines))
<1> DEFINE t == At(s, lines)
           r == q \o t
<1>1. /\ Len(r) = Len(q) + Len(lines) /\ Len(q) \in Nat /\ Len(lines) \in Nat
      /\ \A i \in 1..Len(q) : r[i] = q[i] /\ i \in 1..Len(r)
      /\ \A j \in 1..Len(lines) : r[Len(q) + j] = [site |-> s, line |-> lines[j]] /\ Len(q) + j \in 1..Len(r)
  BY LinesJoin
<1>2. \A j \in 1..Len(lines) : ~OfKey(k, r[Len(q) + j])
  <2>1. Len(t) = Len(lines) /\ \A j \in 1..Len(lines) : t[j] = [site |-> s, line |-> lines[j]]
    BY DEF At
  <2>2. \A j \in 1..Len(lines) : r[Len(q) + j] = t[j]
    BY <1>1, <2>1
  <2> HIDE DEF r, t
  <2> QED
    BY <2>1, <2>2 DEF NoneOf, t
<1> HIDE DEF t, r
<1>3. ASSUME NEW v \in Weights PROVE Mass(r, k, v) = Mass(q, k, v)
  <2> DEFINE m == Len(q)  n == Len(lines)  f == Weight(q, k, v)  h == [j \in 1..n |-> 0]  e == Weight(r, k, v)
  <2>1. m \in Nat /\ n \in Nat
    BY <1>1
  <2>2. \A i \in 1..m : f[i] \in Int /\ e[i] = f[i]
    <3>1. \A i \in 1..m : f[i] \in Int
      BY WeightType
    <3>2. \A i \in 1..m : e[i] = f[i]
      BY <1>1 DEF Weight
    <3> HIDE DEF f, e, m
    <3> QED
      BY <3>1, <3>2
  <2>3. \A j \in 1..n : h[j] \in Int /\ h[j] = 0 /\ e[m + j] = h[j]
    BY <1>1, <1>2 DEF Weight
  <2>4. SumOver(f, 1..m) \in Int
    BY WeightType DEF Mass
  <2>5. Mass(r, k, v) = SumOver(e, 1..(m + n)) /\ Mass(q, k, v) = SumOver(f, 1..m)
    BY <1>1 DEF Mass
  <2> HIDE DEF m, n, f, h, e
  <2>6. SumOver(e, 1..(m + n)) = SumOver(f, 1..m) + SumOver(h, 1..n)
    <3>1. \A j \in 1..n : h[j] \in Int /\ e[m + j] = h[j]
      BY <2>3
    <3> QED
      BY <2>1, <2>2, <3>1, SumConcat
  <2>7. SumOver(h, 1..n) = 0
    <3>1. IsFiniteSet(1..n)
      BY <2>1, FS_Interval
    <3> QED
      BY <2>3, <3>1, SumOfZeros
  <2> QED
    BY <2>4, <2>5, <2>6, <2>7
<1>4. /\ \A M \in Nat : (\A i \in 1..Len(r) : OfKey(k, r[i]) => r[i].line.ms <= M)
                            => \A i \in 1..Len(q) : OfKey(k, q[i]) => q[i].line.ms <= M
      /\ (\A i \in 1..Len(r) : OfKey(k, r[i]) => Timed(r[i].line))
            => \A i \in 1..Len(q) : OfKey(k, q[i]) => Timed(q[i].line)
  BY <1>1
<1>5. \A x : Mass(r, k, OfGroup(x)) = Mass(q, k, OfGroup(x)) /\ Mass(r, k, OfCode(x)) = Mass(q, k, OfCode(x))
             /\ Mass(r, k, OfClient(x)) = Mass(q, k, OfClient(x))
  BY <1>3, WeightsAreWeights
<1>6. Mass(r, k, One) = Mass(q, k, One) /\ Mass(r, k, Ms) = Mass(q, k, Ms)
  BY <1>3, WeightsAreWeights
<1>7. Tallied(k, row, r)
  BY <1>4, <1>5, <1>6 DEF Tallied
<1> QED
  BY <1>7 DEF r, t

\* The row a line is counted in.
RowKey(kind, x) == <<x.site, kind, Start(kind, x.line.at)>>

\* There is a row for each key of a line, and it says what its lines say.
RowsAgree(q, table) ==
  /\ DOMAIN table = {RowKey(kind, q[i]) : kind \in Kinds, i \in 1..Len(q)}
  /\ \A k \in DOMAIN table : Tallied(k, table[k], q)

\* collect_proxy keeps rows and lines in step, whatever the batch is.
LEMMA RowsGrow ==
  ASSUME NEW q \in Seq(Seen), NEW s \in Sites, NEW lines \in Seq(LineType), RowsAgree(q, aggregates), Collect(s, lines)
  PROVE  RowsAgree(q \o At(s, lines), aggregates')
<1> DEFINE touched == {<<s, kind, Start(kind, lines[i].at)>> : kind \in Kinds, i \in DOMAIN lines}
           r == q \o At(s, lines)
           NewKeys == {RowKey(kind, r[i]) : kind \in Kinds, i \in 1..Len(r)}
<1>1. aggregates' = [k \in DOMAIN aggregates \cup touched |->
                       IF k \in touched THEN UpsertAggregate(k, Bucket(lines, k)) ELSE aggregates[k]]
  BY DEF Collect
<1>2. /\ Len(q) \in Nat /\ Len(lines) \in Nat
      /\ \A i \in 1..Len(q) : r[i] = q[i] /\ i \in 1..Len(r)
      /\ \A j \in 1..Len(lines) : r[Len(q) + j] = [site |-> s, line |-> lines[j]] /\ Len(q) + j \in 1..Len(r)
      /\ \A i \in 1..Len(r) : i \in 1..Len(q) \/ \E j \in 1..Len(lines) : i = Len(q) + j
  BY LinesJoin
<1>3. DOMAIN lines = 1..Len(lines) /\ Len(r) = Len(q) + Len(lines)
  BY LinesJoin
<1>4. \A j \in 1..Len(lines) : \A kind : RowKey(kind, r[Len(q) + j]) = <<s, kind, Start(kind, lines[j].at)>>
  <2>1. ASSUME NEW j \in 1..Len(lines), NEW kind PROVE RowKey(kind, r[Len(q) + j]) = <<s, kind, Start(kind, lines[j].at)>>
    <3>1. r[Len(q) + j] = [site |-> s, line |-> lines[j]]
      BY <1>2
    <3> HIDE DEF r
    <3> QED
      BY <3>1 DEF RowKey
  <2> QED
    BY <2>1
<1> HIDE DEF r
<1>5. DOMAIN aggregates \cup touched = NewKeys
  <2>1. DOMAIN aggregates = {RowKey(kind, q[i]) : kind \in Kinds, i \in 1..Len(q)}
    BY DEF RowsAgree
  <2>2. \A k \in DOMAIN aggregates : k \in NewKeys
    BY <1>2, <2>1
  <2>3. ASSUME NEW k \in touched PROVE k \in NewKeys
    <3>1. PICK kind \in Kinds, j \in DOMAIN lines : k = <<s, kind, Start(kind, lines[j].at)>>
      OBVIOUS
    <3>2. j \in 1..Len(lines) /\ Len(q) + j \in 1..Len(r)
      <4>1. j \in 1..Len(lines)
        BY <1>3, <3>1
      <4> QED
        <5>1. Len(r) = Len(q) + Len(lines) /\ Len(q) \in Nat /\ Len(lines) \in Nat
          BY <1>2, <1>3
        <5> QED
          BY <4>1, <5>1
    <3>3. k = RowKey(kind, r[Len(q) + j])
      BY <1>4, <3>1, <3>2
    <3> QED
      BY <3>2, <3>3
  <2>4. ASSUME NEW kind \in Kinds, NEW i \in 1..Len(r)
        PROVE  RowKey(kind, r[i]) \in DOMAIN aggregates \cup touched
    <3>1. CASE i \in 1..Len(q)
      BY <1>2, <2>1, <3>1
    <3>2. ASSUME NEW j \in 1..Len(lines), i = Len(q) + j PROVE RowKey(kind, r[i]) \in touched
      <4>1. RowKey(kind, r[i]) = <<s, kind, Start(kind, lines[j].at)>> /\ j \in DOMAIN lines
        BY <1>3, <1>4, <3>2
      <4> QED
        BY <4>1
    <3> QED
      BY <1>2, <3>1, <3>2
  <2> QED
    BY <2>2, <2>3, <2>4
<1>6. ASSUME NEW k \in touched PROVE Tallied(k, UpsertAggregate(k, Bucket(lines, k)), r)
  <2>1. k[1] = s
    OBVIOUS
  <2>2. CASE k \in DOMAIN aggregates
    <3>1. Tallied(k, aggregates[k], q)
      BY <2>2 DEF RowsAgree
    <3>2. Tallied(k, Added(aggregates[k], Bucket(lines, k)), r)
      BY <2>1, <3>1, TallyAdds DEF r
    <3> QED
      BY <2>2, <3>2 DEF UpsertAggregate
  <2>3. CASE k \notin DOMAIN aggregates
    <3>1. PICK kind \in Kinds : k[2] = kind /\ k = <<s, kind, k[3]>>
      OBVIOUS
    <3>2. ASSUME NEW i \in 1..Len(q), OfKey(k, q[i]) PROVE FALSE
      <4>1. RowKey(kind, q[i]) = k
        BY <3>1, <3>2 DEF OfKey, RowKey, Fits
      <4> QED
        BY <2>3, <4>1 DEF RowsAgree
    <3>3. NoneOf(k, q)
      BY <3>2 DEF NoneOf
    <3>4. Tallied(k, NewRow(Bucket(lines, k)), r)
      BY <2>1, <3>3, TallyNew DEF r
    <3> QED
      BY <2>3, <3>4 DEF UpsertAggregate
  <2> QED
    BY <2>2, <2>3
<1>7. ASSUME NEW k \in DOMAIN aggregates, k \notin touched PROVE Tallied(k, aggregates[k], r)
  <2>1. Tallied(k, aggregates[k], q)
    BY DEF RowsAgree
  <2>2. PICK kind \in Kinds : \E i \in 1..Len(q) : k = RowKey(kind, q[i])
    BY DEF RowsAgree
  <2>3. k[2] = kind /\ k = <<k[1], kind, k[3]>>
    BY <2>2 DEF RowKey
  <2>4. ASSUME NEW j \in 1..Len(At(s, lines)), OfKey(k, At(s, lines)[j]) PROVE FALSE
    <3>1. j \in 1..Len(lines) /\ At(s, lines)[j] = [site |-> s, line |-> lines[j]]
      <4>1. Len(At(s, lines)) = Len(lines)
        BY DEF At
      <4> QED
        BY <1>3, <4>1 DEF At
    <3>2. k[1] = s /\ k[3] = Start(kind, lines[j].at)
      BY <2>3, <2>4, <3>1 DEF OfKey, Fits
    <3> QED
      BY <1>3, <1>7, <2>3, <3>1, <3>2
  <2>5. NoneOf(k, At(s, lines))
    BY <2>4 DEF NoneOf
  <2> QED
    BY <2>1, <2>5, TallyKeeps DEF r
<1> HIDE DEF touched, NewKeys
<1>8. DOMAIN aggregates' = NewKeys
  BY <1>1, <1>5
<1>9. ASSUME NEW k \in DOMAIN aggregates' PROVE Tallied(k, aggregates'[k], r)
  <2>1. CASE k \in touched
    <3>1. aggregates'[k] = UpsertAggregate(k, Bucket(lines, k))
      BY <1>1, <2>1
    <3> QED
      BY <1>6, <2>1, <3>1
  <2>2. CASE k \notin touched
    <3>1. k \in DOMAIN aggregates /\ aggregates'[k] = aggregates[k]
      BY <1>1, <2>2
    <3> QED
      BY <1>7, <2>2, <3>1
  <2> QED
    BY <2>1, <2>2
<1>10. RowsAgree(r, aggregates')
  BY <1>8, <1>9 DEF RowsAgree, NewKeys
<1> QED
  BY <1>10 DEF r

-----------------------------------------------------------------------------
(* Events *)

\* The event of a collected line.
Happening(x) == Event(x.site, x.line)

EventSet == {Event(s, l) : s \in Sites, l \in LineType}

\* Events are in the order of their lines, and each is of a line of its own.
Drawn(ev, q, e) ==
  /\ e \in [1..Len(ev) -> 1..Len(q)]
  /\ \A i, j \in 1..Len(ev) : i < j => e[i] < e[j]
  /\ \A j \in 1..Len(ev) : ev[j] = Happening(q[e[j]])

\* Events are drawn from the lines, and all of them are if the rate is 1.
EventsFollow(ev, q, r) ==
  /\ \E e : Drawn(ev, q, e)
  /\ r = 1 => Len(ev) = Len(q) /\ \A j \in 1..Len(q) : ev[j] = Happening(q[j])

\* Every r-th line: their places rise, and they are all lines if r is 1.
LEMMA Sampling ==
  ASSUME NEW r \in Nat \ {0}, NEW lines \in Seq(LineType), NEW n, n = Len(lines) \div r
  PROVE  /\ n \in Nat
         /\ \A i \in 1..n : i * r \in 1..Len(lines)
         /\ \A i, j \in 1..n : i < j => i * r < j * r
         /\ r = 1 => n = Len(lines) /\ \A i \in 1..n : i * r = i
<1> DEFINE L == Len(lines)
<1>1. L \in Nat
  OBVIOUS
<1> HIDE DEF L
<1>2. n = L \div r
  BY DEF L
<1>3. n \in Nat /\ n * r <= L
  <2>1. L \div r \in Nat
    BY <1>1
  <2>2. (L \div r) * r <= L
    BY <1>1
  <2> QED
    BY <1>2, <2>1, <2>2
<1>4. ASSUME NEW i \in 1..n PROVE i * r \in 1..L
  <2>1. i \in Nat \ {0} /\ i <= n
    BY <1>3
  <2>2. i * r <= n * r
    BY <1>3, <2>1, TimesGrows
  <2>3. i * r \in Nat \ {0}
    BY <2>1, TimesPositive
  <2>4. n * r \in Int
    BY <1>3
  <2> DEFINE x == i * r  y == n * r
  <2>5. x \in Nat \ {0} /\ y \in Int /\ x <= y /\ y <= L
    BY <1>3, <2>2, <2>3, <2>4
  <2> HIDE DEF x, y
  <2>6. x \in 1..L
    BY <1>1, <2>5
  <2> QED
    BY <2>6 DEF x
<1>5. ASSUME NEW i \in 1..n, NEW j \in 1..n, i < j PROVE i * r < j * r
  <2>1. i \in Nat /\ j \in Nat
    BY <1>3
  <2> QED
    BY <1>5, <2>1
<1>6. ASSUME r = 1 PROVE n = L /\ \A i \in 1..n : i * r = i
  <2>1. L \div 1 = L
    BY <1>1
  <2>2. \A i \in 1..n : i * 1 = i
    BY <1>3
  <2> QED
    BY <1>2, <1>6, <2>1, <2>2
<1> QED
  BY <1>3, <1>4, <1>5, <1>6 DEF L

\* The events of a collection.
Picked(s, lines, r) == [i \in 1..(Len(lines) \div r) |-> Event(s, lines[i * r])]

\* collect_proxy draws its events after the earlier ones.
LEMMA EventsGrow ==
  ASSUME NEW r \in Nat \ {0}, NEW q \in Seq(Seen), NEW ev \in Seq(EventSet), EventsFollow(ev, q, r),
         NEW s \in Sites, NEW lines \in Seq(LineType)
  PROVE  /\ ev \o Picked(s, lines, r) \in Seq(EventSet)
         /\ EventsFollow(ev \o Picked(s, lines, r), q \o At(s, lines), r)
<1> DEFINE n == Len(lines) \div r
           m == Len(ev)
           p == Len(q)
           L == Len(lines)
           u == Picked(s, lines, r)
           ev2 == ev \o u
           q2 == q \o At(s, lines)
<1>1. /\ n \in Nat
      /\ \A i \in 1..n : i * r \in 1..L
      /\ \A i, j \in 1..n : i < j => i * r < j * r
      /\ r = 1 => n = L /\ \A i \in 1..n : i * r = i
  <2>1. n = Len(lines) \div r
    OBVIOUS
  <2> HIDE DEF n
  <2> QED
    BY <2>1, Sampling
<1>2. /\ Len(q2) = p + L /\ p \in Nat /\ L \in Nat
      /\ \A i \in 1..p : q2[i] = q[i]
      /\ \A j \in 1..L : q2[p + j] = [site |-> s, line |-> lines[j]]
  BY LinesJoin
<1>3. u \in Seq(EventSet) /\ Len(u) = n /\ \A i \in 1..n : u[i] = Event(s, lines[i * r])
  <2>1. \A j \in 1..L : lines[j] \in LineType
    OBVIOUS
  <2>2. \A i \in 1..n : Event(s, lines[i * r]) \in EventSet
    <3> HIDE DEF n, L
    <3> QED
      BY <1>1, <2>1 DEF EventSet
  <2>3. u = [i \in 1..n |-> Event(s, lines[i * r])]
    BY DEF Picked
  <2> HIDE DEF n, L, u
  <2>4. u \in [1..n -> EventSet]
    BY <2>2, <2>3
  <2>5. u \in Seq(EventSet)
    BY <1>1, <2>4
  <2>6. Len(u) = n
    BY <1>1, <2>3
  <2> QED
    BY <2>3, <2>5, <2>6
<1> HIDE DEF u, n
<1>4. /\ ev2 \in Seq(EventSet) /\ Len(ev2) = m + n /\ m \in Nat
      /\ \A j \in 1..m : ev2[j] = ev[j]
      /\ \A i \in 1..n : ev2[m + i] = Event(s, lines[i * r])
  <2>1. ev2 \in Seq(EventSet) /\ Len(ev2) = Len(ev) + Len(u) /\ Len(ev) \in Nat
    <3>1. Len(ev) \in Nat
      OBVIOUS
    <3> QED
      BY <1>3, <3>1, ConcatProperties
  <2>2. \A j \in 1..Len(ev) : (ev \o u)[j] = ev[j]
    BY <1>3
  <2>3. ASSUME NEW i \in 1..Len(u) PROVE (ev \o u)[Len(ev) + i] = u[i]
    <3>1. Len(u) \in Nat /\ Len(ev) \in Nat
      BY <1>3
    <3>2. Len(ev) + i \in 1..(Len(ev) + Len(u)) /\ ~(Len(ev) + i <= Len(ev)) /\ (Len(ev) + i) - Len(ev) = i
      BY <3>1
    <3> QED
      BY <1>3, <3>2, ConcatProperties
  <2> QED
    BY <1>3, <2>1, <2>2, <2>3
<1> HIDE DEF q2, ev2, m, p, L
<1>5. PICK e : Drawn(ev, q, e)
  BY DEF EventsFollow
<1>6. /\ \A j \in 1..m : e[j] \in 1..p /\ ev[j] = Happening(q[e[j]])
      /\ \A i, j \in 1..m : i < j => e[i] < e[j]
  BY <1>5 DEF Drawn, m, p
<1>7. \A i \in 1..L : Happening(q2[p + i]) = Event(s, lines[i])
  <2>1. ASSUME NEW i \in 1..L PROVE Happening(q2[p + i]) = Event(s, lines[i])
    <3>1. q2[p + i] = [site |-> s, line |-> lines[i]]
      BY <1>2
    <3> QED
      BY <3>1 DEF Happening
  <2> QED
    BY <2>1
<1>8. \E f : Drawn(ev2, q2, f)
  <2> DEFINE f == [j \in 1..(m + n) |-> IF j <= m THEN e[j] ELSE p + (j - m) * r]
  <2>0. \A j \in 1..(m + n) : j \in 1..m \/ (~(j <= m) /\ j - m \in 1..n /\ j = m + (j - m))
    BY <1>1, <1>4
  <2>1. ASSUME NEW j \in 1..(m + n)
        PROVE  f[j] \in 1..(p + L) /\ ev2[j] = Happening(q2[f[j]])
    <3>1. CASE j \in 1..m
      <4>1. f[j] = e[j] /\ e[j] \in 1..p
        BY <1>4, <1>6, <3>1
      <4> HIDE DEF f
      <4>2. f[j] \in 1..(p + L)
        BY <1>2, <4>1
      <4>3. ev2[j] = Happening(q[e[j]]) /\ q2[f[j]] = q[e[j]]
        BY <1>2, <1>4, <1>6, <3>1, <4>1
      <4> QED
        BY <4>2, <4>3
    <3>2. CASE ~(j <= m) /\ j - m \in 1..n /\ j = m + (j - m)
      <4> DEFINE i == j - m
      <4>1. i \in 1..n /\ j = m + i /\ f[j] = p + i * r
        BY <3>2
      <4> HIDE DEF f, i
      <4>2. i * r \in 1..L
        BY <1>1, <4>1
      <4>3. ev2[j] = Event(s, lines[i * r])
        BY <1>4, <4>1
      <4>4. Happening(q2[f[j]]) = Event(s, lines[i * r])
        BY <1>7, <4>1, <4>2
      <4>5. f[j] \in 1..(p + L)
        <5> DEFINE x == i * r
        <5>1. x \in 1..L /\ f[j] = p + x
          BY <4>1, <4>2
        <5> HIDE DEF x
        <5> QED
          BY <1>2, <5>1
      <4> QED
        BY <4>3, <4>4, <4>5
    <3> QED
      BY <2>0, <3>1, <3>2
  <2>2. ASSUME NEW j \in 1..(m + n), NEW k \in 1..(m + n), j < k PROVE f[j] < f[k]
    <3>1. CASE k \in 1..m
      <4>1. j \in 1..m /\ f[j] = e[j] /\ f[k] = e[k]
        BY <1>4, <2>2, <3>1
      <4> QED
        BY <1>6, <2>2, <3>1, <4>1
    <3>2. CASE ~(k <= m) /\ k - m \in 1..n
      <4>0. (k - m) * r \in 1..L
        BY <1>1, <3>2
      <4>1. f[k] = p + (k - m) * r
        BY <3>2
      <4>2. CASE j \in 1..m
        <5>1. f[j] = e[j] /\ e[j] \in 1..p
          BY <1>4, <1>6, <4>2
        <5> DEFINE x == (k - m) * r
        <5>2. x \in 1..L /\ f[k] = p + x
          BY <4>0, <4>1
        <5> HIDE DEF x, f
        <5> QED
          BY <1>2, <5>1, <5>2
      <4>3. CASE ~(j <= m) /\ j - m \in 1..n
        <5>1. f[j] = p + (j - m) * r /\ (j - m) * r \in 1..L
          BY <1>1, <4>3
        <5>2. j - m < k - m
          BY <1>1, <1>4, <2>2
        <5>3. (j - m) * r < (k - m) * r
          BY <1>1, <3>2, <4>3, <5>2
        <5> DEFINE x == (k - m) * r  y == (j - m) * r
        <5>4. x \in 1..L /\ y \in 1..L /\ y < x /\ f[k] = p + x /\ f[j] = p + y
          BY <4>0, <4>1, <5>1, <5>3
        <5> HIDE DEF x, y, f
        <5> QED
          BY <1>2, <5>4
      <4> QED
        BY <2>0, <4>2, <4>3
    <3> QED
      BY <2>0, <3>1, <3>2
  <2>3. DOMAIN f = 1..(m + n)
    OBVIOUS
  <2>4. f \in [1..(m + n) -> 1..(p + L)]
    <3>1. \A j \in 1..(m + n) : (IF j <= m THEN e[j] ELSE p + (j - m) * r) \in 1..(p + L)
      BY <2>1
    <3> QED
      BY <3>1
  <2>5. Drawn(ev2, q2, f)
    <3> HIDE DEF f
    <3> QED
      BY <1>2, <1>4, <2>1, <2>2, <2>4 DEF Drawn
  <2> QED
    BY <2>5
<1>9. ASSUME r = 1
      PROVE  Len(ev2) = Len(q2) /\ \A j \in 1..Len(q2) : ev2[j] = Happening(q2[j])
  <2>1. m = p /\ \A j \in 1..p : ev[j] = Happening(q[j])
    BY <1>9 DEF EventsFollow, m, p
  <2>2. n = L /\ \A i \in 1..n : i * r = i
    BY <1>1, <1>9
  <2>3. ASSUME NEW j \in 1..(p + L) PROVE ev2[j] = Happening(q2[j])
    <3>1. CASE j \in 1..p
      <4>1. ev2[j] = ev[j] /\ q2[j] = q[j]
        BY <1>2, <1>4, <2>1, <3>1
      <4> QED
        BY <2>1, <3>1, <4>1
    <3>2. CASE j \notin 1..p
      <4> DEFINE i == j - p
      <4>1. i \in 1..L /\ j = p + i
        BY <1>2, <3>2
      <4> HIDE DEF i
      <4>2. ev2[m + i] = Event(s, lines[i])
        BY <1>4, <2>2, <4>1
      <4> QED
        BY <1>7, <2>1, <4>1, <4>2
    <3> QED
      BY <3>1, <3>2
  <2> QED
    BY <1>2, <1>4, <2>1, <2>2, <2>3
<1>10. EventsFollow(ev2, q2, r)
  BY <1>8, <1>9 DEF EventsFollow
<1> QED
  BY <1>4, <1>10 DEF ev2, q2, u

-----------------------------------------------------------------------------
(* The invariant of the statistics *)

\* Rows are tallied from the lines, and events drawn from them.
StatInv ==
  /\ tick \in Nat /\ rate \in Rates /\ listed \in SUBSET Sites
  /\ seen \in Seq(Seen) /\ events \in Seq(EventSet)
  /\ RowsAgree(seen, aggregates)
  /\ EventsFollow(events, seen, rate)

\* A batch is a sequence of lines.
LEMMA BatchesAreLines ==
  ASSUME tick \in Nat, NEW b \in Batches
  PROVE  b \in Seq(LineType)
<1>1. PICK n \in 1..MaxBatch : b \in [1..n -> Line]
  BY DEF Batches
<1>2. Line \subseteq LineType
  <2>1. ASSUME NEW q \in Requests, NEW t \in 0..tick
        PROVE  [status |-> q.status, client |-> q.client, ms |-> q.ms, at |-> t] \in LineType
    <3>1. q.client \in Clients /\ q.ms \in Nat \cup {Untimed} /\ q.status \in Statuses
      BY StatisticsConstants DEF Statuses
    <3>2. t \in Nat
      OBVIOUS
    <3> QED
      BY <3>1, <3>2 DEF LineType
  <2> QED
    BY <2>1 DEF Line
<1>3. n \in Nat
  BY StatisticsConstants
<1>4. b \in [1..n -> LineType]
  BY <1>1, <1>2
<1> QED
  BY <1>3, <1>4

\* Without lines there are neither rows nor events.
LEMMA StatInvStarts == StatInit => StatInv
<1> SUFFICES ASSUME StatInit PROVE StatInv
  OBVIOUS
<1> USE DEF StatInit
<1>1. tick \in Nat /\ rate \in Rates /\ listed \in SUBSET Sites /\ seen \in Seq(Seen) /\ events \in Seq(EventSet)
  OBVIOUS
<1>2. RowsAgree(seen, aggregates)
  <2>1. Len(seen) = 0 /\ DOMAIN aggregates = {}
    OBVIOUS
  <2> QED
    BY <2>1 DEF RowsAgree
<1>3. EventsFollow(events, seen, rate)
  <2>1. Len(seen) = 0 /\ Len(events) = 0
    OBVIOUS
  <2>2. Drawn(events, seen, [j \in 1..0 |-> 0])
    BY <2>1 DEF Drawn
  <2> QED
    BY <2>1, <2>2 DEF EventsFollow
<1> QED
  BY <1>1, <1>2, <1>3 DEF StatInv

\* Every step keeps it: sites come and go without their rows and events, and a
\* collection adds lines, rows and events at once.
LEMMA StatInvKept == StatInv /\ [StatNext]_statVars => StatInv'
<1> SUFFICES ASSUME StatInv, [StatNext]_statVars PROVE StatInv'
  OBVIOUS
<1>0. /\ tick \in Nat /\ rate \in Rates /\ listed \in SUBSET Sites
      /\ seen \in Seq(Seen) /\ events \in Seq(EventSet)
      /\ RowsAgree(seen, aggregates)
      /\ EventsFollow(events, seen, rate)
  BY DEF StatInv
<1>1. CASE UNCHANGED statVars
  BY <1>0, <1>1 DEF statVars, StatInv
<1>2. CASE Tick
  <2>1. tick' \in Nat /\ UNCHANGED <<rate, events, aggregates, listed, seen>>
    BY <1>0, <1>2 DEF Tick
  <2> QED
    BY <1>0, <2>1 DEF StatInv
<1>3. ASSUME NEW s \in listed, NEW b \in Batches, Collect(s, b) PROVE StatInv'
  <2>1. b \in Seq(LineType) /\ s \in Sites /\ rate \in Nat \ {0}
    BY <1>0, BatchesAreLines, StatisticsConstants
  <2>2. /\ events' = events \o Picked(s, b, rate)
        /\ seen' = seen \o At(s, b)
        /\ UNCHANGED <<tick, rate, listed>>
    BY <1>3 DEF Collect, Picked, At
  <2>3. RowsAgree(seen', aggregates')
    BY <1>0, <1>3, <2>1, <2>2, RowsGrow
  <2>4. events' \in Seq(EventSet) /\ EventsFollow(events', seen', rate)
    BY <1>0, <2>1, <2>2, EventsGrow
  <2>5. seen' \in Seq(Seen)
    BY <1>0, <2>1, <2>2, LinesJoin
  <2> QED
    BY <1>0, <2>2, <2>3, <2>4, <2>5 DEF StatInv
<1>4. ASSUME NEW s \in Sites, DeleteSite(s) \/ CreateSite(s), UNCHANGED <<tick, rate, events, aggregates, seen>>
      PROVE  StatInv'
  <2>1. listed' \in SUBSET Sites
    BY <1>0, <1>4 DEF DeleteSite, CreateSite
  <2> QED
    BY <1>0, <1>4, <2>1 DEF StatInv
<1> QED
  BY <1>1, <1>2, <1>3, <1>4 DEF StatNext

\* At any time the rows are a tally of the lines collected so far, one per site
\* and period, and the events are lines drawn in order.
THEOREM StatInvHolds == StatSpec => []StatInv
  BY StatInvStarts, StatInvKept, PTL DEF StatSpec

-----------------------------------------------------------------------------
(* What pages add up *)

\* The rows of K are all of one kind.
OneKind(kind, K) == \A k \in K : k = <<k[1], kind, k[3]>>

\* What each line weighs for a page: nothing if its row is not on it.
OnPage(q, kind, K, v) == [i \in 1..Len(q) |-> IF RowKey(kind, q[i]) \in K THEN v[q[i].line] ELSE 0]

\* There are finitely many rows.
LEMMA RowsAreFinite ==
  ASSUME NEW q \in Seq(Seen), NEW table, RowsAgree(q, table)
  PROVE  IsFiniteSet(DOMAIN table)
<1> DEFINE P == Kinds \X (1..Len(q))
           f == [p \in P |-> RowKey(p[1], q[p[2]])]
<1>1. IsFiniteSet(P)
  <2>1. IsFiniteSet(Kinds)
    <3>1. IsFiniteSet({}) /\ IsFiniteSet({} \cup {"hour"}) /\ IsFiniteSet(({} \cup {"hour"}) \cup {"minute"})
      BY FS_EmptySet, FS_AddElement
    <3>2. Kinds = ({} \cup {"hour"}) \cup {"minute"}
      BY DEF Kinds
    <3> QED
      BY <3>1, <3>2
  <2>2. IsFiniteSet(1..Len(q))
    <3>1. Len(q) \in Nat
      OBVIOUS
    <3> QED
      BY <3>1, FS_Interval
  <2> QED
    BY <2>1, <2>2, FS_Product
<1>2. DOMAIN table = {f[p] : p \in P}
  <2>1. DOMAIN table = {RowKey(kind, q[i]) : kind \in Kinds, i \in 1..Len(q)}
    BY DEF RowsAgree
  <2>2. ASSUME NEW kind \in Kinds, NEW i \in 1..Len(q) PROVE RowKey(kind, q[i]) \in {f[p] : p \in P}
    <3>1. <<kind, i>> \in P /\ f[<<kind, i>>] = RowKey(kind, q[i])
      OBVIOUS
    <3> QED
      BY <3>1
  <2>3. ASSUME NEW p \in P PROVE f[p] \in DOMAIN table
    <3>1. p[1] \in Kinds /\ p[2] \in 1..Len(q) /\ f[p] = RowKey(p[1], q[p[2]])
      OBVIOUS
    <3> QED
      BY <2>1, <3>1
  <2> HIDE DEF f, P
  <2>4. \A k \in DOMAIN table : k \in {f[p] : p \in P}
    BY <2>1, <2>2
  <2>5. \A k \in {f[p] : p \in P} : k \in DOMAIN table
    BY <2>3
  <2> QED
    BY <2>4, <2>5
<1>3. f \in Surjection(P, DOMAIN table)
  <2>1. f \in [P -> DOMAIN table]
    BY <1>2
  <2> HIDE DEF f, P
  <2> QED
    BY <1>2, <2>1 DEF Surjection
<1> QED
  <2> HIDE DEF f, P
  <2> QED
    BY <1>1, <1>3, FS_Surjection

\* The rows of a page hold what its lines weigh.
LEMMA PageMass ==
  ASSUME NEW q \in Seq(Seen), NEW kind, NEW K, IsFiniteSet(K), OneKind(kind, K), NEW v \in Weights,
         NEW f, \A k \in K : f[k] = Mass(q, k, v)
  PROVE  SumOver(f, K) = SumOver(OnPage(q, kind, K, v), 1..Len(q))
<1> DEFINE N == 1..Len(q)
           P(T) == OnPage(q, kind, T, v)
           Good == {T \in SUBSET K : SumOver(f, T) = SumOver(P(T), N)}
<1>0. /\ IsFiniteSet(N) /\ \A i \in N : q[i].line \in LineType
      /\ \A k : Mass(q, k, v) \in Int
      /\ \A k : \A i \in N : Weight(q, k, v)[i] \in Int
  <2>1. \A i \in N : q[i] \in Seen
    OBVIOUS
  <2>2. \A i \in N : q[i].line \in LineType
    BY <2>1 DEF Seen
  <2> QED
    BY <2>2, WeightType
<1>1. {} \in Good
  <2>1. \A i \in N : P({})[i] = 0
    BY DEF OnPage
  <2>2. SumOver(P({}), N) = 0
    <3> HIDE DEF P, N
    <3> QED
      BY <1>0, <2>1, SumOfZeros
  <2> QED
    BY <2>2, SumOfNone
<1>2. ASSUME NEW T \in SUBSET K, NEW x \in K \ T, T \in Good PROVE T \cup {x} \in Good
  <2>1. IsFiniteSet(T)
    BY FS_Subset
  <2>2. \A k \in K : f[k] \in Int
    BY <1>0
  <2>3. SumOver(f, T \cup {x}) = SumOver(f, T) + f[x]
    BY <2>1, <2>2, SumGrows
  <2>4. ASSUME NEW i \in N
        PROVE  /\ P(T)[i] \in Int /\ Weight(q, x, v)[i] \in Int
               /\ P(T \cup {x})[i] = P(T)[i] + Weight(q, x, v)[i]
    <3>0. v[q[i].line] \in Int
      BY <1>0 DEF Weights
    <3>1. x = <<x[1], kind, x[3]>>
      BY DEF OneKind
    <3>2. OfKey(x, q[i]) <=> RowKey(kind, q[i]) = x
      BY <3>1 DEF OfKey, RowKey, Fits
    <3>3. P(T)[i] = IF RowKey(kind, q[i]) \in T THEN v[q[i].line] ELSE 0
      BY DEF OnPage
    <3>4. P(T \cup {x})[i] = IF RowKey(kind, q[i]) \in T \cup {x} THEN v[q[i].line] ELSE 0
      BY DEF OnPage
    <3>5. Weight(q, x, v)[i] = IF RowKey(kind, q[i]) = x THEN v[q[i].line] ELSE 0
      BY <3>2 DEF Weight
    <3> HIDE DEF P
    <3> QED
      BY <3>0, <3>3, <3>4, <3>5
  <2>5. SumOver(P(T \cup {x}), N) = SumOver(P(T), N) + SumOver(Weight(q, x, v), N)
    <3> HIDE DEF P, N
    <3> QED
      BY <1>0, <2>4, SumPlus
  <2>6. f[x] = SumOver(Weight(q, x, v), N)
    BY DEF Mass
  <2> HIDE DEF P, N
  <2> QED
    BY <1>2, <2>3, <2>5, <2>6
<1>3. K \in Good
  <2> HIDE DEF Good
  <2> QED
    BY <1>1, <1>2, GrowingInduction
<1> QED
  BY <1>3

\* Counters of a page count its lines.
LEMMA PageCount ==
  ASSUME NEW q \in Seq(Seen), NEW kind, NEW K, IsFiniteSet(K), OneKind(kind, K), NEW v \in Weights,
         NEW f, \A k \in K : f[k] = Mass(q, k, v),
         NEW A \in SUBSET (1..Len(q)),
         \A i \in 1..Len(q) : i \in A <=> RowKey(kind, q[i]) \in K /\ v[q[i].line] = 1,
         \A l \in LineType : v[l] \in {0, 1}
  PROVE  SumOver(f, K) = Cardinality(A)
<1>1. IsFiniteSet(1..Len(q)) /\ \A i \in 1..Len(q) : q[i].line \in LineType
  <2>1. \A i \in 1..Len(q) : q[i] \in Seen
    OBVIOUS
  <2> QED
    BY <2>1, WeightType DEF Seen
<1>2. SumOver(f, K) = SumOver(OnPage(q, kind, K, v), 1..Len(q))
  BY PageMass
<1>3. \A i \in 1..Len(q) : OnPage(q, kind, K, v)[i] = IF i \in A THEN 1 ELSE 0
  BY <1>1 DEF OnPage
<1> QED
  BY <1>1, <1>2, <1>3, SumCounts

\* The average of a page is a sum of the rows' averages.
LEMMA AverageFolds ==
  ASSUME NEW K, IsFiniteSet(K),
         \A k \in K : aggregates[k].avg \in Fraction /\ aggregates[k].requests \in Nat
  PROVE  \E g : /\ \A s \in SUBSET K : g[s] = IF s = {} THEN <<0, 1>> ELSE
                     LET c == Some(s)
                     IN  <<g[s \ {c}][1] * aggregates[c].avg[2]
                             + aggregates[c].avg[1] * aggregates[c].requests * g[s \ {c}][2],
                           g[s \ {c}][2] * aggregates[c].avg[2]>>
                /\ AverageOf(K) = <<g[K][1], g[K][2] * Larger(1, Total(K))>>
<1> DEFINE Plus(k, x) == <<x[1] * aggregates[k].avg[2] + aggregates[k].avg[1] * aggregates[k].requests * x[2],
                           x[2] * aggregates[k].avg[2]>>
           F == [p \in K \X Fraction |-> Plus(p[1], p[2])]
           Rec(g) == g = [s \in SUBSET K |-> IF s = {} THEN <<0, 1>> ELSE Plus(Some(s), g[s \ {Some(s)}])]
<1>1. \A k \in K, x \in Fraction : Plus(k, x) \in Fraction
  BY FractionsAdd
<1>2. F \in [K \X Fraction -> Fraction]
  <2>1. \A p \in K \X Fraction : Plus(p[1], p[2]) \in Fraction
    <3>1. \A p \in K \X Fraction : p[1] \in K /\ p[2] \in Fraction
      OBVIOUS
    <3> HIDE DEF Plus
    <3> QED
      BY <1>1, <3>1
  <2> HIDE DEF Plus
  <2> QED
    BY <2>1
<1>3. PICK h : FoldsTo(F, <<0, 1>>, K, Fraction, h)
  <2>1. <<0, 1>> \in Fraction
    BY DEF Fraction
  <2> HIDE DEF F
  <2> QED
    BY <1>2, <2>1, FoldExists
<1> HIDE DEF Plus
<1>4. Rec(h)
  <2>1. \A s \in SUBSET K : s # {} => Some(s) \in K /\ h[s \ {Some(s)}] \in Fraction
    BY <1>3 DEF Some, FoldsTo
  <2>2. \A s \in SUBSET K : s # {} => F[<<Some(s), h[s \ {Some(s)}]>>] = Plus(Some(s), h[s \ {Some(s)}])
    BY <2>1
  <2>3. \A s \in SUBSET K : h[s] = IF s = {} THEN <<0, 1>> ELSE Plus(Some(s), h[s \ {Some(s)}])
    <3> HIDE DEF F
    <3> QED
      BY <1>3, <2>2 DEF FoldsTo
  <2> QED
    BY <1>3, <2>3 DEF FoldsTo
<1>5. PICK g : g = (CHOOSE f : Rec(f))
  OBVIOUS
<1>6. Rec(g)
  <2> HIDE DEF Rec
  <2> QED
    BY <1>4, <1>5
<1>7. AverageOf(K) = <<g[K][1], g[K][2] * Larger(1, Total(K))>>
  BY <1>5 DEF AverageOf, MapThenFoldSet, Some, Plus
<1>8. \A s \in SUBSET K : g[s] = IF s = {} THEN <<0, 1>> ELSE Plus(Some(s), g[s \ {Some(s)}])
  BY <1>6
<1> HIDE DEF Rec
<1> QED
  BY <1>7, <1>8 DEF Plus

\* The rows of a range are of one kind, and the lines of the range are those
\* whose row is among them.
LEMMA RangeKeys ==
  ASSUME StatInv, NEW range \in Ranges, NEW sites \in SUBSET Sites
  PROVE  LET K == InRange(sites, range)
         IN  /\ range.kind \in Kinds /\ range.ticks \in Nat
             /\ IsFiniteSet(K) /\ K \subseteq DOMAIN aggregates /\ OneKind(range.kind, K)
             /\ DOMAIN seen = 1..Len(seen) /\ Lines(sites, range) \subseteq 1..Len(seen)
             /\ \A i \in 1..Len(seen) : i \in Lines(sites, range) <=> RowKey(range.kind, seen[i]) \in K
<1> DEFINE K == InRange(sites, range)
<1>1. seen \in Seq(Seen) /\ RowsAgree(seen, aggregates)
  BY DEF StatInv
<1>2. range.kind \in Kinds /\ range.ticks \in Nat
  BY StatisticsConstants DEF Ranges, Kinds
<1>3. K \subseteq DOMAIN aggregates
  BY DEF InRange
<1>4. IsFiniteSet(K)
  <2> HIDE DEF K
  <2> QED
    BY <1>1, <1>3, RowsAreFinite, FS_Subset
<1>5. OneKind(range.kind, K)
  <2>1. ASSUME NEW k \in K PROVE k = <<k[1], range.kind, k[3]>>
    <3>1. PICK kind \in Kinds : \E i \in 1..Len(seen) : k = RowKey(kind, seen[i])
      BY <1>1, <1>3 DEF RowsAgree
    <3>2. k[2] = range.kind
      BY DEF InRange
    <3> QED
      BY <3>1, <3>2 DEF RowKey
  <2> QED
    BY <2>1 DEF OneKind
<1>6. DOMAIN seen = 1..Len(seen)
  BY <1>1
<1>7. Lines(sites, range) \subseteq 1..Len(seen)
  BY <1>6 DEF Lines
<1>8. ASSUME NEW i \in 1..Len(seen)
      PROVE  i \in Lines(sites, range) <=> RowKey(range.kind, seen[i]) \in K
  <2>1. RowKey(range.kind, seen[i]) \in DOMAIN aggregates
    BY <1>1, <1>2 DEF RowsAgree
  <2> QED
    BY <1>6, <2>1 DEF Lines, InRange, RowKey
<1> QED
  BY <1>2, <1>3, <1>4, <1>5, <1>6, <1>7, <1>8

\* K: rows of one kind; A: the lines that were counted in them.
IsPage(kind, K, A) ==
  /\ kind \in Kinds /\ IsFiniteSet(K) /\ K \subseteq DOMAIN aggregates /\ OneKind(kind, K)
  /\ A \subseteq 1..Len(seen)
  /\ \A i \in 1..Len(seen) : i \in A <=> RowKey(kind, seen[i]) \in K

\* What a page adds up over its rows is the number of its lines: all of them,
\* and by status group, code and client.
LEMMA PageTotals ==
  ASSUME StatInv, NEW kind, NEW K, NEW A, IsPage(kind, K, A)
  PROVE  /\ Total(K) = Cardinality(A)
         /\ \A g \in Groups : SumTraffic(K)[g] = Cardinality({i \in A : StatusBucket(seen[i].line.status) = g})
         /\ \A c \in Statuses : MergeStatusCodes(K)[c] = Cardinality({i \in A : seen[i].line.status = c})
         /\ \A c \in Clients : MergeTopJson(K)[c] = Cardinality({i \in A : seen[i].line.client = c})
<1>1. /\ seen \in Seq(Seen) /\ RowsAgree(seen, aggregates)
      /\ \A k \in K : Tallied(k, aggregates[k], seen)
      /\ \A i \in 1..Len(seen) : seen[i].line \in LineType
  <2>1. seen \in Seq(Seen) /\ RowsAgree(seen, aggregates)
    BY DEF StatInv
  <2>2. \A i \in 1..Len(seen) : seen[i] \in Seen
    BY <2>1
  <2> QED
    BY <2>1, <2>2 DEF RowsAgree, IsPage, Seen
<1>2. IsFiniteSet(K) /\ OneKind(kind, K) /\ A \in SUBSET (1..Len(seen))
      /\ \A i \in 1..Len(seen) : i \in A <=> RowKey(kind, seen[i]) \in K
  BY DEF IsPage
<1>3. ASSUME NEW v \in Weights, \A l \in LineType : v[l] \in {0, 1}, NEW f, \A k \in K : f[k] = Mass(seen, k, v)
      PROVE  SumOver(f, K) = Cardinality({i \in A : v[seen[i].line] = 1})
  <2> DEFINE B == {i \in A : v[seen[i].line] = 1}
  <2>1. B \in SUBSET (1..Len(seen)) /\ \A i \in 1..Len(seen) : i \in B <=> RowKey(kind, seen[i]) \in K /\ v[seen[i].line] = 1
    BY <1>2
  <2> HIDE DEF B
  <2>2. SumOver(f, K) = Cardinality(B)
    BY <1>1, <1>2, <1>3, <2>1, PageCount
  <2> QED
    BY <2>2 DEF B
<1>4. Total(K) = Cardinality(A)
  <2> DEFINE f == [k \in K |-> aggregates[k].requests]
  <2>1. \A k \in K : f[k] = Mass(seen, k, One)
    BY <1>1 DEF Tallied
  <2>2. \A l \in LineType : One[l] \in {0, 1}
    BY DEF One
  <2>3. Total(K) = SumOver(f, K)
    <3>1. [k \in K |-> f[k]] = f
      OBVIOUS
    <3> QED
      BY <3>1 DEF Total, SumOver
  <2> HIDE DEF f
  <2>4. SumOver(f, K) = Cardinality({i \in A : One[seen[i].line] = 1})
    BY <1>3, <2>1, <2>2, WeightsAreWeights
  <2>5. {i \in A : One[seen[i].line] = 1} = A
    BY <1>1, <1>2 DEF One
  <2> QED
    BY <2>3, <2>4, <2>5
<1>5. ASSUME NEW g \in Groups
      PROVE  SumTraffic(K)[g] = Cardinality({i \in A : StatusBucket(seen[i].line.status) = g})
  <2> DEFINE f == [k \in K |-> aggregates[k].groups[g]]
  <2>1. \A k \in K : f[k] = Mass(seen, k, OfGroup(g))
    BY <1>1 DEF Tallied
  <2>2. \A l \in LineType : OfGroup(g)[l] \in {0, 1}
    BY DEF OfGroup
  <2>3. SumTraffic(K)[g] = SumOver(f, K)
    <3>1. [k \in K |-> f[k]] = f
      OBVIOUS
    <3> QED
      BY <3>1 DEF SumTraffic, SumOver
  <2> HIDE DEF f
  <2>4. SumOver(f, K) = Cardinality({i \in A : OfGroup(g)[seen[i].line] = 1})
    BY <1>3, <2>1, <2>2, WeightsAreWeights
  <2>5. {i \in A : OfGroup(g)[seen[i].line] = 1} = {i \in A : StatusBucket(seen[i].line.status) = g}
    <3>1. \A i \in A : OfGroup(g)[seen[i].line] = 1 <=> StatusBucket(seen[i].line.status) = g
      BY <1>1, <1>2 DEF OfGroup
    <3> QED
      BY <3>1
  <2> QED
    BY <2>3, <2>4, <2>5
<1>6. ASSUME NEW c \in Statuses
      PROVE  MergeStatusCodes(K)[c] = Cardinality({i \in A : seen[i].line.status = c})
  <2> DEFINE f == [k \in K |-> aggregates[k].codes[c]]
  <2>1. \A k \in K : f[k] = Mass(seen, k, OfCode(c))
    BY <1>1 DEF Tallied
  <2>2. \A l \in LineType : OfCode(c)[l] \in {0, 1}
    BY DEF OfCode
  <2>3. MergeStatusCodes(K)[c] = SumOver(f, K)
    <3>1. [k \in K |-> f[k]] = f
      OBVIOUS
    <3> QED
      BY <3>1 DEF MergeStatusCodes, SumOver
  <2> HIDE DEF f
  <2>4. SumOver(f, K) = Cardinality({i \in A : OfCode(c)[seen[i].line] = 1})
    BY <1>3, <2>1, <2>2, WeightsAreWeights
  <2>5. {i \in A : OfCode(c)[seen[i].line] = 1} = {i \in A : seen[i].line.status = c}
    <3>1. \A i \in A : OfCode(c)[seen[i].line] = 1 <=> seen[i].line.status = c
      BY <1>1, <1>2 DEF OfCode
    <3> QED
      BY <3>1
  <2> QED
    BY <2>3, <2>4, <2>5
<1>7. ASSUME NEW c \in Clients
      PROVE  MergeTopJson(K)[c] = Cardinality({i \in A : seen[i].line.client = c})
  <2> DEFINE f == [k \in K |-> aggregates[k].clients[c]]
  <2>1. \A k \in K : f[k] = Mass(seen, k, OfClient(c))
    BY <1>1 DEF Tallied
  <2>2. \A l \in LineType : OfClient(c)[l] \in {0, 1}
    BY DEF OfClient
  <2>3. MergeTopJson(K)[c] = SumOver(f, K)
    <3>1. [k \in K |-> f[k]] = f
      OBVIOUS
    <3> QED
      BY <3>1 DEF MergeTopJson, SumOver
  <2> HIDE DEF f
  <2>4. SumOver(f, K) = Cardinality({i \in A : OfClient(c)[seen[i].line] = 1})
    BY <1>3, <2>1, <2>2, WeightsAreWeights
  <2>5. {i \in A : OfClient(c)[seen[i].line] = 1} = {i \in A : seen[i].line.client = c}
    <3>1. \A i \in A : OfClient(c)[seen[i].line] = 1 <=> seen[i].line.client = c
      BY <1>1, <1>2 DEF OfClient
    <3> QED
      BY <3>1
  <2> QED
    BY <2>3, <2>4, <2>5
<1> QED
  BY <1>4, <1>5, <1>6, <1>7

\* A page's average is not above any bound of its times, and exact if all its
\* lines have a time.
LEMMA PageAverage ==
  ASSUME StatInv, NEW kind, NEW K, NEW A, IsPage(kind, K, A)
  PROVE  /\ \A M \in Nat : (\A i \in A : seen[i].line.ms <= M) => NotAbove(AverageOf(K), M)
         /\ (\A i \in A : Timed(seen[i].line)) =>
              AverageOf(K)[1] * Larger(1, Cardinality(A))
                = AverageOf(K)[2] * SumFunction([i \in A |-> seen[i].line.ms])
<1>1. /\ seen \in Seq(Seen) /\ RowsAgree(seen, aggregates)
      /\ \A k \in K : Tallied(k, aggregates[k], seen)
      /\ \A i \in 1..Len(seen) : seen[i].line \in LineType
  <2>1. seen \in Seq(Seen) /\ RowsAgree(seen, aggregates)
    BY DEF StatInv
  <2>2. \A i \in 1..Len(seen) : seen[i] \in Seen
    BY <2>1
  <2> QED
    BY <2>1, <2>2 DEF RowsAgree, IsPage, Seen
<1>2. IsFiniteSet(K) /\ OneKind(kind, K) /\ A \in SUBSET (1..Len(seen)) /\ IsFiniteSet(1..Len(seen)) /\ IsFiniteSet(A)
      /\ \A i \in 1..Len(seen) : i \in A <=> RowKey(kind, seen[i]) \in K
  <2>1. IsFiniteSet(1..Len(seen))
    <3>1. Len(seen) \in Nat
      BY <1>1
    <3> QED
      BY <3>1, FS_Interval
  <2> QED
    BY <2>1, FS_Subset DEF IsPage
<1> DEFINE a == [k \in K |-> aggregates[k].avg]
           req == [k \in K |-> aggregates[k].requests]
           h == [k \in K |-> Mass(seen, k, Ms)]
           R == Total(K)
<1>3. \A k \in K : aggregates[k].avg \in Fraction /\ aggregates[k].requests \in Nat
  BY <1>1 DEF Tallied
<1>4. a \in [K -> Fraction] /\ req \in [K -> Nat] /\ h \in [K -> Int]
  <2>1. \A k \in K : Mass(seen, k, Ms) \in Int
    BY <1>1, WeightType, WeightsAreWeights
  <2> QED
    BY <1>3, <2>1
<1>5. PICK g : /\ \A s \in SUBSET K : g[s] = IF s = {} THEN <<0, 1>> ELSE
                     LET c == Some(s)
                     IN  <<g[s \ {c}][1] * aggregates[c].avg[2]
                             + aggregates[c].avg[1] * aggregates[c].requests * g[s \ {c}][2],
                           g[s \ {c}][2] * aggregates[c].avg[2]>>
               /\ AverageOf(K) = <<g[K][1], g[K][2] * Larger(1, Total(K))>>
  BY <1>2, <1>3, AverageFolds
<1>6. Averaging(a, req, K, g)
  <2>1. \A s \in SUBSET K : s # {} => Some(s) \in K
    BY DEF Some
  <2>2. \A c \in K : a[c] = aggregates[c].avg /\ req[c] = aggregates[c].requests
    OBVIOUS
  <2> HIDE DEF a, req
  <2> QED
    BY <1>5, <2>1, <2>2 DEF Averaging
<1>7. SumOver(req, K) = R
  <2>1. [k \in K |-> req[k]] = req
    OBVIOUS
  <2> QED
    BY <2>1 DEF Total, SumOver
<1>8. R \in Nat /\ Larger(1, R) \in Nat \ {0} /\ R <= Larger(1, R)
  <2>1. \A k \in K : req[k] \in Nat
    BY <1>4
  <2> HIDE DEF req
  <2>2. SumOver(req, K) \in Nat
    BY <1>2, <2>1, SumNat
  <2> QED
    BY <1>7, <2>2 DEF Larger
<1>9. /\ \A k \in K, i \in 1..Len(seen) : OfKey(k, seen[i]) => i \in A
  <2>1. ASSUME NEW k \in K, NEW i \in 1..Len(seen), OfKey(k, seen[i]) PROVE i \in A
    <3>1. k = <<k[1], kind, k[3]>>
      BY <1>2 DEF OneKind
    <3>2. RowKey(kind, seen[i]) = k
      BY <2>1, <3>1 DEF OfKey, RowKey, Fits
    <3> QED
      BY <1>2, <3>2
  <2> QED
    BY <2>1
<1> HIDE DEF a, req, h, R
<1>10. g[K] \in Fraction
  BY <1>2, <1>4, <1>6, AveragesAddUp
<1>11. ASSUME NEW M \in Nat, \A k \in K : a[k][1] <= M * a[k][2]
       PROVE  g[K][1] <= M * (g[K][2] * SumOver(req, K))
  BY <1>2, <1>4, <1>6, <1>11, AveragesAddUp
<1>12. ASSUME \A k \in K : a[k][1] * req[k] = a[k][2] * h[k]
       PROVE  g[K][1] = g[K][2] * SumOver(h, K)
  <2>1. IsFiniteSet(K)
    BY <1>2
  <2>2. a \in [K -> Fraction]
    BY <1>4
  <2>3. req \in [K -> Nat]
    BY <1>4
  <2>4. h \in [K -> Int]
    BY <1>4
  <2> QED
    BY <1>6, <1>12, <2>1, <2>2, <2>3, <2>4, ExactAveragesAddUp
<1> DEFINE x == g[K][1]  y == g[K][2]  w == Larger(1, R)
<1>13. x \in Nat /\ y \in Nat \ {0}
  BY <1>10 DEF Fraction
<1>14. AverageOf(K)[1] = x /\ AverageOf(K)[2] = y * w
  BY <1>5 DEF R
<1>15. w \in Nat \ {0} /\ R \in Nat /\ R <= w
  BY <1>8
<1>16. ASSUME NEW M \in Nat, \A i \in A : seen[i].line.ms <= M PROVE NotAbove(AverageOf(K), M)
  <2>1. \A k \in K : a[k][1] <= M * a[k][2]
    <3>1. ASSUME NEW k \in K PROVE aggregates[k].avg[1] <= M * aggregates[k].avg[2]
      <4>1. \A i \in 1..Len(seen) : OfKey(k, seen[i]) => seen[i].line.ms <= M
        BY <1>9, <1>16
      <4> QED
        BY <1>1, <4>1 DEF Tallied
    <3> QED
      BY <3>1 DEF a
  <2>2. x <= M * (y * R)
    BY <1>7, <1>11, <2>1
  <2> HIDE DEF x, y, w
  <2>3. (M * y) * R <= (M * y) * w
    <3>1. M * y \in Nat
      BY <1>13
    <3> DEFINE z == M * y
    <3>2. R * z <= w * z
      <4>1. z \in Nat
        BY <3>1
      <4> HIDE DEF z
      <4> QED
        BY <1>15, <4>1, TimesGrows
    <3>3. z * R = R * z /\ z * w = w * z
      <4>1. z \in Nat
        BY <3>1
      <4> HIDE DEF z
      <4> QED
        BY <1>15, <4>1
    <3> QED
      BY <3>2, <3>3
  <2>4. M * (y * R) = (M * y) * R /\ M * (y * w) = (M * y) * w
    BY <1>13, <1>15
  <2>5. (M * y) * R \in Int /\ (M * y) * w \in Int
    BY <1>13, <1>15
  <2> DEFINE p == (M * y) * R  r == (M * y) * w
  <2>6. x <= p /\ p <= r /\ p \in Int /\ r \in Int /\ M * (y * w) = r
    BY <2>2, <2>3, <2>4, <2>5
  <2> HIDE DEF p, r
  <2>7. x <= M * (y * w)
    BY <1>13, <2>6
  <2> QED
    BY <1>14, <2>7 DEF NotAbove
<1>17. ASSUME \A i \in A : Timed(seen[i].line)
       PROVE  AverageOf(K)[1] * Larger(1, Cardinality(A))
                = AverageOf(K)[2] * SumFunction([i \in A |-> seen[i].line.ms])
  <2> DEFINE ms == [i \in A |-> seen[i].line.ms]
  <2>1. \A k \in K : a[k][1] * req[k] = a[k][2] * h[k]
    <3>1. ASSUME NEW k \in K
          PROVE  aggregates[k].avg[1] * aggregates[k].requests = aggregates[k].avg[2] * Mass(seen, k, Ms)
      <4>1. \A i \in 1..Len(seen) : OfKey(k, seen[i]) => Timed(seen[i].line)
        BY <1>9, <1>17
      <4> QED
        BY <1>1, <4>1 DEF Tallied
    <3> QED
      BY <3>1 DEF a, req, h
  <2>2. x = y * SumOver(h, K)
    BY <1>12, <2>1
  <2>3. SumOver(h, K) = SumOver(OnPage(seen, kind, K, Ms), 1..Len(seen))
    <3>1. \A k \in K : h[k] = Mass(seen, k, Ms)
      BY DEF h
    <3> QED
      BY <1>1, <1>2, <3>1, PageMass, WeightsAreWeights
  <2>4. SumOver(OnPage(seen, kind, K, Ms), 1..Len(seen)) = SumOver(ms, A)
    <3>1. \A i \in A : ms[i] \in Int
      BY <1>1, <1>2 DEF LineType, Untimed
    <3>2. \A i \in 1..Len(seen) : OnPage(seen, kind, K, Ms)[i] = IF i \in A THEN ms[i] ELSE 0
      BY <1>1, <1>2 DEF OnPage, Ms
    <3> DEFINE N == 1..Len(seen)  e == OnPage(seen, kind, K, Ms)
    <3>3. IsFiniteSet(N) /\ A \in SUBSET N /\ \A i \in N : e[i] = IF i \in A THEN ms[i] ELSE 0
      BY <1>2, <3>2
    <3> HIDE DEF ms, N, e
    <3>4. SumOver(e, N) = SumOver(ms, A)
      BY <3>1, <3>3, SumRestrict
    <3> QED
      BY <3>4 DEF N, e
  <2>5. SumFunction(ms) = SumOver(ms, A)
    <3>1. [i \in A |-> ms[i]] = ms
      OBVIOUS
    <3> QED
      BY <3>1 DEF SumOver
  <2>6. SumFunction(ms) \in Int
    <3>1. \A k \in K : h[k] \in Int
      BY <1>4
    <3>2. SumOver(h, K) \in Int
      BY <1>2, <3>1, SumType
    <3> HIDE DEF ms
    <3> QED
      BY <2>3, <2>4, <2>5, <3>2
  <2>7. Larger(1, Cardinality(A)) = w
    BY PageTotals DEF R
  <2>8. x = y * SumFunction(ms)
    <3> HIDE DEF ms, x, y
    <3> QED
      BY <2>2, <2>3, <2>4, <2>5
  <2> DEFINE z == SumFunction(ms)
  <2> HIDE DEF x, y, w, z
  <2>9. z \in Int /\ x = y * z
    BY <2>6, <2>8 DEF z
  <2>10. x * w = (y * w) * z
    BY <1>13, <1>15, <2>9
  <2> QED
    BY <1>14, <2>7, <2>10 DEF z
<1> QED
  BY <1>16, <1>17

\* Events stand for lines: what holds of an event and its line alike is counted
\* as often, or less often if not every line became an event.
LEMMA EventsAreSampled ==
  ASSUME StatInv, NEW A \in SUBSET DOMAIN events, NEW B \in SUBSET DOMAIN seen,
         \A j \in DOMAIN events, i \in DOMAIN seen : events[j] = Happening(seen[i]) => (j \in A <=> i \in B)
  PROVE  Sampled(Cardinality(A), Cardinality(B))
<1>1. /\ seen \in Seq(Seen) /\ events \in Seq(EventSet) /\ EventsFollow(events, seen, rate)
      /\ DOMAIN seen = 1..Len(seen) /\ DOMAIN events = 1..Len(events)
  BY DEF StatInv
<1>2. IsFiniteSet(B)
  <2>1. Len(seen) \in Nat
    BY <1>1
  <2>2. IsFiniteSet(1..Len(seen))
    BY <2>1, FS_Interval
  <2> QED
    BY <1>1, <2>2, FS_Subset
<1>3. Cardinality(A) <= Cardinality(B)
  <2>1. PICK e : Drawn(events, seen, e)
    BY <1>1 DEF EventsFollow
  <2> DEFINE f == [j \in A |-> e[j]]
  <2>2. ASSUME NEW j \in A PROVE f[j] \in B
    <3>1. j \in DOMAIN events /\ e[j] \in DOMAIN seen /\ events[j] = Happening(seen[e[j]])
      BY <1>1, <2>1 DEF Drawn
    <3> QED
      BY <3>1
  <2>3. ASSUME NEW i \in A, NEW j \in A, f[i] = f[j] PROVE i = j
    <3>1. i \in 1..Len(events) /\ j \in 1..Len(events) /\ e[i] = e[j]
      BY <1>1, <2>3
    <3>2. e[i] \in 1..Len(seen) /\ Len(events) \in Nat /\ Len(seen) \in Nat
      BY <1>1, <2>1, <3>1 DEF Drawn
    <3>3. ~(i < j) /\ ~(j < i)
      BY <2>1, <3>1, <3>2 DEF Drawn
    <3> QED
      BY <3>1, <3>2, <3>3
  <2>4. f \in [A -> B]
    BY <2>2
  <2> HIDE DEF f
  <2>5. f \in Injection(A, B)
    BY <2>3, <2>4 DEF Injection, IsInjective
  <2> QED
    BY <1>2, <2>5, FS_Injection
<1>4. ASSUME rate = 1 PROVE A = B
  <2>1. Len(events) = Len(seen) /\ \A j \in 1..Len(seen) : events[j] = Happening(seen[j])
    BY <1>1, <1>4 DEF EventsFollow
  <2>2. DOMAIN events = DOMAIN seen
    BY <1>1, <2>1
  <2>3. ASSUME NEW j \in DOMAIN seen PROVE j \in A <=> j \in B
    <3>1. j \in DOMAIN events /\ events[j] = Happening(seen[j])
      BY <1>1, <2>1, <2>2
    <3> QED
      BY <3>1
  <2> QED
    BY <2>2, <2>3
<1> QED
  BY <1>3, <1>4 DEF Sampled

\* The rows of a range, and its lines, are a page.
LEMMA RangeIsPage ==
  ASSUME StatInv, NEW range \in Ranges, NEW sites \in SUBSET Sites
  PROVE  IsPage(range.kind, InRange(sites, range), Lines(sites, range))
<1> DEFINE K == InRange(sites, range)  A == Lines(sites, range)
<1>1. /\ range.kind \in Kinds
      /\ IsFiniteSet(K) /\ K \subseteq DOMAIN aggregates /\ OneKind(range.kind, K)
      /\ A \subseteq 1..Len(seen)
      /\ \A i \in 1..Len(seen) : i \in A <=> RowKey(range.kind, seen[i]) \in K
  BY RangeKeys
<1> HIDE DEF K, A
<1>2. IsPage(range.kind, K, A)
  BY <1>1 DEF IsPage
<1> QED
  BY <1>2 DEF K, A

\* A part of a page's rows and the part of its lines that goes with it.
LEMMA PartIsPage ==
  ASSUME NEW kind, NEW K, NEW A, IsPage(kind, K, A), NEW L \in SUBSET K, NEW B \in SUBSET A,
         \A i \in A : i \in B <=> RowKey(kind, seen[i]) \in L
  PROVE  IsPage(kind, L, B)
<1>1. IsFiniteSet(L)
  BY FS_Subset DEF IsPage
<1> QED
  BY <1>1 DEF IsPage, OneKind

\* What is known of the collected lines.
LEMMA SeenLines ==
  ASSUME StatInv
  PROVE  /\ DOMAIN seen = 1..Len(seen) /\ IsFiniteSet(DOMAIN seen)
         /\ \A i \in DOMAIN seen : seen[i] \in Seen /\ seen[i].line \in LineType /\ seen[i].site \in Sites
<1>1. seen \in Seq(Seen) /\ Len(seen) \in Nat
  BY DEF StatInv
<1>2. DOMAIN seen = 1..Len(seen)
  BY <1>1
<1>3. IsFiniteSet(1..Len(seen))
  BY <1>1, FS_Interval
<1>4. \A i \in DOMAIN seen : seen[i] \in Seen
  BY <1>1
<1> QED
  BY <1>2, <1>3, <1>4 DEF Seen

\* _sum_aggregates, get_proxy_analytics_data and list_analytics_summary: the
\* numbers of one site.
LEMMA SiteCounters ==
  ASSUME StatInv, NEW range \in Ranges, NEW s \in Sites
  PROVE  /\ SiteStats(s, range).requests = Cardinality(Lines({s}, range))
         /\ \A g \in Groups : SiteStats(s, range).groups[g]
                                = Number(Lines({s}, range), LAMBDA l : StatusBucket(l.status) = g)
         /\ \A c \in Clients : SiteStats(s, range).clients[c]
                                = Number(Lines({s}, range), LAMBDA l : l.client = c)
         /\ s \in listed => Summary(range)[s] = Cardinality(Lines({s}, range))
<1> DEFINE K == InRange({s}, range)  A == Lines({s}, range)
<1>1. IsPage(range.kind, K, A)
  BY RangeIsPage
<1>2. /\ SiteStats(s, range).requests = Total(K)
      /\ SiteStats(s, range).groups = SumTraffic(K)
      /\ SiteStats(s, range).clients = MergeTopJson(K)
  BY DEF SiteStats
<1>3. s \in listed => Summary(range)[s] = Total({k \in InRange(Sites, range) : k[1] = s})
  BY DEF Summary
<1>4. {k \in InRange(Sites, range) : k[1] = s} = K
  BY DEF InRange
<1>5. /\ \A g \in Groups : Number(A, LAMBDA l : StatusBucket(l.status) = g)
                             = Cardinality({i \in A : StatusBucket(seen[i].line.status) = g})
      /\ \A c \in Clients : Number(A, LAMBDA l : l.client = c)
                             = Cardinality({i \in A : seen[i].line.client = c})
  BY DEF Number
<1> HIDE DEF K, A
<1>6. /\ Total(K) = Cardinality(A)
      /\ \A g \in Groups : SumTraffic(K)[g] = Cardinality({i \in A : StatusBucket(seen[i].line.status) = g})
      /\ \A c \in Clients : MergeTopJson(K)[c] = Cardinality({i \in A : seen[i].line.client = c})
  BY <1>1, PageTotals
<1>7. /\ SiteStats(s, range).requests = Cardinality(A)
      /\ \A g \in Groups : SiteStats(s, range).groups[g]
                             = Number(A, LAMBDA l : StatusBucket(l.status) = g)
      /\ \A c \in Clients : SiteStats(s, range).clients[c] = Number(A, LAMBDA l : l.client = c)
      /\ s \in listed => Summary(range)[s] = Cardinality(A)
  BY <1>2, <1>3, <1>4, <1>5, <1>6
<1> QED
  BY <1>7 DEF A

\* The average of a site is at most its slowest request, and exact if every
\* line has a time.
LEMMA SiteAverage ==
  ASSUME StatInv, NEW range \in Ranges, NEW s \in Sites
  PROVE  /\ Times(Lines({s}, range)) # {} =>
              \E ms \in Times(Lines({s}, range)) : NotAbove(SiteStats(s, range).average, ms)
         /\ (\A i \in Lines({s}, range) : Timed(seen[i].line)) =>
              SiteStats(s, range).average[1] * Larger(1, Cardinality(Lines({s}, range)))
                = SiteStats(s, range).average[2] * SumFunction([i \in Lines({s}, range) |-> seen[i].line.ms])
<1> DEFINE K == InRange({s}, range)  A == Lines({s}, range)  T == Times(A)
<1>1. IsPage(range.kind, K, A)
  BY RangeIsPage
<1>2. SiteStats(s, range).average = AverageOf(K)
  BY DEF SiteStats
<1>3. A \in SUBSET DOMAIN seen
  BY DEF Lines
<1>4. \A i \in DOMAIN seen : seen[i].line \in LineType
  BY SeenLines
<1>5. T = {seen[i].line.ms : i \in {j \in A : Timed(seen[j].line)}}
  BY DEF Times
<1>6. IsFiniteSet({j \in A : Timed(seen[j].line)})
  BY <1>3, SeenLines, FS_Subset
<1> HIDE DEF K, A, T
<1>7. IsFiniteSet(T)
  <2> DEFINE f == [i \in DOMAIN seen |-> seen[i].line.ms]
             P == {j \in A : Timed(seen[j].line)}
  <2>1. T = {f[i] : i \in P}
    BY <1>3, <1>5
  <2> HIDE DEF f, P
  <2> QED
    BY <1>6, <2>1, ImageIsFinite DEF P
<1>8. \A i \in A : Timed(seen[i].line) => seen[i].line.ms \in Nat
  BY <1>3, <1>4 DEF LineType, Timed, Untimed
<1>9. T \subseteq Nat
  BY <1>5, <1>8
<1>10. ASSUME T # {} PROVE \E ms \in T : NotAbove(AverageOf(K), ms)
  <2>1. PICK M \in T : \A x \in T : x <= M
    <3>1. T \subseteq Int
      BY <1>9
    <3> QED
      BY <1>7, <1>10, <3>1, LargestExists
  <2>2. M \in Nat
    BY <1>9, <2>1
  <2>3. ASSUME NEW i \in A PROVE seen[i].line.ms <= M
    <3>1. CASE Timed(seen[i].line)
      BY <1>5, <2>1, <3>1
    <3>2. CASE ~Timed(seen[i].line)
      BY <2>2, <3>2 DEF Timed, Untimed
    <3> QED
      BY <3>1, <3>2
  <2>4. NotAbove(AverageOf(K), M)
    BY <1>1, <2>2, <2>3, PageAverage
  <2> QED
    BY <2>1, <2>4
<1>11. (\A i \in A : Timed(seen[i].line)) =>
          AverageOf(K)[1] * Larger(1, Cardinality(A))
            = AverageOf(K)[2] * SumFunction([i \in A |-> seen[i].line.ms])
  BY <1>1, PageAverage
<1>12. /\ T # {} => \E ms \in T : NotAbove(SiteStats(s, range).average, ms)
       /\ (\A i \in A : Timed(seen[i].line)) =>
          SiteStats(s, range).average[1] * Larger(1, Cardinality(A))
            = SiteStats(s, range).average[2] * SumFunction([i \in A |-> seen[i].line.ms])
  BY <1>2, <1>10, <1>11
<1> QED
  BY <1>12 DEF A, T

\* status_codes: the numbers of all sites together.
LEMMA CodesAddUp ==
  ASSUME StatInv, NEW range \in Ranges
  PROVE  /\ \A c \in Statuses : StatusCodes(range).specific[c]
                                  = Number(Lines(Sites, range), LAMBDA l : l.status = c)
         /\ \A g \in Groups : StatusCodes(range).groups[g]
                                = Number(Lines(Sites, range), LAMBDA l : StatusBucket(l.status) = g)
<1> DEFINE K == InRange(Sites, range)  A == Lines(Sites, range)
<1>1. IsPage(range.kind, K, A)
  BY RangeIsPage
<1>2. StatusCodes(range).specific = MergeStatusCodes(K) /\ StatusCodes(range).groups = SumTraffic(K)
  BY DEF StatusCodes
<1> HIDE DEF K, A
<1>3. /\ \A c \in Statuses : Number(A, LAMBDA l : l.status = c) = Cardinality({i \in A : seen[i].line.status = c})
      /\ \A g \in Groups : Number(A, LAMBDA l : StatusBucket(l.status) = g)
                             = Cardinality({i \in A : StatusBucket(seen[i].line.status) = g})
  BY DEF Number
<1>4. /\ \A g \in Groups : SumTraffic(K)[g] = Cardinality({i \in A : StatusBucket(seen[i].line.status) = g})
      /\ \A c \in Statuses : MergeStatusCodes(K)[c] = Cardinality({i \in A : seen[i].line.status = c})
  BY <1>1, PageTotals
<1>5. /\ \A c \in Statuses : StatusCodes(range).specific[c] = Number(A, LAMBDA l : l.status = c)
      /\ \A g \in Groups : StatusCodes(range).groups[g] = Number(A, LAMBDA l : StatusBucket(l.status) = g)
  BY <1>2, <1>3, <1>4
<1> QED
  BY <1>5 DEF A

\* A status is an error if it is in neither of the first two groups.
LEMMA ErrorGroups ==
  ASSUME NEW c \in 200..999
  PROVE  StatusBucket(c) \in {"4xx", "5xx"} <=> c \notin 200..399
<1>1. CASE c \in 200..299
  BY <1>1 DEF StatusBucket
<1>2. CASE c \in 300..399
  BY <1>2 DEF StatusBucket
<1>3. CASE c \in 500..599
  BY <1>3 DEF StatusBucket
<1>4. CASE c \notin 200..399 /\ c \notin 500..599
  <2>1. c \notin 200..299 /\ c \notin 300..399
    BY <1>4
  <2> QED
    BY <1>4, <2>1 DEF StatusBucket
<1> QED
  BY <1>1, <1>2, <1>3, <1>4

\* proxy_hosts: errors of one site.
LEMMA HostErrors ==
  ASSUME StatInv, NEW range \in Ranges, NEW s \in listed
  PROVE  ProxyHosts(range)[s].errors = Number(Lines({s}, range), LAMBDA l : l.status \notin 200..399)
<1> DEFINE A == Lines({s}, range)
           P(g) == {i \in A : StatusBucket(seen[i].line.status) = g}
           E == {i \in A : seen[i].line.status \notin 200..399}
<1>1. s \in Sites
  BY DEF StatInv
<1>2. ProxyHosts(range)[s].errors = SiteStats(s, range).groups["4xx"] + SiteStats(s, range).groups["5xx"]
  BY DEF ProxyHosts
<1>3. \A g \in Groups : SiteStats(s, range).groups[g] = Number(A, LAMBDA l : StatusBucket(l.status) = g)
  BY <1>1, SiteCounters
<1>4. \A g \in Groups : Number(A, LAMBDA l : StatusBucket(l.status) = g) = Cardinality(P(g))
  BY DEF Number
<1>5. Number(A, LAMBDA l : l.status \notin 200..399) = Cardinality(E)
  BY DEF Number
<1>6. IsFiniteSet(A) /\ A \subseteq DOMAIN seen
  BY SeenLines, FS_Subset DEF Lines
<1>7. IsFiniteSet(P("4xx")) /\ IsFiniteSet(P("5xx"))
  BY <1>6, FS_Subset
<1>8. P("4xx") \cap P("5xx") = {}
  OBVIOUS
<1>9. P("4xx") \cup P("5xx") = E
  <2>1. \A i \in A : seen[i].line.status \in Statuses
    BY <1>6, SeenLines DEF LineType
  <2>2. Statuses \subseteq 200..999
    BY StatisticsConstants DEF Statuses
  <2>3. \A i \in A : seen[i].line.status \in 200..999
    <3> HIDE DEF A
    <3> QED
      BY <2>1, <2>2
  <2>4. \A i \in A : StatusBucket(seen[i].line.status) \in {"4xx", "5xx"} <=> seen[i].line.status \notin 200..399
    <3> HIDE DEF A
    <3>1. ASSUME NEW i \in A, NEW c, c = seen[i].line.status
          PROVE  StatusBucket(c) \in {"4xx", "5xx"} <=> c \notin 200..399
      <4>1. c \in 200..999
        BY <2>3, <3>1
      <4> QED
        BY <4>1, ErrorGroups
    <3> QED
      BY <3>1
  <2>5. P("4xx") \cup P("5xx") = {i \in A : StatusBucket(seen[i].line.status) \in {"4xx", "5xx"}}
    OBVIOUS
  <2> QED
    BY <2>4, <2>5
<1> HIDE DEF A, P, E
<1>10. Cardinality(E) = Cardinality(P("4xx")) + Cardinality(P("5xx"))
  <2>1. /\ Cardinality(P("4xx") \cup P("5xx"))
             = Cardinality(P("4xx")) + Cardinality(P("5xx")) - Cardinality(P("4xx") \cap P("5xx"))
    BY <1>7, FS_Union
  <2>2. Cardinality(P("4xx")) \in Nat /\ Cardinality(P("5xx")) \in Nat
    BY <1>7, FS_CardinalityType
  <2>3. Cardinality(P("4xx") \cap P("5xx")) = 0
    BY <1>8, FS_EmptySet
  <2>4. Cardinality(E) = Cardinality(P("4xx")) + Cardinality(P("5xx")) - 0
    BY <1>9, <2>1, <2>3
  <2> QED
    BY <2>2, <2>4
<1>11. ProxyHosts(range)[s].errors = Cardinality(P("4xx")) + Cardinality(P("5xx"))
  BY <1>2, <1>3, <1>4 DEF Groups
<1> QED
  BY <1>5, <1>10, <1>11 DEF A

\* client_ips: the requests of a client, added up site by site.
LEMMA ClientRequests ==
  ASSUME StatInv, NEW read, NEW range \in Ranges, NEW c \in Clients
  PROVE  ClientIps(range, read)[c].requests = Number(Lines(listed, range), LAMBDA l : l.client = c)
<1> DEFINE h == [s \in listed |-> SiteStats(s, range).clients[c]]
           B == {i \in Lines(Sites, range) : seen[i].line.client = c}
           owner == [i \in DOMAIN seen |-> seen[i].site]
<1>1. IsFiniteSet(listed) /\ listed \subseteq Sites
  BY StatisticsConstants, FS_Subset DEF StatInv
<1>2. ClientIps(range, read)[c].requests = SumOver(h, listed)
  <2>1. ClientIps(range, read)[c].requests = SumFunction(h)
    BY DEF ClientIps
  <2>2. [s \in listed |-> h[s]] = h
    OBVIOUS
  <2> QED
    BY <2>1, <2>2 DEF SumOver
<1>3. B \subseteq DOMAIN seen /\ IsFiniteSet(B)
  BY SeenLines, FS_Subset DEF Lines
<1>4. ASSUME NEW s \in listed PROVE h[s] = Share(B, owner, {s})
  <2>1. h[s] = Number(Lines({s}, range), LAMBDA l : l.client = c)
    BY <1>1, SiteCounters
  <2>2. Number(Lines({s}, range), LAMBDA l : l.client = c)
          = Cardinality({i \in Lines({s}, range) : seen[i].line.client = c})
    BY DEF Number
  <2>3. {i \in Lines({s}, range) : seen[i].line.client = c} = {i \in B : owner[i] \in {s}}
    BY <1>1 DEF Lines
  <2> QED
    BY <2>1, <2>2, <2>3 DEF Share
<1>5. {i \in B : owner[i] \in listed} = {i \in Lines(listed, range) : seen[i].line.client = c}
  BY <1>1 DEF Lines
<1>6. Number(Lines(listed, range), LAMBDA l : l.client = c)
        = Cardinality({i \in Lines(listed, range) : seen[i].line.client = c})
  BY DEF Number
<1> HIDE DEF h, B, owner
<1>7. SumOver(h, listed) = Share(B, owner, listed)
  BY <1>1, <1>3, <1>4, SumOfParts
<1> QED
  BY <1>2, <1>5, <1>6, <1>7 DEF Share

\* What client_ips may call a client's errors: the failed lines of the range.
ClientFailures(range, c) ==
    Cardinality({i \in Recent(range) : seen[i].line.client = c /\ IsFailed(seen[i].line.status)})

\* client_ips, and the pages of live requests: what events count is a sample of
\* the lines, and exact if each line is an event.
LEMMA EventsCount ==
  ASSUME StatInv, NEW range \in Ranges
  PROVE  /\ \A c \in Clients, read \in Newest(range) :
              /\ ClientIps(range, read)[c].errors <= ClientFailures(range, c)
              /\ rate = 1 /\ Cardinality(Recent(range)) <= EventLimit =>
                   ClientIps(range, read)[c].errors = ClientFailures(range, c)
         /\ Sampled(Cardinality(LiveRequests(FALSE)), Len(seen))
         /\ Sampled(Cardinality(FailedRequests), Number(DOMAIN seen, LAMBDA l : IsFailed(l.status)))
<1>1. ASSUME NEW j \in DOMAIN events, NEW i \in DOMAIN seen, events[j] = Happening(seen[i])
      PROVE  /\ events[j].failed = IsFailed(seen[i].line.status)
             /\ events[j].client = seen[i].line.client
             /\ events[j].at = seen[i].line.at
  <2>1. events[j] = [site |-> seen[i].site, client |-> seen[i].line.client, status |-> seen[i].line.status,
                     at |-> seen[i].line.at, failed |-> IsFailed(seen[i].line.status)]
    BY <1>1 DEF Happening, Event
  <2> QED
    BY <2>1
<1>2. \A i \in DOMAIN seen : seen[i].line.status \in Int
  <2>1. Statuses \subseteq 200..999
    BY StatisticsConstants DEF Statuses
  <2> QED
    <3>1. \A i \in DOMAIN seen : seen[i].line.status \in Statuses
      BY SeenLines DEF LineType
    <3>2. \A c \in Statuses : c \in Int
      BY <2>1
    <3> QED
      BY <3>1, <3>2
<1>3. ASSUME NEW c \in Clients, NEW read \in Newest(range)
      PROVE  /\ ClientIps(range, read)[c].errors <= ClientFailures(range, c)
             /\ rate = 1 /\ Cardinality(Recent(range)) <= EventLimit =>
                  ClientIps(range, read)[c].errors = ClientFailures(range, c)
  <2> DEFINE inside == {j \in DOMAIN events : events[j].at + range.ticks >= tick}
             A == {j \in inside : events[j].failed /\ events[j].client = c}
             R == {j \in read : events[j].failed /\ events[j].client = c}
             B == {i \in Recent(range) : seen[i].line.client = c /\ IsFailed(seen[i].line.status)}
  <2>1. ClientIps(range, read)[c].errors = Cardinality(R) /\ ClientFailures(range, c) = Cardinality(B)
    BY DEF ClientIps, ClientFailures
  <2>2. /\ A \in SUBSET DOMAIN events /\ B \in SUBSET DOMAIN seen
        /\ inside \in SUBSET DOMAIN events /\ Recent(range) \in SUBSET DOMAIN seen
    BY DEF Recent
  <2>3. read \subseteq inside /\ (Cardinality(inside) <= EventLimit => read = inside)
    BY DEF Newest
  <2>4. ASSUME NEW j \in DOMAIN events, NEW i \in DOMAIN seen, events[j] = Happening(seen[i])
        PROVE  (j \in A <=> i \in B) /\ (j \in inside <=> i \in Recent(range))
    <3>1. j \in A <=> events[j].failed /\ events[j].client = c /\ events[j].at + range.ticks >= tick
      OBVIOUS
    <3>2. i \in B <=> seen[i].line.at + range.ticks >= tick /\ seen[i].line.client = c
                      /\ IsFailed(seen[i].line.status)
      BY DEF Recent
    <3>3. j \in inside <=> events[j].at + range.ticks >= tick
      OBVIOUS
    <3>4. i \in Recent(range) <=> seen[i].line.at + range.ticks >= tick
      BY DEF Recent
    <3> HIDE DEF A, B, inside
    <3> QED
      BY <1>1, <2>4, <3>1, <3>2, <3>3, <3>4
  <2>5. IsFiniteSet(DOMAIN events)
    <3>1. Len(events) \in Nat /\ DOMAIN events = 1..Len(events)
      BY DEF StatInv
    <3> QED
      BY <3>1, FS_Interval
  <2>6. R \in SUBSET A /\ (read = inside => R = A)
    BY <2>3
  <2> HIDE DEF A, B, R, inside
  <2>7. Sampled(Cardinality(A), Cardinality(B))
    BY <2>2, <2>4, EventsAreSampled
  <2>8. Sampled(Cardinality(inside), Cardinality(Recent(range)))
    BY <2>2, <2>4, EventsAreSampled
  <2>9. IsFiniteSet(A) /\ IsFiniteSet(inside)
    BY <2>2, <2>5, FS_Subset
  <2>10. Cardinality(R) <= Cardinality(A) /\ IsFiniteSet(R)
    BY <2>6, <2>9, FS_Subset
  <2>11. Cardinality(A) \in Nat /\ Cardinality(inside) \in Nat /\ Cardinality(R) \in Nat
    BY <2>9, <2>10, FS_CardinalityType
  <2>12. Cardinality(B) \in Nat /\ Cardinality(Recent(range)) \in Nat /\ EventLimit \in Nat
    <3>1. IsFiniteSet(B) /\ IsFiniteSet(Recent(range))
      BY <2>2, SeenLines, FS_Subset
    <3> QED
      BY <3>1, FS_CardinalityType, StatisticsConstants
  <2>13. Cardinality(R) <= Cardinality(B)
    BY <2>7, <2>10, <2>11, <2>12 DEF Sampled
  <2>14. ASSUME rate = 1, Cardinality(Recent(range)) <= EventLimit PROVE Cardinality(R) = Cardinality(B)
    <3>1. Cardinality(inside) <= EventLimit
      BY <2>8, <2>11, <2>12, <2>14 DEF Sampled
    <3>2. R = A
      BY <2>3, <2>6, <3>1
    <3> QED
      BY <2>7, <2>14, <3>2 DEF Sampled
  <2> QED
    BY <2>1, <2>13, <2>14
<1>4. Sampled(Cardinality(LiveRequests(FALSE)), Len(seen))
  <2>1. LiveRequests(FALSE) = DOMAIN events
    BY DEF LiveRequests
  <2>2. Cardinality(DOMAIN seen) = Len(seen)
    <3>1. Len(seen) \in Nat /\ DOMAIN seen = 1..Len(seen)
      BY SeenLines DEF StatInv
    <3>2. Cardinality(1..Len(seen)) = IF 1 > Len(seen) THEN 0 ELSE Len(seen) - 1 + 1
      <4>1. Len(seen) \in Int /\ 1 \in Int
        BY <3>1
      <4> QED
        BY <4>1, FS_Interval
    <3>3. Cardinality(1..Len(seen)) = Len(seen)
      <4> DEFINE n == Len(seen)
      <4> HIDE DEF n
      <4>1. n \in Nat /\ Cardinality(1..n) = IF 1 > n THEN 0 ELSE n - 1 + 1
        BY <3>1, <3>2 DEF n
      <4>2. Cardinality(1..n) = n
        BY <4>1
      <4> QED
        BY <4>2 DEF n
    <3> QED
      BY <3>1, <3>3
  <2>3. Sampled(Cardinality(DOMAIN events), Cardinality(DOMAIN seen))
    BY EventsAreSampled
  <2> QED
    BY <2>1, <2>2, <2>3
<1>5. Sampled(Cardinality(FailedRequests), Number(DOMAIN seen, LAMBDA l : IsFailed(l.status)))
  <2> DEFINE B == {i \in DOMAIN seen : IsFailed(seen[i].line.status)}
  <2>1. Number(DOMAIN seen, LAMBDA l : IsFailed(l.status)) = Cardinality(B)
    BY DEF Number
  <2>2. FailedRequests \in SUBSET DOMAIN events /\ B \in SUBSET DOMAIN seen
    BY DEF FailedRequests, LiveRequests
  <2>3. ASSUME NEW j \in DOMAIN events, NEW i \in DOMAIN seen, events[j] = Happening(seen[i])
        PROVE  j \in FailedRequests <=> i \in B
    <3>1. j \in FailedRequests <=> events[j].failed
      BY DEF FailedRequests, LiveRequests
    <3>2. i \in B <=> IsFailed(seen[i].line.status)
      OBVIOUS
    <3> HIDE DEF B
    <3> QED
      BY <1>1, <2>3, <3>1, <3>2
  <2> HIDE DEF B
  <2>4. Sampled(Cardinality(FailedRequests), Cardinality(B))
    BY <2>2, <2>3, EventsAreSampled
  <2> QED
    BY <2>1, <2>4
<1> QED
  BY <1>3, <1>4, <1>5

\* aggregate_history: its bars add up to the requests in the range.
LEMMA HistoryAdds ==
  ASSUME StatInv, NEW range \in Ranges, range.kind = "hour"
  PROVE  SumFunction(AggregateHistory(range)) = Cardinality(Lines(Sites, range))
<1> DEFINE K == InRange(Sites, range)  A == Lines(Sites, range)
           D == {k[3] : k \in K}
           h == AggregateHistory(range)
           owner == [i \in DOMAIN seen |-> Start("hour", seen[i].line.at)]
<1>1. IsPage("hour", K, A)
  BY RangeIsPage
<1>2. [range EXCEPT !.kind = "hour"] = range
  <2>1. range \in [ticks : {MinuteRange, HourRange}, kind : {"minute", "hour"}]
    BY DEF Ranges
  <2> QED
    BY <2>1
<1>3. h = [t \in D |-> Total({k \in K : k[3] = t})]
  BY <1>2 DEF AggregateHistory
<1>4. IsFiniteSet(K) /\ A \in SUBSET DOMAIN seen /\ IsFiniteSet(A)
      /\ \A i \in DOMAIN seen : i \in A <=> RowKey("hour", seen[i]) \in K
  BY <1>1, SeenLines, FS_Subset DEF IsPage
<1> HIDE DEF K, A, h
<1>5. IsFiniteSet(D)
  <2> DEFINE f == [k \in K |-> k[3]]
  <2>1. D = {f[k] : k \in K}
    OBVIOUS
  <2> HIDE DEF f, D
  <2> QED
    BY <1>4, <2>1, ImageIsFinite
<1>6. ASSUME NEW t \in D PROVE h[t] = Share(A, owner, {t})
  <2> DEFINE L == {k \in K : k[3] = t}
             B == {i \in A : owner[i] \in {t}}
  <2>1. L \in SUBSET K /\ B \in SUBSET A
    OBVIOUS
  <2>2. ASSUME NEW i \in A PROVE i \in B <=> RowKey("hour", seen[i]) \in L
    <3>1. RowKey("hour", seen[i])[3] = owner[i]
      BY <1>4 DEF RowKey
    <3>2. RowKey("hour", seen[i]) \in K
      BY <1>4
    <3> QED
      BY <3>1, <3>2
  <2>3. h[t] = Total(L)
    BY <1>3
  <2> HIDE DEF L, B
  <2>4. IsPage("hour", L, B)
    BY <1>1, <2>1, <2>2, PartIsPage
  <2>5. Total(L) = Cardinality(B)
    BY <2>4, PageTotals
  <2> QED
    BY <2>3, <2>5 DEF B, Share
<1>7. {i \in A : owner[i] \in D} = A
  <2>1. ASSUME NEW i \in A PROVE owner[i] \in D
    <3>1. RowKey("hour", seen[i])[3] = owner[i] /\ RowKey("hour", seen[i]) \in K
      BY <1>4 DEF RowKey
    <3> QED
      BY <3>1
  <2> QED
    BY <2>1
<1>8. SumFunction(h) = SumOver(h, D)
  <2>1. [t \in D |-> h[t]] = h
    BY <1>3
  <2> QED
    BY <2>1 DEF SumOver
<1> HIDE DEF D, owner
<1>9. SumOver(h, D) = Share(A, owner, D)
  <2>1. \A t \in D : h[t] = Share(A, owner, {t})
    BY <1>6
  <2>2. IsFiniteSet(A)
    BY <1>4
  <2> QED
    BY <1>5, <2>1, <2>2, SumOfParts
<1> QED
  BY <1>7, <1>8, <1>9 DEF A, h, Share

\* What the pages read from such rows and events agrees with the lines.
LEMMA PagesCountLines == StatInv => ReadersAgree
<1> SUFFICES ASSUME StatInv PROVE ReadersAgree
  OBVIOUS
<1> SUFFICES ASSUME NEW range \in Ranges
    PROVE  LET all == Lines(Sites, range)
               codes == StatusCodes(range)
           IN  /\ \A s \in Sites :
                   LET own == Lines({s}, range)
                       stats == SiteStats(s, range)
                   IN  /\ stats.requests = Cardinality(own)
                       /\ \A g \in Groups : stats.groups[g] = Number(own, LAMBDA l : StatusBucket(l.status) = g)
                       /\ \A c \in Clients : stats.clients[c] = Number(own, LAMBDA l : l.client = c)
                       /\ s \in listed => Summary(range)[s] = Cardinality(own)
                       /\ Times(own) # {} => \E ms \in Times(own) : NotAbove(stats.average, ms)
                       /\ (\A i \in own : Timed(seen[i].line)) =>
                           stats.average[1] * Larger(1, Cardinality(own))
                               = stats.average[2] * SumFunction([i \in own |-> seen[i].line.ms])
               /\ \A c \in Statuses : codes.specific[c] = Number(all, LAMBDA l : l.status = c)
               /\ \A g \in Groups : codes.groups[g] = Number(all, LAMBDA l : StatusBucket(l.status) = g)
               /\ \A s \in listed :
                   ProxyHosts(range)[s].errors = Number(Lines({s}, range), LAMBDA l : l.status \notin 200..399)
               /\ \A c \in Clients, read \in Newest(range) :
                   LET client == ClientIps(range, read)[c]
                       failed == Number(Recent(range), LAMBDA l : l.client = c /\ IsFailed(l.status))
                   IN  /\ client.requests = Number(Lines(listed, range), LAMBDA l : l.client = c)
                       /\ client.errors <= failed
                       /\ rate = 1 /\ Cardinality(Recent(range)) <= EventLimit => client.errors = failed
               /\ Sampled(Cardinality(LiveRequests(FALSE)), Len(seen))
               /\ Sampled(Cardinality(FailedRequests), Number(DOMAIN seen, LAMBDA l : IsFailed(l.status)))
               /\ range.kind = "hour" =>
                   SumFunction(AggregateHistory(range)) = Cardinality(all)
  BY DEF ReadersAgree
<1>1. \A c \in Clients :
        Number(Recent(range), LAMBDA l : l.client = c /\ IsFailed(l.status)) = ClientFailures(range, c)
  BY DEF Number, ClientFailures
<1> QED
  BY <1>1, SiteCounters, SiteAverage, CodesAddUp, HostErrors, ClientRequests, EventsCount, HistoryAdds

\* However lines are cut into collections, and sites deleted and created: the
\* pages' numbers are those of the collected lines, averages are not above the
\* slowest request, and events never count more than there were.
THEOREM ReadersAlwaysAgree == StatSpec => []ReadersAgree
  BY StatInvHolds, PagesCountLines, PTL
=============================================================================
