----------------------------- MODULE Customization -----------------------------
(***************************************************************************)
(* The rules of a customizable product, as the three parties that share    *)
(* them read them: the owner's guards on a product's metadata, the product *)
(* page that asks the shopper, and the server that takes the line.         *)
(*                                                                         *)
(* Metadata is text the owner types.  What it says is abstracted to what   *)
(* the readers tell apart: a pair of bounds is blank, half filled, swapped,*)
(* unreadable ("odd"), the owner's own or the written default.  Custom     *)
(* text and order notes follow the same rules and are the one input text;  *)
(* a size, a text or a file is a member of a small set.                    *)
(***************************************************************************)
EXTENDS Naturals, FiniteSets

CONSTANT None

Inputs == {"artwork", "text", "size"}
Modes  == {"off", "optional", "required"}

(***************************************************************************)
(* Reading a product's metadata.                                           *)
(***************************************************************************)
NoInputs == [i \in Inputs |-> "off"]

ReadyMade == [customizable |-> FALSE, inputs |-> NoInputs, bounds |-> "default",
              names |-> "blank", price |-> "blank", limit |-> "default"]

ReadMode(v) == IF v \in Modes THEN v ELSE "off"
ReadBounds(v) == IF v = "own" THEN "own" ELSE "default"
ReadNames(v)  == IF v = "value" THEN "blank" ELSE v
ReadPrice(v)  == IF v = "odd" THEN "blank" ELSE v
ReadLimit(v)  == IF v = "own" THEN "own" ELSE "default"

\* Forgiving: whatever it cannot read is off, or the fallback.
Resolve(m) ==
    IF m.flag # "true" THEN ReadyMade
    ELSE [customizable |-> TRUE,
          inputs |-> [i \in Inputs |-> ReadMode(m.inputs[i])],
          bounds |-> ReadBounds(m.bounds), names |-> ReadNames(m.names),
          price |-> ReadPrice(m.price), limit |-> ReadLimit(m.limit)]

\* What a save writes: settings of an input that is off are blanked.
PatchOfRequiredSize(c) ==
    [flag   |-> IF c.customizable THEN "true" ELSE "false",
     inputs |-> IF c.customizable THEN c.inputs ELSE NoInputs,
     bounds |-> IF c.inputs["size"] = "required" THEN c.bounds ELSE "blank",
     names  |-> IF c.inputs["size"] = "required" THEN c.names ELSE "blank",
     price  |-> IF c.inputs["size"] = "required" THEN c.price ELSE "blank",
     limit  |-> IF c.inputs["text"] # "off" THEN c.limit ELSE "blank"]

Patch(c) ==
    LET asksForSize == c.customizable /\ c.inputs["size"] # "off"
        asksForText == c.customizable /\ c.inputs["text"] # "off"
    IN  [flag   |-> IF c.customizable THEN "true" ELSE "false",
         inputs |-> IF c.customizable THEN c.inputs ELSE NoInputs,
         bounds |-> IF asksForSize THEN c.bounds ELSE "blank",
         names  |-> IF asksForSize THEN c.names ELSE "blank",
         price  |-> IF asksForSize THEN c.price ELSE "blank",
         limit  |-> IF asksForText THEN c.limit ELSE "blank"]

(***************************************************************************)
(* The guards on a product.                                                *)
(***************************************************************************)
Asked(m) == {i \in Inputs : m.inputs[i] \notin {"off", "absent"}}

SizeConfigHolds(m, published) ==
    /\ m.bounds \notin {"odd", "swapped"}
    /\ m.names # "value"
    /\ m.price # "odd"
    /\ published /\ "size" \in Asked(m) =>
        /\ m.bounds \in {"own", "default"}
        /\ m.names = "both"
        /\ m.price = "both"

\* validateProductCustomization.
Declared(m, published) ==
    /\ m.flag \in {"absent", "true", "false"}
    /\ \A i \in Inputs : m.inputs[i] \in Modes \cup {"absent"}
    /\ SizeConfigHolds(m, published)
    /\ m.limit # "odd"
    /\ m.minimum # "odd"
    /\ m.flag # "true" => Asked(m) = {}
    /\ published /\ m.flag = "true" => Asked(m) # {}

\* validateCustomSizeOption: has the product the option value that is named?
OptionHeld(m, offersCustom, published) ==
    LET c == Resolve(m)
    IN  published /\ c.inputs["size"] # "off" /\ c.names = "both" => offersCustom

(***************************************************************************)
(* Asking the shopper.  A draft is what is typed; rules are what the page  *)
(* and the server read of a product: the modes, whether a Custom value is  *)
(* named that the product has, which typed sizes are within bounds, and    *)
(* which file is too coarse for which size.                                *)
(***************************************************************************)
EmptyDraft == [art |-> None, text |-> None, own |-> FALSE, size |-> None]

UsesOwnSize(rules, d) ==
    CASE rules.inputs["size"] = "off"      -> FALSE
      [] rules.inputs["size"] = "optional" -> d.own
      [] OTHER                             -> TRUE

SizeErrors(rules, d) == UsesOwnSize(rules, d) /\ d.size \notin rules.within \cup {None}

Satisfied(rules, i, d) ==
    CASE i = "artwork" -> d.art # None
      [] i = "text"    -> d.text # None
      [] OTHER         -> UsesOwnSize(rules, d) /\ d.size \in rules.within

Missing(rules, d) ==
    {i \in Inputs : /\ \/ rules.inputs[i] = "required"
                       \/ i = "size" /\ UsesOwnSize(rules, d)
                    /\ ~Satisfied(rules, i, d)}

TextProblem(rules, d) == rules.inputs["text"] # "off" /\ d.text \in rules.unfit

OrderedSize(rules, d, measured) == IF UsesOwnSize(rules, d) THEN d.size ELSE measured

ArtworkError(rules, d, measured) ==
    d.art # None /\ <<d.art, OrderedSize(rules, d, measured)>> \in rules.coarse

\* lineItemCustomization: what the line carries of the draft.
Payload(rules, d) ==
    LET Kept(i, v) == IF rules.inputs[i] # "off" /\ Satisfied(rules, i, d) THEN v ELSE None
    IN  [art |-> Kept("artwork", d.art), text |-> Kept("text", d.text),
         size |-> Kept("size", d.size)]

\* configurationFromCartLine: the draft a line is edited with.
DraftOf(rules, custom) ==
    [art |-> custom.art, text |-> custom.text,
     own |-> custom.size # None /\ rules.inputs["size"] = "optional",
     size |-> custom.size]

(***************************************************************************)
(* Taking the line.                                                        *)
(***************************************************************************)
Given(custom, i) ==
    CASE i = "artwork" -> custom.art # None
      [] i = "text"    -> custom.text # None
      [] OTHER         -> custom.size # None

\* isCustomSizeVariant: None when the product does not tell.
CustomVariant(rules, isCustom) ==
    IF rules.inputs["size"] = "off" \/ ~rules.named THEN None ELSE isCustom

SwitchedOff(rules, i, variant) ==
    rules.inputs[i] = "off" \/ (i = "size" /\ variant = FALSE)

Required(rules, i, variant) ==
    rules.inputs[i] = "required" \/ (i = "size" /\ variant = TRUE)

\* validateCustomization.  measured is the size of the variant's preset.
ServerAccepts(rules, custom, isCustom, measured) ==
    LET variant == CustomVariant(rules, isCustom)
        size    == IF custom.size # None THEN custom.size ELSE measured
    IN  /\ \A i \in Inputs :
            IF Given(custom, i) THEN ~SwitchedOff(rules, i, variant)
            ELSE ~Required(rules, i, variant)
        /\ custom.text \notin rules.unfit
        /\ custom.size \in rules.within \cup {None}
        /\ custom.art # None => <<custom.art, size>> \notin rules.coarse

================================================================================
