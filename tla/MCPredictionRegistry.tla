------------------------- MODULE MCPredictionRegistry -------------------------
(***************************************************************************)
(* Small instances of the registry for TLC.                                *)
(***************************************************************************)
EXTENDS PredictionRegistry

SpecOf(source, specificity, anchor, matures) ==
    [source |-> source, specificity |-> specificity, anchor |-> anchor,
     matures |-> matures]

\* Two feeds at a time: between them the two populations reach every caller.
\* The macro is the prediction that may be matured, as it is the one that can
\* have a draft of its own before, during and after a probation window.  That
\* the others opt out (maturation_eligible) is a bound: they would be matured
\* as well, but a prediction that is a candidate need not be chosen.
MCPopulations ==
    {<<SpecOf("pattern", "category", "debugging", TRUE),
       SpecOf("composer_intent", "anchor", "other", FALSE)>>,
     <<SpecOf("history", "concrete", "other", FALSE),
       SpecOf("artefact_item", "concrete", "other", FALSE)>>}

=============================================================================
