------------------------------- MODULE MCSounds -------------------------------
(* Two sounds: a horn, which is reported, and a siren, which is not. *)
EXTENDS Integers

Sound(flatness, crest, zeroCrossings, centroid, bands) ==
    [valid |-> TRUE, signalResponsive |-> TRUE, level |-> -20,
     clippingRatio |-> 0, crestFactor |-> crest,
     zeroCrossingRate |-> zeroCrossings, spectralCentroid |-> centroid,
     spectralFlatness |-> flatness, bands |-> bands]
Shares(a, b, c, d, e) ==
    [hz80To250 |-> a, hz250To800 |-> b, hz800To2000 |-> c,
     hz2000To4000 |-> d, hz4000To8000 |-> e]

SomeSounds == {Sound(50, 30, 200, 2000, Shares(20, 40, 500, 400, 40)),
               Sound(200, 45, 100, 1200, Shares(100, 400, 400, 50, 50))}
==============================================================================
