------------------------------ MODULE MCTensorRt ------------------------------
(***************************************************************************)
(* Two tasks share an engine of one input and two outputs; a third has an  *)
(* engine of one output, and a fourth one without outputs.                 *)
(***************************************************************************)
EXTENDS TensorRtWorker, TLC

CONSTANTS vision, voice, depth, probe, shared, small, blind,
          image, boxes, scores

MCTask       == {vision, voice, depth, probe}
MCPath       == {shared, small, blind}
MCEnginePath == vision :> shared @@ voice :> shared @@ depth :> small
                  @@ probe :> blind
MCName       == {image, boxes, scores}
MCInputName  == {image}
MCIoTensors  == shared :> <<image, boxes, scores>> @@ small :> <<image, boxes>>
                  @@ blind :> <<image>>

=============================================================================
