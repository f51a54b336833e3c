------------------------------ MODULE MCLayers ------------------------------
(***************************************************************************)
(* Stacks of an agent's definition, a skill's override and a runtime       *)
(* override: layers that set the same fields and others, parts of the same *)
(* objects, options that share a key with a field, and nothing.            *)
(***************************************************************************)
EXTENDS Layers

Definitions ==
  { [model |-> "gpt", temperature |-> 20, stop_sequences |-> <<"end">>, n |-> 2,
     image |-> [width |-> 512, height |-> 512, num_images |-> 3],
     async |-> [enabled |-> TRUE, poll_interval_seconds |-> 10, poll_timeout_seconds |-> 20],
     options |-> [temperature |-> "cold", safety |-> "on"]],
    [max_tokens |-> 100, top_k |-> 40, logprobs |-> 5, stop_token_ids |-> <<7>>,
     thinking |-> [enabled |-> TRUE, budget_tokens |-> 1000],
     response_format |-> [type |-> "json_schema", schema |-> "s", ordering |-> <<"a">>],
     streaming |-> [enabled |-> TRUE],
     embedding |-> [dimensions |-> 8, input_type |-> "clustering", truncation |-> "end"]] }

Skills ==
  { <<>>,
    [temperature |-> 70, logit_bias |-> [t |-> 5], image |-> [width |-> 1024, quality |-> "hd"],
     async |-> [enabled |-> TRUE, poll_interval_seconds |-> 30],
     guided_decoding |-> [choice |-> <<"y", "n">>, json |-> "s"],
     audio |-> [voice |-> "nova", output_format |-> "mp3"],
     options |-> [stop |-> "never"]],
    [response_format |-> [type |-> "enum", enum |-> <<"y", "n">>], min_p |-> 5,
     embedding |-> [dimensions |-> 4, pooling_type |-> "cls"],
     options |-> [generationConfig |-> "mine", safety |-> "off"]] }

Overrides ==
  { [temperature |-> 100, stop_sequences |-> <<"stop">>, image |-> [height |-> 256, num_images |-> 1],
     async |-> [enabled |-> TRUE, poll_timeout_seconds |-> 5], streaming |-> [enabled |-> FALSE]],
    [audio |-> [output_format |-> "wav", speed |-> 100], n |-> 1,
     response_format |-> [type |-> "json_schema", ordering |-> <<"b">>],
     embedding |-> [output_dtype |-> "int8", format |-> "base64"],
     thinking |-> [enabled |-> TRUE, budget_tokens |-> 0]] }

MCStacks == {<<d, s, o>> : d \in Definitions, s \in Skills, o \in Overrides}

=============================================================================
