------------------------------- MODULE Config -------------------------------
(***************************************************************************)
(* Execution configurations (execution/exons.config.*.go): what a layer    *)
(* may set, how layers are merged and copied, what is refused, and what is *)
(* sent to each provider.                                                  *)
(*                                                                         *)
(* A configuration is a function from the names of the fields it sets to   *)
(* their values; a list, a map or a text that is empty is not set.  A      *)
(* fraction is given in hundredths.  A configuration that does not exist   *)
(* (nil) is merged as one that sets nothing.                               *)
(***************************************************************************)
EXTENDS Integers, SequencesExt

Most == 2147483647

\* The least and the greatest value of a number, by the name of its field.
Bounds ==
  [temperature |-> <<0, 200>>, top_p |-> <<0, 100>>, max_tokens |-> <<1, Most>>, top_k |-> <<0, Most>>,
   min_p |-> <<0, 100>>, repetition_penalty |-> <<1, Most>>, logprobs |-> <<0, 20>>,
   frequency_penalty |-> <<-200, 200>>, presence_penalty |-> <<-200, 200>>, n |-> <<1, 128>>,
   max_completion_tokens |-> <<1, Most>>, top_a |-> <<0, 100>>, budget_tokens |-> <<1, Most>>,
   width |-> <<1, 8192>>, height |-> <<1, 8192>>, num_images |-> <<1, 10>>,
   guidance_scale |-> <<0, 3000>>, steps |-> <<1, 200>>, strength |-> <<0, 100>>,
   speed |-> <<25, 400>>, duration |-> <<1, 60000>>, dimensions |-> <<1, 65536>>,
   poll_interval_seconds |-> <<1, Most>>, poll_timeout_seconds |-> <<1, Most>>]

\* The texts a field may hold, where not every text will do.
Words ==
  [reasoning_effort |-> {"low", "medium", "high", "max"}, service_tier |-> {"auto", "default"},
   modality |-> {"text", "image", "audio_speech", "audio_transcription", "music", "sound_effects",
                 "embedding", "video", "image_edit"},
   quality |-> {"standard", "hd", "low", "medium", "high"}, style |-> {"natural", "vivid"},
   output_format |-> {"mp3", "opus", "aac", "flac", "wav", "pcm"}, format |-> {"float", "base64"},
   input_type |-> {"search_query", "search_document", "classification", "clustering",
                   "semantic_similarity"},
   output_dtype |-> {"float32", "int8", "uint8", "binary", "ubinary"},
   truncation |-> {"none", "start", "end"}, pooling_type |-> {"mean", "cls", "last"},
   method |-> {"sse", "websocket"}]

\* One map written over another.
Over(b, a) == [key \in DOMAIN a \cup DOMAIN b |-> IF key \in DOMAIN b THEN b[key] ELSE a[key]]

Has(c, f) == f \in DOMAIN c
On(c, f) == Has(c, f) /\ c[f].enabled

-----------------------------------------------------------------------------
(* Validate. *)

Fits(f, value) ==
  /\ f \in DOMAIN Bounds => Bounds[f][1] <= value /\ value <= Bounds[f][2]
  /\ f \in DOMAIN Words => value \in Words[f]

AllFit(object) == \A f \in DOMAIN object : Fits(f, object[f])

ValidAsync(async) ==
  /\ AllFit(async)
  /\ {"poll_interval_seconds", "poll_timeout_seconds"} \subseteq DOMAIN async
       => async.poll_timeout_seconds >= async.poll_interval_seconds

Validate(c) ==
  /\ AllFit(c)
  /\ \A f \in {"image", "audio", "embedding"} : Has(c, f) => AllFit(c[f])
  /\ \A f \in {"thinking", "streaming"} : On(c, f) => AllFit(c[f])
  /\ Has(c, "async") => ValidAsync(c.async)
  /\ Has(c, "stop_token_ids") => \A id \in ToSet(c.stop_token_ids) : id >= 0
  /\ Has(c, "logit_bias") =>
       \A token \in DOMAIN c.logit_bias : -10000 <= c.logit_bias[token] /\ c.logit_bias[token] <= 10000

-----------------------------------------------------------------------------
(* Merge.  A field that the second configuration sets is taken from it, whole; only the options
   for the provider are merged key by key. *)

\* Variant: the options of the more specific layer are all there are.
MergedValueWhole(f, a, b) == b

\* Variant: an object is merged field by field as well.
MergedValueFieldwise(f, a, b) == IF f \in {"options", "image", "async"} THEN Over(b, a) ELSE b

MergedValue(f, a, b) == IF f = "options" THEN Over(b, a) ELSE b

Merge(a, b) ==
  [f \in DOMAIN a \cup DOMAIN b |->
     IF ~Has(b, f) THEN a[f] ELSE IF ~Has(a, f) THEN b[f] ELSE MergedValue(f, a[f], b[f])]

-----------------------------------------------------------------------------
(* What is sent.  A request is a function from keys to what stands there: the field it comes
   from, and its value.  Keys within generationConfig begin with a dot. *)

\* The fields of an object under the keys of a provider.
Renamed(object, names) ==
  LET set == DOMAIN object \cap DOMAIN names
      FieldOf(key) == CHOOSE f \in set : names[f] = key
  IN  [key \in {names[f] : f \in set} |-> <<FieldOf(key), object[FieldOf(key)]>>]

Sub(c, f, names) == IF Has(c, f) THEN Renamed(c[f], names) ELSE <<>>
One(key, field, value) == [k \in {key} |-> <<field, value>>]
If(condition, request) == IF condition THEN request ELSE <<>>

Options(c) == IF Has(c, "options") THEN [k \in DOMAIN c.options |-> <<"options", c.options[k]>>] ELSE <<>>
Stream(c) == If(On(c, "streaming"), One("stream", "streaming", TRUE))

\* What is written later stands.
Written(requests) ==
  LET Latest(key) == CHOOSE n \in DOMAIN requests :
        /\ key \in DOMAIN requests[n]
        /\ \A later \in n + 1 .. Len(requests) : key \notin DOMAIN requests[later]
  IN  [key \in UNION {DOMAIN requests[n] : n \in DOMAIN requests} |-> requests[Latest(key)][key]]

\* Names that are sent as they are.
Same(fields) == [f \in fields |-> f]

Common == {"model", "temperature", "max_tokens", "top_p"}

OpenAIFields ==
  Over([stop_sequences |-> "stop", logprobs |-> "top_logprobs"],
       Same(Common \cup {"seed", "logit_bias", "frequency_penalty", "presence_penalty", "n",
                         "max_completion_tokens", "reasoning_effort", "user", "service_tier", "store"}))

\* The size an image is asked for in: the one given, or the one its sides make.
EffectiveSize(image) ==
  IF Has(image, "size") THEN One("size", "size", image.size)
  ELSE If({"width", "height"} \subseteq DOMAIN image,
          One("size", "sides", <<image["width"], image["height"]>>))

OpenAIImage(c) ==
  If(Has(c, "image"),
     Over(EffectiveSize(c.image),
          Renamed(c.image, [quality |-> "quality", style |-> "style", num_images |-> "n"])))

\* The format of the answer, which is also the key of the audio format.
Format(c, key) == If(Has(c, "response_format"), One(key, "response_format", c.response_format))

OpenAIAudio(c) ==
  Sub(c, "audio",
      Over(If(~Has(c, "response_format"), [output_format |-> "response_format"]),
           Same({"voice", "speed"})))

ToOpenAI(c) ==
  Written(<<Renamed(c, OpenAIFields), If(Has(c, "logprobs"), One("logprobs", "asked", TRUE)),
            Format(c, "response_format"), OpenAIImage(c), OpenAIAudio(c),
            Sub(c, "embedding", [dimensions |-> "dimensions", format |-> "encoding_format"]),
            Stream(c), Options(c)>>)

\* A schema is sent, also one that was only named or ordered and is itself missing; any other
\* answer is asked for with nothing.
AnthropicFormat(c) ==
  If(Has(c, "response_format"),
     IF {"schema", "ordering"} \cap DOMAIN c.response_format # {}
       THEN One("output_format", "schema",
                Restrict(c.response_format, {"schema"} \cap DOMAIN c.response_format))
       ELSE One("output_format", "none", 0))

ToAnthropic(c) ==
  Written(<<Renamed(c, Same(Common \cup {"top_k", "stop_sequences", "seed", "reasoning_effort", "user"})),
            If(On(c, "thinking"), One("thinking", "thinking", c.thinking)),
            AnthropicFormat(c), Stream(c), Options(c)>>)

GeminiFields ==
  [temperature |-> ".temperature", max_tokens |-> ".maxOutputTokens", top_p |-> ".topP", top_k |-> ".topK",
   stop_sequences |-> ".stopSequences"]

\* What Gemini calls the type of an embedding's input.  A word it does not know is left out.
TaskTypes ==
  [search_query |-> "RETRIEVAL_QUERY", search_document |-> "RETRIEVAL_DOCUMENT",
   semantic_similarity |-> "SEMANTIC_SIMILARITY", classification |-> "CLASSIFICATION",
   clustering |-> "CLUSTERING"]

Translated(c, f, names, key) ==
  If(Has(c, "embedding") /\ Has(c.embedding, f) /\ c.embedding[f] \in DOMAIN names,
     One(key, f, names[c.embedding[f]]))

GenerationConfig(c) ==
  Written(<<Renamed(c, GeminiFields),
            Format(c, ".responseSchema"),
            If(Has(c, "response_format"), One(".responseMimeType", "mime", "application/json")),
            Sub(c, "image", [aspect_ratio |-> ".aspect_ratio", num_images |-> ".numberOfImages"]),
            Sub(c, "embedding", [dimensions |-> ".output_dimensionality"]),
            Translated(c, "input_type", TaskTypes, ".task_type")>>)

\* An option of that name replaces the whole of the generation config.
Replaced(c) == Has(c, "options") /\ "generationConfig" \in DOMAIN c.options

ToGemini(c) ==
  Written(<<Renamed(c, [model |-> "model"]), If(~Replaced(c), GenerationConfig(c)), Stream(c), Options(c)>>)

GuidedNames ==
  [backend |-> "guided_decoding_backend", json |-> "guided_json", regex |-> "guided_regex",
   choice |-> "guided_choice", grammar |-> "guided_grammar", whitespace_pattern |-> "guided_whitespace_pattern"]

ToVLLM(c) ==
  Written(<<Renamed(c, Over([stop_sequences |-> "stop"],
                            Same(Common \cup {"top_k", "min_p", "repetition_penalty", "seed", "logprobs",
                                              "stop_token_ids", "logit_bias", "frequency_penalty",
                                              "presence_penalty", "n"}))),
            Sub(c, "guided_decoding", GuidedNames),
            Sub(c, "embedding", Same({"normalize", "pooling_type"})),
            Stream(c), Options(c)>>)

ToMistral(c) ==
  Written(<<Renamed(c, Over([stop_sequences |-> "stop"],
                            Same(Common \cup {"seed", "frequency_penalty", "presence_penalty"}))),
            Format(c, "response_format"),
            Sub(c, "embedding", [dimensions |-> "output_dimension", format |-> "encoding_format",
                                 output_dtype |-> "output_dtype"]),
            Stream(c), Options(c)>>)

UpperCase == [none |-> "NONE", start |-> "START", end |-> "END"]

ToCohere(c) ==
  Written(<<Renamed(c, [model |-> "model", temperature |-> "temperature", max_tokens |-> "max_tokens",
                        top_p |-> "p", top_k |-> "k", stop_sequences |-> "stop_sequences", seed |-> "seed"]),
            Sub(c, "embedding", [dimensions |-> "output_dimension", input_type |-> "input_type",
                                 output_dtype |-> "embedding_types"]),
            Translated(c, "truncation", UpperCase, "truncate"),
            Stream(c), Options(c)>>)

\* The plain parameter map: no model, thinking, formats or options, and no top_k.
ToMap(c) ==
  Renamed(c, Over([stop_sequences |-> "stop"],
             Same({"temperature", "max_tokens", "top_p", "min_p", "repetition_penalty", "seed", "logprobs",
                   "stop_token_ids", "logit_bias", "frequency_penalty", "presence_penalty", "n",
                   "max_completion_tokens", "reasoning_effort", "top_a", "user", "service_tier", "store",
                   "modality", "image", "audio", "embedding", "streaming", "async"})))

Providers == {"map", "openai", "anthropic", "gemini", "vllm", "mistral", "cohere"}

ToProvider(provider, c) ==
  CASE provider = "map" -> ToMap(c)
    [] provider = "openai" -> ToOpenAI(c)
    [] provider = "anthropic" -> ToAnthropic(c)
    [] provider = "gemini" -> ToGemini(c)
    [] provider = "vllm" -> ToVLLM(c)
    [] provider = "mistral" -> ToMistral(c)
    [] provider = "cohere" -> ToCohere(c)

(* The order of the properties is set in the schema of a Gemini request; there is no map to set
   it in when no schema is given. *)
Panics(provider, c) ==
  /\ provider = "gemini"
  /\ Has(c, "response_format")
  /\ Has(c.response_format, "ordering") /\ ~Has(c.response_format, "schema")

\* The parts of fields that are schemas.
Schemas == {<<"response_format", "schema">>, <<"guided_decoding", "json">>}

OptionsOf(c) == IF Has(c, "options") THEN DOMAIN c.options ELSE {}

(* What no copy reaches, by its field and the part of it: what the value of an option holds, and
   the lists and maps of a schema that have a type of their own.  The copy of a schema goes into
   its untyped maps and lists, and takes everything else over (copySchema, copySlice). *)
HeldIn(c) ==
  {<<"options", o>> : o \in OptionsOf(c)}
    \cup {part \in Schemas : Has(c, part[1]) /\ Has(c[part[1]], part[2])}

\* The fields that what stands in a request comes from.
Sources(provider, c) ==
  LET request == ToProvider(provider, c) IN {request[key][1] : key \in DOMAIN request}

(* The fields whose own list or map a request holds on to, as they are or inside an object.  The
   maps of a schema are copied before they are completed. *)
Lent(provider, c) ==
  LET sources == Sources(provider, c)
      Holds(f, part) == f \in sources /\ part \in DOMAIN c[f]
  IN  {f \in DOMAIN c :
         \/ f \in sources \cap {"stop_sequences", "stop_token_ids", "logit_bias"}
         \/ /\ f = "response_format"
            /\ \/ provider \in {"openai", "mistral"} /\ Holds(f, "enum")
               \/ provider = "gemini" /\ Holds(f, "ordering")
         \/ f = "guided_decoding" /\ "choice" \in sources}

\* And what is handed on that was never copied: a schema may be sent for its field or by itself.
HeldSent(provider, c) ==
  LET sources == Sources(provider, c)
  IN  {part \in HeldIn(c) : part[1] \in sources \/ (part \in Schemas /\ part[2] \in sources)}

=============================================================================
