-------------------------------- MODULE MCFramer --------------------------------
(* Streams of up to three messages, split in every way. *)
EXTENDS Framer, TLC

MCByte == {"begin", "cr", "lf", "0", "2", "f", "x", "two", "zero", "bare", "both", "chunked", "until"}

MCHex == <<"0">> :> 0 @@ <<"0", "2">> :> 2 @@ <<"2">> :> 2 @@ <<"f", "f">> :> 255

Says(bodiless, length, chunked, keepAlive) ==
    [bodiless |-> bodiless, length |-> length, chunked |-> chunked, keep |-> keepAlive]

MCBlock ==
    "two" :> Says(FALSE, 2, FALSE, TRUE) @@ "zero" :> Says(FALSE, 0, FALSE, FALSE)
    @@ "bare" :> Says(TRUE, 2, FALSE, TRUE) @@ "both" :> Says(FALSE, 1, TRUE, TRUE)
    @@ "chunked" :> Says(FALSE, NoLength, TRUE, TRUE)
    @@ "until" :> Says(FALSE, NoLength, FALSE, TRUE)

Part(at, bytes, data) == [at |-> at, bytes |-> bytes, data |-> data]

Ended(line) == line \o <<"cr", "lf">>
Headers(h) == Part("headers", <<"begin", h>>, <<>>)
Content(text) == Part("body", text, text)
Size(digits) == Part("size", Ended(digits), <<>>)
Data(text) == Part("data", Ended(text), text)
Trailer(line) == Part("trailers", Ended(line), <<>>)

Message(h, rest, content, keepAlive, ends) ==
    [parts |-> <<Headers(h)>> \o rest, head |-> h, body |-> content,
     keep |-> keepAlive, ends |-> ends]

Chunks == <<Size(<<"0", "2">>), Data(<<"cr", "x">>), Size(<<"2">>), Data(<<"lf", "0">>),
            Size(<<"0">>), Trailer(<<"x">>), Trailer(<<>>)>>

\* Bodies hold bytes that mean something elsewhere.
Whole == {Message("two", <<Content(<<"cr", "begin">>)>>, <<"cr", "begin">>, TRUE, "here"),
          Message("bare", <<>>, <<>>, TRUE, "here"),
          Message("both", <<Content(<<"0">>)>>, <<"0">>, TRUE, "here"),
          Message("chunked", Chunks, <<"cr", "x", "lf", "0">>, TRUE, "here")}

Last == {Message("zero", <<Content(<<>>)>>, <<>>, FALSE, "here"),
         Message("until", <<Part("until", <<"begin", "two", "cr">>, <<"begin", "two", "cr">>)>>,
                 <<>>, FALSE, "close"),
         Message("chunked", <<Part("size", <<"x", "cr", "lf">>, <<>>)>>, <<>>, TRUE, "never"),
         [parts |-> <<Part("headers", <<"x">>, <<>>)>>, head |-> "none", body |-> <<>>,
          keep |-> TRUE, ends |-> "never"]}

Usual == {<<a>> : a \in Whole \union Last}
           \union {<<a, b>> : a \in Whole, b \in Whole \union Last}
           \union {<<a, b, c>> : a \in Whole, b \in Whole, c \in Last}

\* A chunk of usize::MAX bytes, of which one comes.
Huge == Message("chunked", <<Size(<<"f", "f">>), Part("data", <<"2">>, <<"2">>),
                             Part("size", <<"x", "cr", "lf">>, <<>>)>>, <<>>, TRUE, "never")

MCStreams == Usual \union {<<Huge>>} \union {<<a, Huge>> : a \in Whole}

\* But for that one they keep to the grammar that the proofs assume.
ASSUME StreamsConform == \A ms \in Streams : Conforms(ms) <=> ms \in Usual

=================================================================================
