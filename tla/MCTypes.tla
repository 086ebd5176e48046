------------------------------- MODULE MCTypes -------------------------------
(***************************************************************************)
(* The messages that are sent: those of acp/types_gen.go, with the type of *)
(* each union variant according to internal/schemagen/schema.json, and     *)
(* those that the generator writes for small schemas.                      *)
(***************************************************************************)
EXTENDS MessageTypes, UnionTypes, TypeGen

Entry(name, type, alone) == [name |-> name, type |-> type, alone |-> alone]

\* The types of acp/types_gen.go with methods of their own, and the variants of
\* unions.
Plain ==
    <<Entry("AgentAuthCapabilities", AgentAuthCapabilities, Nothing),
      Entry("AgentCapabilities", AgentCapabilities, Nothing),
      Entry("Annotations", Annotations, Nothing),
      Entry("AudioContent", AudioContent, Nothing),
      Entry("AuthAccount", AuthAccount, Nothing),
      Entry("AuthCapabilities", AuthCapabilities, Nothing),
      Entry("AuthMethodAgent", AuthMethodAgent, Nothing),
      Entry("AuthMethodTerminal", AuthMethodTerminal, Nothing),
      Entry("AuthStatusResponse", AuthStatusResponse, Nothing),
      Entry("AuthStatusUpdateNotification", AuthStatusUpdateNotification, Nothing),
      Entry("AvailableCommand", AvailableCommand, Nothing),
      Entry("AvailableCommandsUpdate", AvailableCommandsUpdate, Nothing),
      Entry("BlobResourceContents", BlobResourceContents, Nothing),
      Entry("BooleanPropertySchema", BooleanPropertySchema, Nothing),
      Entry("ClientCapabilities", ClientCapabilities, Nothing),
      Entry("ClientSessionCapabilities", ClientSessionCapabilities, Nothing),
      Entry("CompactionSummaryChunk", CompactionSummaryChunk, Nothing),
      Entry("CompactionUpdate", CompactionUpdate, Nothing),
      Entry("ConfigOptionUpdate", ConfigOptionUpdate, Nothing),
      Entry("Content", Content, Nothing),
      Entry("ContentChunk", ContentChunk, Nothing),
      Entry("CurrentModeUpdate", CurrentModeUpdate, Nothing),
      Entry("Diff", Diff, Nothing),
      Entry("ElicitationCapabilities", ElicitationCapabilities, Nothing),
      Entry("ElicitationFormMode", ElicitationFormMode, Nothing),
      Entry("ElicitationSchema", ElicitationSchema, Nothing),
      Entry("ElicitationSessionScope", ElicitationSessionScope, Nothing),
      Entry("ElicitationUrlMode", ElicitationUrlMode, Nothing),
      Entry("EmbeddedResource", EmbeddedResource, Nothing),
      Entry("EmbeddedResourceResource", EmbeddedResourceResource, Nothing),
      Entry("EnumOption", EnumOption, Nothing), Entry("Error", Error, Nothing),
      Entry("ErrorStopReason", ErrorStopReason, Nothing),
      Entry("FileSystemCapabilities", FileSystemCapabilities, Nothing),
      Entry("ForkSessionResponse", ForkSessionResponse, Nothing),
      Entry("ImageContent", ImageContent, Nothing),
      Entry("Implementation", Implementation, Nothing),
      Entry("InitializeRequest", InitializeRequest, Nothing),
      Entry("InitializeResponse", InitializeResponse, Nothing),
      Entry("IntegerPropertySchema", IntegerPropertySchema, Nothing),
      Entry("ListProvidersResponse", ListProvidersResponse, Nothing),
      Entry("ListSessionsResponse", ListSessionsResponse, Nothing),
      Entry("LoadSessionRequest", LoadSessionRequest, Nothing),
      Entry("LoadSessionResponse", LoadSessionResponse, Nothing),
      Entry("McpCapabilities", McpCapabilities, Nothing),
      Entry("McpError", McpError, Nothing),
      Entry("McpServerAcp", McpServerAcp, Nothing),
      Entry("McpServerHttp", McpServerHttp, Nothing),
      Entry("McpServerSse", McpServerSse, Nothing),
      Entry("McpServerStdio", McpServerStdio, Nothing),
      Entry("MessageMcpNotification", MessageMcpNotification, Nothing),
      Entry("MessageMcpRequest", MessageMcpRequest, Nothing),
      Entry("MultiSelectPropertySchema", MultiSelectPropertySchema, Nothing),
      Entry("NewSessionRequest", NewSessionRequest, Nothing),
      Entry("NewSessionResponse", NewSessionResponse, Nothing),
      Entry("Notice", Notice, Nothing),
      Entry("NumberPropertySchema", NumberPropertySchema, Nothing),
      Entry("Plan", Plan, Nothing), Entry("PlanFile", PlanFile, Nothing),
      Entry("PlanItems", PlanItems, Nothing),
      Entry("PlanMarkdown", PlanMarkdown, Nothing),
      Entry("PlanRemoved", PlanRemoved, Nothing),
      Entry("PlanUpdate", PlanUpdate, Nothing),
      Entry("PromptCapabilities", PromptCapabilities, Nothing),
      Entry("PromptRequest", PromptRequest, Nothing),
      Entry("PromptResponse", PromptResponse, Nothing),
      Entry("ProviderInfo", ProviderInfo, Nothing),
      Entry("ProxySuccessorNotification", ProxySuccessorNotification, Nothing),
      Entry("ProxySuccessorRequest", ProxySuccessorRequest, Nothing),
      Entry("RequestPermissionRequest", RequestPermissionRequest, Nothing),
      Entry("ResourceLink", ResourceLink, Nothing),
      Entry("ResumeSessionResponse", ResumeSessionResponse, Nothing),
      Entry("SelectedPermissionOutcome", SelectedPermissionOutcome, Nothing),
      Entry("SessionCapabilities", SessionCapabilities, Nothing),
      Entry("SessionConfigBoolean", SessionConfigBoolean, Nothing),
      Entry("SessionConfigOptionsCapabilities", SessionConfigOptionsCapabilities, Nothing),
      Entry("SessionConfigSelect", SessionConfigSelect, Nothing),
      Entry("SessionConfigSelectGroup", SessionConfigSelectGroup, Nothing),
      Entry("SessionConfigSelectOption", SessionConfigSelectOption, Nothing),
      Entry("SessionInfo", SessionInfo, Nothing),
      Entry("SessionInfoUpdate", SessionInfoUpdate, Nothing),
      Entry("SessionMessage", SessionMessage, Nothing),
      Entry("SessionMessageChunk", SessionMessageChunk, Nothing),
      Entry("SessionMode", SessionMode, Nothing),
      Entry("SessionModeState", SessionModeState, Nothing),
      Entry("SessionSystemPromptCapabilities", SessionSystemPromptCapabilities, Nothing),
      Entry("SessionSystemPromptModeCapabilities", SessionSystemPromptModeCapabilities, Nothing),
      Entry("SetSessionConfigOptionResponse", SetSessionConfigOptionResponse, Nothing),
      Entry("StringMultiSelectItems", StringMultiSelectItems, Nothing),
      Entry("StringPropertySchema", StringPropertySchema, Nothing),
      Entry("SubagentSessionCapabilities", SubagentSessionCapabilities, Nothing),
      Entry("SubagentUpdate", SubagentUpdate, Nothing),
      Entry("SystemPrompt", SystemPrompt, Nothing),
      Entry("Terminal", Terminal, Nothing),
      Entry("TerminalExitStatus", TerminalExitStatus, Nothing),
      Entry("TerminalOutputResponse", TerminalOutputResponse, Nothing),
      Entry("TextContent", TextContent, Nothing),
      Entry("TextResourceContents", TextResourceContents, Nothing),
      Entry("TitledMultiSelectItems", TitledMultiSelectItems, Nothing),
      Entry("ToolCall", ToolCall, Nothing),
      Entry("ToolCallLocation", ToolCallLocation, Nothing),
      Entry("ToolCallUpdate", ToolCallUpdate, Nothing),
      Entry("Usage", Usage, Nothing), Entry("UsageUpdate", UsageUpdate, Nothing),
      Entry("WaitForTerminalExitResponse", WaitForTerminalExitResponse, Nothing),
      Entry("CreateElicitationResponse", CreateElicitationResponse, Nothing),
      Entry("SetSessionConfigOptionRequest", SetSessionConfigOptionRequest, Nothing),
      Entry("StateUpdate", StateUpdate, Nothing),
      Entry("MessageMcpResponse", MessageMcpResponse, Nothing)>>

\* The unions of which a variant is also a type that stands alone.
WithVariants ==
    <<Entry("AuthMethod", AuthMethod,
          ("terminal" :> AuthMethodTerminal) @@ ("" :> AuthMethodAgent)),
      Entry("ContentBlock", ContentBlock,
          ("text" :> TextContent) @@ ("image" :> ImageContent) @@ ("audio" :> AudioContent)
          @@ ("resource_link" :> ResourceLink) @@ ("resource" :> EmbeddedResource)),
      Entry("CreateElicitationRequest", CreateElicitationRequest,
          ("form" :> ElicitationFormMode) @@ ("url" :> ElicitationUrlMode)),
      Entry("ElicitationPropertySchema", ElicitationPropertySchema,
          ("string" :> StringPropertySchema) @@ ("number" :> NumberPropertySchema)
          @@ ("integer" :> IntegerPropertySchema)
          @@ ("boolean" :> BooleanPropertySchema)
          @@ ("array" :> MultiSelectPropertySchema)),
      Entry("IdleStateUpdate", IdleStateUpdate,
          ("error" :> ErrorStopReason)),
      Entry("McpServer", McpServer,
          ("http" :> McpServerHttp) @@ ("sse" :> McpServerSse) @@ ("acp" :> McpServerAcp)
          @@ ("" :> McpServerStdio)),
      Entry("MultiSelectItems", MultiSelectItems,
          ("string" :> StringMultiSelectItems) @@ ("" :> TitledMultiSelectItems)),
      Entry("PlanUpdateContent", PlanUpdateContent,
          ("items" :> PlanItems) @@ ("file" :> PlanFile) @@ ("markdown" :> PlanMarkdown)),
      Entry("RequestPermissionOutcome", RequestPermissionOutcome,
          ("selected" :> SelectedPermissionOutcome)),
      Entry("SessionConfigOption", SessionConfigOption,
          ("select" :> SessionConfigSelect) @@ ("boolean" :> SessionConfigBoolean)),
      Entry("SessionUpdate", SessionUpdate,
          ("user_message_chunk" :> ContentChunk) @@ ("agent_message_chunk" :> ContentChunk)
          @@ ("agent_thought_chunk" :> ContentChunk) @@ ("tool_call" :> ToolCall)
          @@ ("tool_call_update" :> ToolCallUpdate) @@ ("plan" :> Plan)
          @@ ("plan_update" :> PlanUpdate) @@ ("plan_removed" :> PlanRemoved)
          @@ ("available_commands_update" :> AvailableCommandsUpdate)
          @@ ("current_mode_update" :> CurrentModeUpdate)
          @@ ("config_option_update" :> ConfigOptionUpdate)
          @@ ("session_info_update" :> SessionInfoUpdate)
          @@ ("usage_update" :> UsageUpdate) @@ ("notice" :> Notice)
          @@ ("compaction_update" :> CompactionUpdate)
          @@ ("compaction_summary_chunk" :> CompactionSummaryChunk)
          @@ ("subagent_update" :> SubagentUpdate)
          @@ ("session_message" :> SessionMessage)
          @@ ("session_message_chunk" :> SessionMessageChunk)),
      Entry("ToolCallContent", ToolCallContent,
          ("content" :> Content) @@ ("diff" :> Diff) @@ ("terminal" :> Terminal))>>

-----------------------------------------------------------------------------
(* Generated types *)

String == Prop("string", FALSE, FALSE, FALSE, FALSE)
NullableString == Prop("string", TRUE, FALSE, FALSE, FALSE)
LaxString == Prop("string", TRUE, TRUE, FALSE, FALSE)
KeptString == Prop("string", TRUE, TRUE, FALSE, TRUE)
Closed == Prop("enum", FALSE, FALSE, FALSE, FALSE)
LaxClosed == Prop("enum", TRUE, TRUE, FALSE, FALSE)
Array == Prop("array", FALSE, FALSE, FALSE, FALSE)
LaxArray == Prop("array", FALSE, TRUE, TRUE, FALSE)
StrictItemArray == Prop("array", TRUE, FALSE, TRUE, FALSE)
KeptArray == Prop("array", TRUE, TRUE, TRUE, TRUE)
Struct == Prop("object", FALSE, FALSE, FALSE, FALSE)
LaxStruct == Prop("object", TRUE, TRUE, FALSE, FALSE)

\* What a variant, and what all variants in common, may declare: <<schema, required>>.
Declared ==
    <<<<NoProp, FALSE>>, <<String, FALSE>>, <<String, TRUE>>, <<NullableString, FALSE>>,
      <<LaxString, FALSE>>, <<KeptString, FALSE>>, <<Closed, TRUE>>, <<LaxClosed, FALSE>>,
      <<Array, FALSE>>, <<Array, TRUE>>, <<LaxArray, FALSE>>, <<LaxArray, TRUE>>,
      <<StrictItemArray, FALSE>>, <<KeptArray, FALSE>>, <<Struct, FALSE>>, <<Struct, TRUE>>,
      <<LaxStruct, FALSE>>>>
Commons ==
    <<<<NoProp, FALSE>>, <<String, TRUE>>, <<LaxString, FALSE>>, <<Array, TRUE>>,
      <<KeptString, FALSE>>>>

\* Every combination of two variants and a common property.
D == Len(Declared)
Combination(i) ==
    LET a == Declared[1 + (i % D)]
        b == Declared[1 + ((i \div D) % D)]
        c == Commons[1 + (i \div (D * D))]
    IN  UnionSchema(c[1], c[2], ("a" :> a[1]) @@ ("b" :> b[1]), ("a" :> a[2]) @@ ("b" :> b[2]))
\* What is required of all variants no variant declares as optional.
Sensible(s) ==
    /\ \E p \in {s.common, s.props["a"], s.props["b"]} : Has(p)
    /\ s.commonReq => \A t \in TagSet : Has(s.props[t]) => s.req[t]
Schemas ==
    SelectSeq([i \in 1 .. Len(Commons) * D * D |-> Combination(i - 1)],
        LAMBDA s : Sensible(s) /\ Generates(s))

-----------------------------------------------------------------------------
(* All types *)

GeneratedEntry(s) ==
    Entry(s, UnionOf(s),
          [t \in {t \in TagSet : Has(s.props[t])} |-> ObjectOf(s.props[t], s.req[t])])

AllTypes ==
    LET schemas == Schemas
    IN  Plain \o WithVariants \o [i \in DOMAIN schemas |-> GeneratedEntry(schemas[i])]

\* TLC evaluates AllTypes once and what a configuration puts for a constant anew.
MCCatalog == AllTypes
=============================================================================
