\* Checks that every payload type the spec names decodes.
SPECIFICATION Spec
INVARIANT
    EveryPayloadTypeDecodes
