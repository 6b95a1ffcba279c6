SPECIFICATION AutosaveSpec
CONSTANTS
    InvalidDocument = {2}
    OtherTab = FALSE
    NoDetail = nodetail
    Asked = asked
    MaxEdits = 4
    MaxLock = 4
PROPERTY DraftIsNotDropped
