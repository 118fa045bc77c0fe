CONSTANT
    Headings <- MCHeadings
SPECIFICATION Spec
INVARIANTS FacesTheNode
